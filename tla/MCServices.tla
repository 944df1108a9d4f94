------------------------------ MODULE MCServices ------------------------------
(* Processes with and without the web server, and up to three SIGINTs, so   *)
(* that one can fall into setup, one into open and one into the loop.       *)
EXTENDS Services
===============================================================================
