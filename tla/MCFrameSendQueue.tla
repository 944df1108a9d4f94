--------------------------- MODULE MCFrameSendQueue ---------------------------
(* FrameSendQueue with two workers: two int16 calls can hash at once, a     *)
(* bool leaves the second byte of its buffer uninitialised, and one string  *)
(* is longer than the buffer.                                               *)
EXTENDS FrameSendQueue

CONSTANTS w1, w2

MCIds      == {<<0, 42>>, <<0, 200>>}
MCByte     == {0, 1}
MCWorkers  == {w1, w2}
MCRequests == {[type |-> "INT",  id |-> <<0, 200>>, arg |-> <<257>>],
               [type |-> "BOOL", id |-> <<0, 200>>, arg |-> <<1>>],
               [type |-> "STR",  id |-> <<0, 42>>,  arg |-> <<0, 1, 1>>]}
===============================================================================
