--------------------------- MODULE MCRedisInterface ---------------------------
(* RedisInterface with two fields, so that a batch has one entry or two and *)
(* an error can fall between two announcements.                             *)
EXTENDS RedisInterface

CONSTANTS f1, f2

MCFields == {f1, f2}
OneField == {f1}
===============================================================================
