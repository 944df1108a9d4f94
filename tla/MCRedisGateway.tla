---------------------------- MODULE MCRedisGateway ----------------------------
(* The gateway with Redis on a small instance.  42 is the sync id and       *)
(* configured as INT, 7 is free, 9 is filtered out.  The bus carries sync   *)
(* frames of one byte (the second is stale) and of two, and frames to be    *)
(* filtered, which leave their bytes in the buffer.                         *)
EXTENDS RedisGateway

CONSTANTS r1, w1

MCIds     == {<<0, 42>>, <<0, 7>>, <<0, 9>>}
MCByte    == {0, 1}
NoReader  == {}
OneReader == {r1}
OneWorker == {w1}

MCConfig == [k \in Key |-> IF k = 42 THEN "INT" ELSE None]
MCFilter == [k \in Key |-> IF k = 9 THEN FALSE ELSE None]

SyncFrames     == {<<<<0, 42>>, <<1>>>>, <<<<0, 42>>, <<1, 1>>>>}
FilteredFrames == {<<<<0, 9>>, <<0, 0>>>>, <<<<0, 9>>, <<1>>>>}
MCFrames       == SyncFrames \cup FilteredFrames

SendInt    == [type |-> "INT",  id |-> <<0, 7>>,  arg |-> <<1>>]
SendSync   == [type |-> "BOOL", id |-> <<0, 42>>, arg |-> <<1>>]
MCRequests == {SendInt, SendSync}
===============================================================================
