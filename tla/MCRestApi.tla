------------------------------- MODULE MCRestApi -------------------------------
(* Clients post numbers to 7 (one has only a low byte, one only a high one) *)
(* and bodies that lead to no frame; the bus carries frames of the sync id  *)
(* 42.                                                                      *)
EXTENDS RestApi, TLC

CONSTANTS r1, w1, w2

MCIds      == {<<0, k>> : k \in {7, 42}}
MCByte     == {0, 1}
OneReader  == {r1}
OneWorker  == {w1}
TwoWorkers == {w1, w2}

(* The workers of POST /send run the same code and are told apart by nothing. *)
WorkerSymmetry == Permutations(TwoWorkers)

MCConfig == [k \in Key |-> IF k = 42 THEN "INT" ELSE None]
MCFilter == [k \in Key |-> None]
MCFrames == {<<<<0, 42>>, <<1, 1>>>>}

Body(k, v) == [form |-> "json", id |-> <<"number", <<0, k>>>>, payload |-> v]

Values  == {Body(7, <<"number", 1>>), Body(7, <<"number", 256>>)}
Refused == {[form |-> "malformed", id |-> None, payload |-> None], Body(7, <<"null">>)}

MCBodies == Values \cup Refused \cup {Body(7, <<"object">>)}

(* The other instance: a number with a sign and an array, to an id each.    *)
(* Either of them alone violates ConversionIsBidirectional.                 *)
Signed     == {Body(7, <<"number", -1>>)}
Arrays     == {Body(9, <<"array", <<<<"number", 255>>, <<"number", 0>>>>>>)}
BothWays   == Signed \cup Arrays
BothIds    == {<<0, k>> : k \in {7, 9, 42}}
SignByte   == {0, 255}
SignFrames == {<<<<0, 42>>, <<0, 0>>>>}

(* All calls of enqueue_* come from bodies. *)
MCRequests == {CallOf(b) : b \in PostedBodies}
===============================================================================
