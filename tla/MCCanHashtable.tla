---------------------------- MODULE MCCanHashtable ----------------------------
(* CanHashtable on a small instance: two ids with the same low half, one of *)
(* them extended (its EFF flag is in the high half), and one ordinary id.   *)
EXTENDS CanHashtable

CONSTANTS r1, r2

MCIds     == {<<0, 200>>, <<32769, 200>>, <<0, 42>>}
MCByte    == {0, 1}
MCReaders == {r1, r2}
OneTick   == {0}

(* Two payloads of id 200, one of them also sent under the extended id, and *)
(* once more with another tail in the buffer; one payload of id 42.         *)
MCFrames == {FrameOf(<<0, 200>>, <<1>>, 0),
             FrameOf(<<0, 200>>, <<1, 0>>, 0),
             FrameOf(<<32769, 200>>, <<1>>, 1),
             FrameOf(<<0, 42>>, <<>>, 0)}
===============================================================================
