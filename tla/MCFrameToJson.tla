---------------------------- MODULE MCFrameToJson ----------------------------
(* FrameToJson with the built-in id 200, a configured id, a free id and two *)
(* threads that convert.  Two messages are one byte long and have a stale   *)
(* second byte in their buffer, one of them shorter than the INT of 200.    *)
EXTENDS FrameToJson

CONSTANTS main, rest

MCIds     == {<<0, 200>>, <<0, 7>>, <<0, 9>>}
MCByte    == {0, 1}
MCCallers == {main, rest}
MCConfig  == [k \in Key |-> IF k = 9 THEN "BYTE" ELSE None]
MCSends   == {<<7, "BOOL">>, <<7, "STR">>, <<9, "INT">>, <<200, "STR">>}

Msg(frame, hash) == [frame |-> frame, sync_tick |-> 0, hash |-> hash]

MCMessages ==
    {Msg(FrameOf(<<0, 200>>, <<1, 1>>, 0), NoHash),
     Msg(FrameOf(<<0, 7>>, <<1>>, 1), Sha256(<<1>>)),
     Msg(FrameOf(<<0, 9>>, <<0, 1>>, 0), NoHash),
     Msg(FrameOf(<<0, 200>>, <<1>>, 1), NoHash)}
===============================================================================
