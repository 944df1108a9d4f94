------------------------------ MODULE CanMessage ------------------------------
(***************************************************************************)
(* The values the threads of can2rest exchange: scpp::CanFrame, the        *)
(* CAN_MESSAGE built around it, and the width conversions a CAN id goes    *)
(* through.  No variables.                                                 *)
(*                                                                         *)
(* A CAN id is a uint32_t whose top three bits are the EFF/RTR/ERR flags.  *)
(* It is written as the pair <<high half, low half>> of its 16-bit halves, *)
(* so the implicit conversion to unsigned short that every map of the      *)
(* program applies to it is the projection on the low half.                *)
(***************************************************************************)
EXTENDS Naturals, Sequences, FiniteSets

CONSTANTS
    Ids,      \* the CAN ids in use, as <<high half, low half>>
    BufLen,   \* sizeof(scpp::CanFrame::data): 64 in the code
    Byte      \* the values of a data byte the instance tells apart

ASSUME IdsAssumption    == Ids \subseteq (0 .. 65535) \X (0 .. 65535)
ASSUME BufLenAssumption == BufLen \in Nat /\ BufLen >= 2
ASSUME ByteAssumption   == Byte \subseteq 0 .. 255

(* unsigned short <- uint32_t: the key type of mp and type_register. *)
U16(id) == id[2]
Key == {U16(id) : id \in Ids}

CONVERSATION_TYPE == {"NONE", "RAW", "INT", "BYTE", "STR", "BOOL"}

(* scpp::CanFrame.  data[i] of the C array is data[i + 1] here; only the    *)
(* first len bytes belong to the frame, the rest is whatever the buffer     *)
(* held before.                                                             *)
Buffer   == [1 .. BufLen -> Byte]
CanFrame == [id : Ids, len : 0 .. BufLen, data : Buffer]

(* A frame of an id and a payload, the rest of its buffer filled with b. *)
FrameOf(id, bytes, b) ==
    [id   |-> id,
     len  |-> Len(bytes),
     data |-> [i \in 1 .. BufLen |-> IF i <= Len(bytes) THEN bytes[i] ELSE b]]

Payload(frame) == [i \in 1 .. frame.len |-> frame.data[i]]

(* memcpy(dst, bytes, Len(bytes)) into a buffer that is not cleared first. *)
Memcpy(dst, bytes) ==
    [i \in 1 .. BufLen |-> IF i <= Len(bytes) THEN bytes[i] ELSE dst[i]]

(* The digest of a byte string: an injective tag, collisions are ignored.  *)
(* NoHash is the empty std::string, Garbled what a torn computation leaves. *)
Sha256(bytes) == <<"sha256", bytes>>
NoHash        == <<"">>
Garbled       == <<"garbled">>

Hash == {Sha256(Payload(f)) : f \in CanFrame} \cup {NoHash, Garbled}

(* CAN_MESSAGE.  ts is never read; valid is the None of the callers below; *)
(* message_receieved has the same value (2) for SEND and GOT.              *)
CAN_MESSAGE == [frame : CanFrame, sync_tick : Nat, hash : Hash]

(* std::map::operator[] on a map written as a total function onto values   *)
(* and None: a missing key is inserted with the default value.             *)
Subscript(map, k, none, default) ==
    IF map[k] = none THEN [map EXCEPT ![k] = default] ELSE map
===============================================================================
