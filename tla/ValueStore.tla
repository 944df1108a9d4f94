------------------------------ MODULE ValueStore ------------------------------
(***************************************************************************)
(* What the REST interface promises for an id that clients write: posted   *)
(* values take effect one after the other, in the order in which they were *)
(* accepted, and a GET returns the value that is in effect.  Posts to other *)
(* ids wait in the same line and come to nothing here.  Nothing of frames, *)
(* bytes, types, digests or locks is left.                                 *)
(***************************************************************************)
EXTENDS Sequences

CONSTANTS
    Key,      \* the ids that may be posted to
    Kept,     \* those of which the store promises something
    Values,   \* the JSON values clients post
    Clients,  \* the clients that read
    None      \* no value yet

VARIABLES
    pending,  \* <<id, value>> posted and not in effect yet
    value,    \* id -> the value in effect, or None
    seen      \* client -> <<id, what its last GET of it returned>>, or None

vars == <<pending, value, seen>>

Init == /\ pending = <<>>
        /\ value = [k \in Kept |-> None]
        /\ seen  = [c \in Clients |-> None]

Post(k, v) == /\ pending' = Append(pending, <<k, v>>)
              /\ UNCHANGED <<value, seen>>

Apply == /\ pending # <<>>
         /\ value'   = [k \in Kept |-> IF k = Head(pending)[1] THEN Head(pending)[2]
                                      ELSE value[k]]
         /\ pending' = Tail(pending)
         /\ UNCHANGED seen

Get(c, k) == /\ seen' = [seen EXCEPT ![c] = <<k, value[k]>>]
             /\ UNCHANGED <<pending, value>>

(* The client asks for something the store does not hold. *)
Leave(c) == /\ seen' = [seen EXCEPT ![c] = None]
            /\ UNCHANGED <<pending, value>>

Next == \/ \E k \in Key, v \in Values : Post(k, v)
        \/ Apply
        \/ \E c \in Clients : Leave(c) \/ \E k \in Kept : Get(c, k)

Spec == Init /\ [][Next]_vars
===============================================================================
