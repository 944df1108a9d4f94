------------------------------ MODULE LatestFrame ------------------------------
(***************************************************************************)
(* What can_hashtable promises the threads that share it: a table that is  *)
(* written by one thread and read by many, in which every operation takes  *)
(* effect at one instant between its call and its return.  A put leaves    *)
(* the table holding the payload it was called with; a get answers what    *)
(* the table holds at that instant; a listing names the keys then present. *)
(* How the code splits an operation at the places where it releases the    *)
(* mutex does not appear here: CanHashtable is shown to implement this.    *)
(***************************************************************************)
EXTENDS CanMessage

CONSTANTS
    Frames,   \* the frames put is called with
    Readers,  \* the threads that call get and get_id_list
    Tick,     \* the sync ticks in use
    None      \* no entry, no operation, no answer

VARIABLES
    table,    \* key -> the message held under it
    putting,  \* the message of the put in progress
    asking,   \* reader -> the key of its get in progress
    answer,   \* reader -> what its last get returned
    listing   \* reader -> what its last get_id_list returned

vars == <<table, putting, asking, answer, listing>>

Present == {k \in Key : table[k] # None}

Init == /\ table   = [k \in Key |-> None]
        /\ putting = None
        /\ asking  = [r \in Readers |-> None]
        /\ answer  = [r \in Readers |-> None]
        /\ listing = [r \in Readers |-> {}]

PutCall(m) == /\ putting = None
              /\ putting' = m
              /\ UNCHANGED <<table, asking, answer, listing>>

(* The table already holds this payload: it keeps the older message. *)
PutKeep == LET k == U16(putting.frame.id) IN
           /\ putting # None
           /\ table[k] # None
           /\ table[k].hash = putting.hash
           /\ putting' = None
           /\ UNCHANGED <<table, asking, answer, listing>>

PutStore == LET k == U16(putting.frame.id) IN
            /\ putting # None
            /\ table[k] # None => table[k].hash # putting.hash
            /\ table' = [table EXCEPT ![k] = putting]
            /\ putting' = None
            /\ UNCHANGED <<asking, answer, listing>>

GetCall(r, k) == /\ asking[r] = None
                 /\ asking' = [asking EXCEPT ![r] = k]
                 /\ UNCHANGED <<table, putting, answer, listing>>

GetReturn(r) == /\ asking[r] # None
                /\ answer' = [answer EXCEPT ![r] = table[asking[r]]]
                /\ asking' = [asking EXCEPT ![r] = None]
                /\ UNCHANGED <<table, putting, listing>>

GetIdList(r) == /\ asking[r] = None
                /\ listing' = [listing EXCEPT ![r] = Present]
                /\ UNCHANGED <<table, putting, asking, answer>>

Next == \/ \E f \in Frames, t \in Tick :
              PutCall([frame |-> f, sync_tick |-> t, hash |-> Sha256(Payload(f))])
        \/ PutKeep
        \/ PutStore
        \/ \E r \in Readers :
              \/ \E k \in Key : GetCall(r, k)
              \/ GetReturn(r)
              \/ GetIdList(r)

Spec == Init /\ [][Next]_vars
===============================================================================
