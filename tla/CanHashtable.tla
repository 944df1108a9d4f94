----------------------------- MODULE CanHashtable -----------------------------
(***************************************************************************)
(* can_hashtable: the last frame of every CAN id.  The main thread is the  *)
(* only caller of put; the workers of the HTTP server call get and         *)
(* get_id_list.  mutex_get_list is held inside check_key_exists and around *)
(* single accesses to mp, never across an operation: each critical section *)
(* is one step here, and so is the comparison of put, which takes no lock. *)
(***************************************************************************)
EXTENDS CanMessage

CONSTANTS
    Frames,   \* the frames put is called with
    Readers,  \* the HTTP workers
    Tick,     \* the values of frame_sync_counter put is called with
    None      \* no entry, no operation, CAN_MESSAGE.valid = false

ASSUME NoneAssumption == /\ None \notin CAN_MESSAGE
                         /\ None \notin Key
ASSUME InputAssumption == Frames \subseteq CanFrame /\ Tick \subseteq Nat

VARIABLES
    mp,       \* std::map<unsigned short, CAN_MESSAGE>
    put_pc,   \* where the main thread is in put
    put_msg,  \* msg, the local of put
    get_pc,   \* where each reader is in get
    get_key,  \* _id, the parameter of get
    answer,   \* what the reader's last get returned
    listing,  \* what the reader's last get_id_list returned
    last      \* history: the message of the last put of each key that returned

putVars == <<mp, put_pc, put_msg, last>>
getVars == <<get_pc, get_key, answer, listing>>
vars    == <<putVars, getVars>>

Entry == CAN_MESSAGE \cup {None}

Init == /\ mp      = [k \in Key |-> None]
        /\ put_pc  = "idle"
        /\ put_msg = None
        /\ get_pc  = [r \in Readers |-> "idle"]
        /\ get_key = [r \in Readers |-> None]
        /\ answer  = [r \in Readers |-> None]
        /\ listing = [r \in Readers |-> {}]
        /\ last    = [k \in Key |-> None]

(* The key under which the message of the put in progress is filed. *)
PutKey == U16(put_msg.frame.id)

(* The message put builds around a frame; the hash covers len bytes only. *)
NewMessage(f, t) ==
    [frame |-> f, sync_tick |-> t, hash |-> Sha256(Payload(f))]

PutCall(f, t) == /\ put_pc = "idle"
                 /\ put_msg' = NewMessage(f, t)
                 /\ put_pc'  = "check"
                 /\ UNCHANGED <<mp, last, getVars>>

(* Faulty: put relies on the key being there. *)
PutUnchecked == /\ put_pc = "check"
                /\ put_pc' = "compare"
                /\ UNCHANGED <<mp, put_msg, last, getVars>>

(* Faulty: put writes duplicates too. *)
PutAlways == /\ put_pc = "check"
             /\ put_pc' = "write"
             /\ UNCHANGED <<mp, put_msg, last, getVars>>

PutCheck == /\ put_pc = "check"
            /\ put_pc' = IF mp[PutKey] # None THEN "compare" ELSE "write"
            /\ UNCHANGED <<mp, put_msg, last, getVars>>

PutReturn == /\ put_pc'  = "idle"
             /\ put_msg' = None
             /\ last'    = [last EXCEPT ![PutKey] = put_msg]

(* The value-initialised CAN_MESSAGE that operator[] inserts under a missing *)
(* key: a zero frame and an empty hash string.                              *)
EmptyMessage == [frame     |-> [id |-> <<0, 0>>, len |-> 0, data |-> [i \in 1 .. BufLen |-> 0]],
                 sync_tick |-> 0,
                 hash      |-> NoHash]

(* Faulty: the comparison of the hashes is inverted. *)
PutCompareInverted ==
    /\ put_pc = "compare"
    /\ IF mp[PutKey].hash = put_msg.hash
       THEN put_pc' = "write" /\ UNCHANGED <<put_msg, last>>
       ELSE PutReturn
    /\ UNCHANGED <<mp, getVars>>

(* mp[_frame.id].hash != msg.hash, outside the mutex. *)
PutCompare ==
    LET seen == Subscript(mp, PutKey, None, EmptyMessage) IN
    /\ put_pc = "compare"
    /\ mp' = seen
    /\ IF seen[PutKey].hash # put_msg.hash
       THEN put_pc' = "write" /\ UNCHANGED <<put_msg, last>>
       ELSE PutReturn
    /\ UNCHANGED getVars

(* Faulty: a new payload is filed with the tick of the one it replaces. *)
PutWriteOldTick ==
    /\ put_pc = "write"
    /\ mp' = [mp EXCEPT ![PutKey] = IF @ = None THEN put_msg
                                    ELSE [put_msg EXCEPT !.sync_tick = mp[PutKey].sync_tick]]
    /\ PutReturn
    /\ UNCHANGED getVars

PutWrite == /\ put_pc = "write"
            /\ mp' = [mp EXCEPT ![PutKey] = put_msg]
            /\ PutReturn
            /\ UNCHANGED getVars

GetCall(r, k) == /\ get_pc[r] = "idle"
                 /\ get_pc'  = [get_pc EXCEPT ![r] = "check"]
                 /\ get_key' = [get_key EXCEPT ![r] = k]
                 /\ UNCHANGED <<putVars, answer, listing>>

GetReturn(r, m) == /\ get_pc'  = [get_pc EXCEPT ![r] = "idle"]
                   /\ get_key' = [get_key EXCEPT ![r] = None]
                   /\ answer'  = [answer EXCEPT ![r] = m]

(* Faulty: get reads without asking whether the key is there. *)
GetUnchecked(r) ==
    LET seen == Subscript(mp, get_key[r], None, EmptyMessage) IN
    /\ get_pc[r] = "check"
    /\ mp' = seen
    /\ GetReturn(r, seen[get_key[r]])
    /\ UNCHANGED <<put_pc, put_msg, last, listing>>

GetCheck(r) ==
    /\ get_pc[r] = "check"
    /\ IF mp[get_key[r]] # None
       THEN get_pc' = [get_pc EXCEPT ![r] = "read"] /\ UNCHANGED <<get_key, answer>>
       ELSE GetReturn(r, None)
    /\ UNCHANGED <<putVars, listing>>

(* mp[_id] under the mutex, in a critical section of its own. *)
GetRead(r) ==
    LET seen == Subscript(mp, get_key[r], None, EmptyMessage) IN
    /\ get_pc[r] = "read"
    /\ mp' = seen
    /\ GetReturn(r, seen[get_key[r]])
    /\ UNCHANGED <<put_pc, put_msg, last, listing>>

GetIdList(r) == /\ get_pc[r] = "idle"
                /\ listing' = [listing EXCEPT ![r] = {k \in Key : mp[k] # None}]
                /\ UNCHANGED <<putVars, get_pc, get_key, answer>>

Put == \/ \E f \in Frames, t \in Tick : PutCall(f, t)
       \/ PutCheck
       \/ PutCompare
       \/ PutWrite

Get(r) == \/ \E k \in Key : GetCall(r, k)
          \/ GetCheck(r)
          \/ GetRead(r)
          \/ GetIdList(r)

Next == Put \/ \E r \in Readers : Get(r)

Spec == Init /\ [][Next]_vars

-------------------------------------------------------------------------------
(* Types: every entry, pending message and answer is a whole CAN_MESSAGE,   *)
(* never the zero message operator[] would make up.                         *)
TypeOK == /\ mp      \in [Key -> Entry]
          /\ put_pc  \in {"idle", "check", "compare", "write"}
          /\ put_msg \in Entry
          /\ get_pc  \in [Readers -> {"idle", "check", "read"}]
          /\ get_key \in [Readers -> Key \cup {None}]
          /\ answer  \in [Readers -> Entry]
          /\ listing \in [Readers -> SUBSET Key]
          /\ last    \in [Key -> Entry]

(* What check_key_exists found stays true after it has released the mutex,  *)
(* so the later operator[] of put (line 54, no lock) and of get (line 26)   *)
(* never insert into the map: the one is not a data race on the tree and    *)
(* the other never answers a message no put made.                           *)
CheckedKeyStays ==
    /\ put_pc = "compare" => mp[PutKey] # None
    /\ \A r \in Readers : get_pc[r] = "read" => mp[get_key[r]] # None

(* Between puts, what is stored under a key has the payload of the last     *)
(* frame put under it: skipping duplicates by hash (DONT_WRITE_DUPLICATES)  *)
(* never leaves an older payload behind, whatever ids share the key.        *)
PayloadIsLast ==
    put_pc = "idle" =>
        \A k \in Key : /\ (mp[k] = None) = (last[k] = None)
                       /\ mp[k] # None =>
                            Payload(mp[k].frame) = Payload(last[k].frame)

(* The split operations take effect at one instant: the table as promised   *)
(* to its callers.                                                          *)
Promise == INSTANCE LatestFrame
               WITH table <- mp, putting <- put_msg, asking <- get_key
ImplementsPromise == Promise!Spec
===============================================================================
