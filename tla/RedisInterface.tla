---------------------------- MODULE RedisInterface ----------------------------
(***************************************************************************)
(* redis_interface: the main thread files the JSON of every frame in       *)
(* write_map, a thread of its own moves write_map to a Redis hash and      *)
(* announces each field.  The JSON of a field is written as the number of  *)
(* the frame it was made from: the n-th frame of that field is version n,  *)
(* 0 is none.                                                              *)
(***************************************************************************)
EXTENDS Naturals

CONSTANTS
    Fields,     \* redis_field_prefix + id
    MaxStores,  \* bound on the versions of a field
    MaxErrors   \* bound on the errors the Redis client throws

ASSUME BoundsAssumption == MaxStores \in Nat /\ MaxErrors \in Nat

VARIABLES
    main_pc,         \* the main thread in enable_service(true), then its loop
    thread_running,  \* the flag the update thread polls
    thread_pc,       \* where the update thread is
    write_map,       \* field -> the version waiting
    write_map_tmp,   \* field -> the version in the thread's copy
    announced,       \* fields of write_map_tmp already published
    hash,            \* field -> the version in the Redis hash (the server)
    notified,        \* field -> the newest version a subscriber was told of
    stored,          \* history: field -> the newest version given to store_frame
    dropped,         \* history: field -> the newest version an error dropped
    errors           \* number of errors so far

threadVars == <<thread_pc, write_map_tmp, announced, hash, notified, dropped, errors>>
vars == <<main_pc, thread_running, write_map, stored, threadVars>>

Empty == [f \in Fields |-> 0]

Init == /\ main_pc        = "enable"
        /\ thread_running = FALSE
        /\ thread_pc      = "none"
        /\ write_map      = Empty
        /\ write_map_tmp  = Empty
        /\ announced      = {}
        /\ hash           = Empty
        /\ notified       = Empty
        /\ stored         = Empty
        /\ dropped        = Empty
        /\ errors         = 0

(* enable_service(true): the thread exists before thread_running is set. *)
Spawn == /\ main_pc = "enable"
         /\ ~thread_running
         /\ thread_pc' = "start"
         /\ main_pc'   = "spawned"
         /\ UNCHANGED <<thread_running, write_map, stored, write_map_tmp, announced,
                        hash, notified, dropped, errors>>

SetRunning == /\ main_pc = "spawned"
              /\ thread_running' = TRUE
              /\ main_pc' = "loop"
              /\ UNCHANGED <<write_map, stored, threadVars>>

(* store_frame: map::insert leaves an entry that is already there alone. *)
Insert(map, f, v) == IF map[f] # 0 THEN map ELSE [map EXCEPT ![f] = v]

store_frame(f) == /\ main_pc = "loop"
                  /\ stored[f] < MaxStores
                  /\ stored' = [stored EXCEPT ![f] = @ + 1]
                  /\ write_map' = Insert(write_map, f, stored[f] + 1)
                  /\ UNCHANGED <<main_pc, thread_running, threadVars>>

-------------------------------------------------------------------------------
(* The outer while, and the end of the thread. *)
ThreadCheck ==
    /\ thread_pc = "start"
    /\ thread_pc' = IF thread_running THEN "connect" ELSE "exited"
    /\ UNCHANGED <<main_pc, thread_running, write_map, stored, write_map_tmp,
                   announced, hash, notified, dropped, errors>>

Connect == /\ thread_pc = "connect"
           /\ thread_pc' = "take"
           /\ UNCHANGED <<main_pc, thread_running, write_map, stored, write_map_tmp,
                          announced, hash, notified, dropped, errors>>

(* Faulty: an empty copy is written too. *)
TakeAlways == /\ thread_pc = "take"
              /\ thread_running
              /\ write_map_tmp' = write_map
              /\ write_map' = Empty
              /\ announced' = {}
              /\ thread_pc' = "hmset"
              /\ UNCHANGED <<main_pc, thread_running, stored, hash, notified, dropped, errors>>

(* Faulty: the map is cleared before it is copied. *)
ClearThenCopy == /\ thread_pc = "take"
                 /\ thread_running
                 /\ write_map # Empty
                 /\ write_map' = Empty
                 /\ UNCHANGED <<main_pc, thread_running, stored, threadVars>>

(* The inner while: copy and clear under write_lock; nothing to do when the *)
(* copy is empty.                                                           *)
Take == /\ thread_pc = "take"
        /\ thread_running
        /\ write_map # Empty
        /\ write_map_tmp' = write_map
        /\ write_map' = Empty
        /\ announced' = {}
        /\ thread_pc' = "hmset"
        /\ UNCHANGED <<main_pc, thread_running, stored, hash, notified, dropped, errors>>

(* What HMSET leaves on the server. *)
Merged == [f \in Fields |-> IF write_map_tmp[f] # 0 THEN write_map_tmp[f] ELSE hash[f]]

(* Faulty: the hash is replaced, not merged. *)
ReplaceHash == /\ thread_pc = "hmset"
               /\ hash' = write_map_tmp
               /\ thread_pc' = "publish"
               /\ UNCHANGED <<main_pc, thread_running, write_map, stored, write_map_tmp,
                              announced, notified, dropped, errors>>

(* Faulty: the fields are announced although nothing was written. *)
SkipHmset == /\ thread_pc = "hmset"
             /\ thread_pc' = "publish"
             /\ UNCHANGED <<main_pc, thread_running, write_map, stored, write_map_tmp,
                            announced, hash, notified, dropped, errors>>

Hmset == /\ thread_pc = "hmset"
         /\ hash' = Merged
         /\ thread_pc' = "publish"
         /\ UNCHANGED <<main_pc, thread_running, write_map, stored, write_map_tmp,
                        announced, notified, dropped, errors>>

Unannounced == {f \in Fields : write_map_tmp[f] # 0} \ announced

Publish(f) == /\ thread_pc = "publish"
              /\ f \in Unannounced
              /\ announced' = announced \cup {f}
              /\ notified'  = [notified EXCEPT ![f] = write_map_tmp[f]]
              /\ UNCHANGED <<main_pc, thread_running, write_map, stored, thread_pc,
                             write_map_tmp, hash, dropped, errors>>

BatchDone == /\ thread_pc = "publish"
             /\ Unannounced = {}
             /\ write_map_tmp' = Empty
             /\ announced' = {}
             /\ thread_pc' = "take"
             /\ UNCHANGED <<main_pc, thread_running, write_map, stored, hash, notified,
                            dropped, errors>>

(* A sw::redis::Error from the constructor, HMSET or PUBLISH unwinds to the *)
(* catch: the copy is destroyed, the connection made anew.  A command that  *)
(* timed out may have reached the server all the same; the server is taken  *)
(* to serve it before it serves the next connection.                        *)
RedisError ==
    /\ thread_pc \in {"connect", "hmset", "publish"}
    /\ errors < MaxErrors
    /\ errors' = errors + 1
    /\ hash' \in IF thread_pc = "hmset" THEN {hash, Merged} ELSE {hash}
    /\ dropped' = [f \in Fields |-> IF write_map_tmp[f] > hash'[f]
                                    THEN write_map_tmp[f] ELSE dropped[f]]
    /\ write_map_tmp' = Empty
    /\ announced' = {}
    /\ thread_pc' = "start"
    /\ UNCHANGED <<main_pc, thread_running, write_map, stored, notified>>

UpdateThread == \/ ThreadCheck
                \/ Connect
                \/ Take
                \/ Hmset
                \/ \E f \in Fields : Publish(f)
                \/ BatchDone
                \/ RedisError

EnableService == Spawn \/ SetRunning

Next == EnableService \/ (\E f \in Fields : store_frame(f)) \/ UpdateThread

(* Both threads run whenever they can; nothing obliges a frame to arrive.  *)
Fairness == WF_vars(EnableService) /\ WF_vars(UpdateThread)

Spec == Init /\ [][Next]_vars /\ Fairness

-------------------------------------------------------------------------------
(* Types, and that the thread holds a copy exactly while it writes one. *)
TypeOK == /\ main_pc \in {"enable", "spawned", "loop"}
          /\ thread_running \in BOOLEAN
          /\ thread_pc \in {"none", "start", "connect", "take", "hmset", "publish",
                            "exited"}
          /\ write_map     \in [Fields -> Nat]
          /\ write_map_tmp \in [Fields -> Nat]
          /\ announced     \in SUBSET Fields
          /\ hash          \in [Fields -> Nat]
          /\ notified      \in [Fields -> Nat]
          /\ stored        \in [Fields -> Nat]
          /\ dropped       \in [Fields -> Nat]
          /\ errors        \in Nat
          /\ thread_pc \in {"hmset", "publish"} <=> write_map_tmp # Empty

(* A subscriber that is told of a field finds in the hash what it was told  *)
(* of, or something newer: PUBLISH follows HMSET, also across errors and    *)
(* reconnections.                                                           *)
NotifiedIsReadable == \A f \in Fields : notified[f] <= hash[f]

(* A reader of the Redis hash never sees a field go back to an older frame, *)
(* whatever batch was dropped or half announced before.                     *)
HashNeverGoesBack == [][\A f \in Fields : hash'[f] >= hash[f]]_vars

(* A version in write_map reaches the hash, unless a Redis error dropped it *)
(* or the update thread left for good when it was started.                  *)
WaitingIsWritten ==
    \A f \in Fields, v \in 1 .. MaxStores :
        (write_map[f] = v) ~> \/ hash[f] >= v
                              \/ dropped[f] >= v
                              \/ thread_pc = "exited"

(* can2rest.cpp: "STORE MESSAGE TO REDIS", of the message handed to         *)
(* store_frame, when the thread runs and Redis gives no error.              *)
StoredReachesRedis ==
    \A f \in Fields, v \in 1 .. MaxStores :
        (stored[f] = v) ~> (hash[f] >= v \/ thread_pc = "exited")
===============================================================================
