------------------------- MODULE RedisInterfaceProofs -------------------------
(***************************************************************************)
(* For any number of fields, stores and errors: the Redis hash never goes  *)
(* back to an older frame, and a subscriber is only told of what the hash  *)
(* already holds.                                                          *)
(***************************************************************************)
EXTENDS RedisInterface, TLAPS

(* The versions of a field grow along its way: hash, copy, map, store_frame; *)
(* 0 in the copy or in the map says the field is not there.                  *)
InOrder(f) ==
    /\ notified[f] <= hash[f]
    /\ hash[f] <= stored[f]
    /\ write_map[f] <= stored[f]
    /\ write_map_tmp[f] <= stored[f]
    /\ write_map_tmp[f] # 0 => hash[f] <= write_map_tmp[f]
    /\ write_map[f] # 0 => hash[f] <= write_map[f] /\ write_map_tmp[f] <= write_map[f]

(* Between HMSET and the end of the batch the hash holds the copy. *)
CopyIsInHash ==
    thread_pc = "publish" =>
        \A f \in Fields : write_map_tmp[f] # 0 => hash[f] = write_map_tmp[f]

(* The update thread does not run before it is spawned. *)
NotBeforeSpawn == main_pc = "enable" => thread_pc = "none"

IInv == /\ TypeOK
        /\ \A f \in Fields : InOrder(f)
        /\ CopyIsInHash
        /\ NotBeforeSpawn

-------------------------------------------------------------------------------
(* Nothing is stored at first.                                              *)
LEMMA InitEstablishes == Init => IInv
  <1> SUFFICES ASSUME Init PROVE IInv
    OBVIOUS
  <1>1. Empty \in [Fields -> Nat] /\ \A f \in Fields : Empty[f] = 0
    BY DEF Empty
  <1>2. TypeOK
    BY <1>1 DEF Init, TypeOK
  <1>3. CopyIsInHash /\ NotBeforeSpawn /\ \A f \in Fields : InOrder(f)
    BY <1>1 DEF Init, InOrder, CopyIsInHash, NotBeforeSpawn
  <1> QED BY <1>2, <1>3 DEF IInv

(* HMSET moves every field of the hash forward or leaves it.                *)
LEMMA MergedIsNewer ==
    ASSUME IInv
    PROVE  /\ Merged \in [Fields -> Nat]
           /\ \A f \in Fields : /\ Merged[f] >= hash[f]
                                /\ Merged[f] <= stored[f]
                                /\ write_map_tmp[f] # 0 => Merged[f] = write_map_tmp[f]
                                /\ write_map[f] # 0 => Merged[f] <= write_map[f]
  BY DEF IInv, TypeOK, InOrder, Merged

(* Every step of either thread preserves the order of the versions.         *)
LEMMA StepPreserves == IInv /\ [Next]_vars => IInv'
  <1> SUFFICES ASSUME IInv, [Next]_vars PROVE IInv'
    OBVIOUS
  <1> USE DEF IInv, NotBeforeSpawn
  <1>1. CASE Spawn
    BY <1>1 DEF Spawn, TypeOK, InOrder, CopyIsInHash
  <1>2. CASE SetRunning
    BY <1>2 DEF SetRunning, threadVars, TypeOK, InOrder, CopyIsInHash
  <1>3. ASSUME NEW f \in Fields, store_frame(f) PROVE IInv'
    <2>1. TypeOK'
      BY <1>3 DEF store_frame, Insert, threadVars, TypeOK
    <2>2. \A g \in Fields : InOrder(g)'
      BY <1>3 DEF store_frame, Insert, threadVars, TypeOK, InOrder
    <2>3. CopyIsInHash' /\ NotBeforeSpawn'
      BY <1>3 DEF store_frame, threadVars, CopyIsInHash
    <2> QED BY <2>1, <2>2, <2>3
  <1>4. CASE ThreadCheck
    BY <1>4 DEF ThreadCheck, TypeOK, InOrder, CopyIsInHash
  <1>5. CASE Connect
    BY <1>5 DEF Connect, TypeOK, InOrder, CopyIsInHash
  <1>6. CASE Take
    BY <1>6 DEF Take, Empty, TypeOK, InOrder, CopyIsInHash
  <1>7. CASE Hmset
    BY <1>7, MergedIsNewer DEF Hmset, TypeOK, InOrder, CopyIsInHash
  <1>8. ASSUME NEW f \in Fields, Publish(f) PROVE IInv'
    <2>1. write_map_tmp[f] # 0 /\ hash[f] = write_map_tmp[f]
      BY <1>8 DEF Publish, Unannounced, CopyIsInHash
    <2>2. TypeOK' /\ CopyIsInHash' /\ NotBeforeSpawn'
      BY <1>8 DEF Publish, TypeOK, CopyIsInHash
    <2>3. \A g \in Fields : InOrder(g)'
      BY <1>8, <2>1 DEF Publish, TypeOK, InOrder
    <2> QED BY <2>2, <2>3
  <1>9. CASE BatchDone
    BY <1>9 DEF BatchDone, Empty, TypeOK, InOrder, CopyIsInHash
  <1>10. CASE RedisError
    <2>1. hash' = hash \/ hash' = Merged
      BY <1>10 DEF RedisError
    <2>2. TypeOK' /\ CopyIsInHash' /\ NotBeforeSpawn'
      BY <1>10, <2>1, MergedIsNewer DEF RedisError, Empty, TypeOK, CopyIsInHash
    <2>3. \A g \in Fields : InOrder(g)'
      BY <1>10, <2>1, MergedIsNewer DEF RedisError, Empty, TypeOK, InOrder
    <2> QED BY <2>2, <2>3
  <1>11. CASE UNCHANGED vars
    BY <1>11 DEF vars, threadVars, TypeOK, InOrder, CopyIsInHash
  <1> QED
    BY <1>1, <1>2, <1>3, <1>4, <1>5, <1>6, <1>7, <1>8, <1>9, <1>10, <1>11
       DEF Next, EnableService, UpdateThread

(* The order of the versions holds in every reachable state.                *)
THEOREM Invariance == Spec => []IInv
  BY InitEstablishes, StepPreserves, PTL DEF Spec

(* The update thread holds a copy exactly while it writes and announces     *)
(* one, across errors and reconnections.                                    *)
THEOREM TypeCorrect == Spec => []TypeOK
  BY Invariance, PTL DEF IInv

(* A notification never runs ahead of the hash.                             *)
THEOREM NotificationsAreReadable == Spec => []NotifiedIsReadable
  <1>1. IInv => NotifiedIsReadable
    BY DEF IInv, InOrder, NotifiedIsReadable
  <1> QED BY <1>1, Invariance, PTL

(* No step of either thread, error or not, takes the hash back to an older  *)
(* frame.                                                                   *)
THEOREM HashMovesForward == Spec => HashNeverGoesBack
  <1>1. IInv /\ [Next]_vars => [\A f \in Fields : hash'[f] >= hash[f]]_vars
    <2> SUFFICES ASSUME IInv, [Next]_vars, NEW f \in Fields PROVE hash'[f] >= hash[f]
      OBVIOUS
    <2>1. hash[f] \in Nat
      BY DEF IInv, TypeOK
    <2>2. CASE Hmset \/ RedisError
      <3>1. hash' = hash \/ hash' = Merged
        BY <2>2 DEF Hmset, RedisError
      <3> QED BY <2>1, <3>1, MergedIsNewer
    <2>3. CASE ~(Hmset \/ RedisError)
      <3>1. hash' = hash
        BY <2>3 DEF Next, EnableService, UpdateThread, Spawn, SetRunning, store_frame,
                    ThreadCheck, Connect, Take, Publish, BatchDone, vars, threadVars
      <3> QED BY <2>1, <3>1
    <2> QED BY <2>2, <2>3
  <1> QED BY <1>1, Invariance, PTL DEF Spec, HashNeverGoesBack
===============================================================================
