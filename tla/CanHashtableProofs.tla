-------------------------- MODULE CanHashtableProofs --------------------------
(***************************************************************************)
(* For every set of ids, frames, ticks and readers: the table is well      *)
(* typed, its check-then-access operations are safe with one writer,       *)
(* skipping duplicates never keeps an older payload, and the whole         *)
(* implements LatestFrame.                                                 *)
(***************************************************************************)
EXTENDS CanHashtable, TLAPS

(* A program counter and the local it guards move together. *)
LocalsFollowPc ==
    /\ put_pc = "idle" <=> put_msg = None
    /\ \A r \in Readers : get_pc[r] = "idle" <=> get_key[r] = None

(* put decided to store: there is nothing under the key, or another hash. *)
WriteIsNews ==
    put_pc = "write" => (mp[PutKey] # None => mp[PutKey].hash # put_msg.hash)

(* A message carries the digest of its own payload. *)
Honest(m) == m # None => m.hash = Sha256(Payload(m.frame))

HashesAreHonest == /\ Honest(put_msg)
                   /\ \A k \in Key : Honest(mp[k]) /\ Honest(last[k])

(* What is stored and what was put last agree in presence and in hash. *)
StoredMatchesLast ==
    \A k \in Key : /\ (mp[k] = None) = (last[k] = None)
                   /\ mp[k] # None => mp[k].hash = last[k].hash

IInv == /\ TypeOK
        /\ CheckedKeyStays
        /\ LocalsFollowPc
        /\ WriteIsNews
        /\ HashesAreHonest
        /\ StoredMatchesLast

-------------------------------------------------------------------------------
(* put builds a CAN_MESSAGE out of any frame and tick it is given.          *)
LEMMA NewMessageType ==
    ASSUME NEW f \in Frames, NEW t \in Tick
    PROVE  /\ NewMessage(f, t) \in CAN_MESSAGE
           /\ Honest(NewMessage(f, t))
           /\ NewMessage(f, t) # None
  <1>1. f \in CanFrame /\ t \in Nat
    BY InputAssumption
  <1>2. Sha256(Payload(f)) \in Hash
    BY <1>1 DEF Hash
  <1>3. NewMessage(f, t) \in CAN_MESSAGE
    BY <1>1, <1>2 DEF NewMessage, CAN_MESSAGE
  <1> QED
    BY <1>3, NoneAssumption DEF NewMessage, Honest

(* The key of a message is a key of the map.                                *)
LEMMA KeyOfMessage ==
    ASSUME NEW m \in CAN_MESSAGE
    PROVE  U16(m.frame.id) \in Key
  BY DEF CAN_MESSAGE, CanFrame, Key

(* The digest of a payload determines it: collisions are left out.          *)
LEMMA Sha256Injective ==
    ASSUME NEW p, NEW q, Sha256(p) = Sha256(q)
    PROVE  p = q
  BY DEF Sha256

(* The empty table satisfies the invariant.                                 *)
LEMMA InitEstablishes == Init => IInv
  BY DEF Init, IInv, TypeOK, Entry, CheckedKeyStays, LocalsFollowPc, WriteIsNews,
         HashesAreHonest, Honest, StoredMatchesLast

(* The message of the put in progress is a message and its key is a key. *)
LEMMA PutInProgress ==
    ASSUME IInv, put_pc # "idle"
    PROVE  put_msg \in CAN_MESSAGE /\ put_msg # None /\ PutKey \in Key
  BY KeyOfMessage, NoneAssumption DEF IInv, TypeOK, Entry, LocalsFollowPc, PutKey

(* Every step of the writer and of the readers preserves the invariant.     *)
LEMMA StepPreserves == IInv /\ [Next]_vars => IInv'
  <1> SUFFICES ASSUME IInv, [Next]_vars PROVE IInv'
    OBVIOUS
  <1> USE DEF IInv
  <1>1. ASSUME NEW f \in Frames, NEW t \in Tick, PutCall(f, t) PROVE IInv'
    <2>1. /\ put_msg' \in CAN_MESSAGE /\ Honest(put_msg)' /\ put_msg' # None
      BY <1>1, NewMessageType DEF PutCall, Honest
    <2>2. TypeOK' /\ CheckedKeyStays' /\ LocalsFollowPc' /\ WriteIsNews'
      BY <1>1, <2>1 DEF PutCall, getVars, TypeOK, Entry, CheckedKeyStays,
                        LocalsFollowPc, WriteIsNews
    <2>3. HashesAreHonest' /\ StoredMatchesLast'
      BY <1>1, <2>1 DEF PutCall, HashesAreHonest, Honest, StoredMatchesLast
    <2> QED BY <2>2, <2>3
  <1>2. CASE PutCheck
    <2>1. TypeOK' /\ CheckedKeyStays' /\ LocalsFollowPc' /\ WriteIsNews'
      BY <1>2 DEF PutCheck, getVars, PutKey, TypeOK, CheckedKeyStays,
                  LocalsFollowPc, WriteIsNews
    <2>2. HashesAreHonest' /\ StoredMatchesLast'
      BY <1>2 DEF PutCheck, HashesAreHonest, Honest, StoredMatchesLast
    <2> QED BY <2>1, <2>2
  <1>3. CASE PutCompare
    <2>1. put_msg \in CAN_MESSAGE /\ put_msg # None /\ PutKey \in Key
      BY <1>3, PutInProgress DEF PutCompare
    <2>2. mp[PutKey] # None /\ mp' = mp
      BY <1>3 DEF PutCompare, CheckedKeyStays, Subscript
    <2>3. CASE mp[PutKey].hash # put_msg.hash
      <3>1. put_pc' = "write" /\ UNCHANGED <<mp, put_msg, last, getVars>>
        BY <1>3, <2>2, <2>3 DEF PutCompare, Subscript
      <3> QED BY <2>2, <2>3, <3>1, <1>3 DEF PutCompare, getVars, PutKey, TypeOK,
                 CheckedKeyStays, LocalsFollowPc, WriteIsNews, HashesAreHonest,
                 Honest, StoredMatchesLast
    <2>4. CASE mp[PutKey].hash = put_msg.hash
      <3>1. PutReturn /\ UNCHANGED getVars
        BY <1>3, <2>2, <2>4 DEF PutCompare, Subscript
      <3>2. last' = [last EXCEPT ![PutKey] = put_msg]
        BY <3>1 DEF PutReturn
      <3>3. TypeOK' /\ CheckedKeyStays' /\ LocalsFollowPc' /\ WriteIsNews'
        BY <2>1, <2>2, <3>1 DEF PutReturn, getVars, TypeOK, Entry, CheckedKeyStays,
                                LocalsFollowPc, WriteIsNews
      <3>4. HashesAreHonest'
        BY <2>1, <2>2, <3>1, <3>2 DEF PutReturn, TypeOK, HashesAreHonest, Honest
      <3>5. StoredMatchesLast'
        BY <2>1, <2>2, <2>4, <3>2 DEF TypeOK, StoredMatchesLast
      <3> QED BY <3>3, <3>4, <3>5
    <2> QED BY <2>3, <2>4
  <1>4. CASE PutWrite
    <2>1. put_msg \in CAN_MESSAGE /\ put_msg # None /\ PutKey \in Key
      BY <1>4, PutInProgress DEF PutWrite
    <2>2. /\ mp'   = [mp EXCEPT ![PutKey] = put_msg]
          /\ last' = [last EXCEPT ![PutKey] = put_msg]
          /\ put_pc' = "idle" /\ put_msg' = None /\ UNCHANGED getVars
      BY <1>4 DEF PutWrite, PutReturn
    <2>3. TypeOK' /\ LocalsFollowPc' /\ WriteIsNews'
      BY <2>1, <2>2 DEF getVars, TypeOK, Entry, LocalsFollowPc, WriteIsNews
    <2>4. CheckedKeyStays'
      BY <2>1, <2>2 DEF getVars, TypeOK, CheckedKeyStays
    <2>5. HashesAreHonest' /\ StoredMatchesLast'
      BY <2>1, <2>2 DEF TypeOK, HashesAreHonest, Honest, StoredMatchesLast
    <2> QED BY <2>3, <2>4, <2>5
  <1>5. ASSUME NEW r \in Readers, NEW k \in Key, GetCall(r, k) PROVE IInv'
    <2>1. TypeOK' /\ CheckedKeyStays' /\ LocalsFollowPc' /\ WriteIsNews'
      BY <1>5, NoneAssumption DEF GetCall, putVars, PutKey, TypeOK, CheckedKeyStays,
                                  LocalsFollowPc, WriteIsNews
    <2>2. HashesAreHonest' /\ StoredMatchesLast'
      BY <1>5 DEF GetCall, putVars, HashesAreHonest, Honest, StoredMatchesLast
    <2> QED BY <2>1, <2>2
  <1>6. ASSUME NEW r \in Readers, GetCheck(r) PROVE IInv'
    <2>1. TypeOK'
      BY <1>6 DEF GetCheck, GetReturn, putVars, TypeOK, Entry
    <2>2. CheckedKeyStays' /\ LocalsFollowPc' /\ WriteIsNews'
      BY <1>6 DEF GetCheck, GetReturn, putVars, PutKey, TypeOK, CheckedKeyStays,
                  LocalsFollowPc, WriteIsNews
    <2>3. HashesAreHonest' /\ StoredMatchesLast'
      BY <1>6 DEF GetCheck, putVars, HashesAreHonest, Honest, StoredMatchesLast
    <2> QED BY <2>1, <2>2, <2>3
  <1>7. ASSUME NEW r \in Readers, GetRead(r) PROVE IInv'
    <2>1. mp[get_key[r]] # None /\ mp' = mp /\ GetReturn(r, mp[get_key[r]])
      BY <1>7 DEF GetRead, CheckedKeyStays, Subscript
    <2>2. get_key[r] \in Key
      BY <1>7 DEF GetRead, LocalsFollowPc, TypeOK
    <2>3. TypeOK'
      BY <1>7, <2>1, <2>2 DEF GetRead, GetReturn, TypeOK, Entry
    <2>4. CheckedKeyStays' /\ LocalsFollowPc' /\ WriteIsNews'
      BY <1>7, <2>1 DEF GetRead, GetReturn, PutKey, TypeOK, CheckedKeyStays,
                        LocalsFollowPc, WriteIsNews
    <2>5. HashesAreHonest' /\ StoredMatchesLast'
      BY <1>7, <2>1 DEF GetRead, HashesAreHonest, Honest, StoredMatchesLast
    <2> QED BY <2>3, <2>4, <2>5
  <1>8. ASSUME NEW r \in Readers, GetIdList(r) PROVE IInv'
    BY <1>8 DEF GetIdList, putVars, PutKey, TypeOK, CheckedKeyStays, LocalsFollowPc,
                WriteIsNews, HashesAreHonest, Honest, StoredMatchesLast
  <1>9. CASE UNCHANGED vars
    BY <1>9 DEF vars, putVars, getVars, PutKey, TypeOK, CheckedKeyStays,
                LocalsFollowPc, WriteIsNews, HashesAreHonest, Honest,
                StoredMatchesLast
  <1> QED
    BY <1>1, <1>2, <1>3, <1>4, <1>5, <1>6, <1>7, <1>8, <1>9 DEF Next, Put, Get

(* The invariant holds in every reachable state.                            *)
THEOREM Invariance == Spec => []IInv
  BY InitEstablishes, StepPreserves, PTL DEF Spec

(* The table never holds, and no reader is ever given, anything but a       *)
(* message that put built.                                                  *)
THEOREM TypeCorrect == Spec => []TypeOK
  BY Invariance, PTL DEF IInv

(* The unlocked operator[] of put and the second critical section of get    *)
(* always find the key that check_key_exists saw.                           *)
THEOREM CheckedKeysStay == Spec => []CheckedKeyStays
  BY Invariance, PTL DEF IInv

(* Skipping duplicates by hash never leaves an older payload in the table.  *)
THEOREM LatestPayload == Spec => []PayloadIsLast
  <1>1. IInv => PayloadIsLast
    <2> SUFFICES ASSUME IInv, NEW k \in Key
                 PROVE  /\ (mp[k] = None) = (last[k] = None)
                        /\ mp[k] # None =>
                             Payload(mp[k].frame) = Payload(last[k].frame)
      BY DEF PayloadIsLast
    <2>1. /\ (mp[k] = None) = (last[k] = None)
          /\ mp[k] # None => mp[k].hash = last[k].hash
      BY DEF IInv, StoredMatchesLast
    <2>2. ASSUME mp[k] # None
          PROVE  Sha256(Payload(mp[k].frame)) = Sha256(Payload(last[k].frame))
      BY <2>1, <2>2 DEF IInv, HashesAreHonest, Honest
    <2> QED BY <2>1, <2>2, Sha256Injective
  <1> QED BY <1>1, Invariance, PTL

-------------------------------------------------------------------------------
(* The promise speaks of the same keys and digests.                         *)
LEMMA SameValues ==
    /\ Promise!Key = Key
    /\ \A id : Promise!U16(id) = U16(id)
    /\ \A f : Promise!Sha256(Promise!Payload(f)) = Sha256(Payload(f))
  BY DEF Promise!Key, Key, Promise!U16, U16, Promise!Sha256, Sha256,
         Promise!Payload, Payload

(* The empty table is the promised one.                                     *)
LEMMA InitRefines == Init => Promise!Init
  BY SameValues DEF Init, Promise!Init

(* Every step of the code is one step of the promise or invisible to it.    *)
LEMMA StepRefines == IInv /\ [Next]_vars => [Promise!Next]_(Promise!vars)
  <1> SUFFICES ASSUME IInv, [Next]_vars PROVE [Promise!Next]_(Promise!vars)
    OBVIOUS
  <1> USE DEF Promise!vars
  <1>1. ASSUME NEW f \in Frames, NEW t \in Tick, PutCall(f, t) PROVE Promise!Next
    <2>1. Promise!PutCall(NewMessage(f, t))
      BY <1>1 DEF PutCall, getVars, Promise!PutCall, IInv, LocalsFollowPc
    <2> QED BY <2>1, SameValues DEF NewMessage, Promise!Next
  <1>2. CASE PutCheck
    BY <1>2 DEF PutCheck, getVars
  <1>3. CASE PutCompare
    <2>1. put_msg # None /\ mp[PutKey] # None /\ mp' = mp
      BY <1>3, PutInProgress DEF PutCompare, IInv, CheckedKeyStays, Subscript
    <2>2. CASE mp[PutKey].hash # put_msg.hash
      BY <1>3, <2>1, <2>2 DEF PutCompare, getVars, Subscript
    <2>3. CASE mp[PutKey].hash = put_msg.hash
      <3>1. put_msg' = None /\ UNCHANGED getVars
        BY <1>3, <2>1, <2>3 DEF PutCompare, PutReturn, Subscript
      <3>2. Promise!PutKeep
        BY <2>1, <2>3, <3>1, SameValues DEF Promise!PutKeep, PutKey, getVars
      <3> QED BY <3>2 DEF Promise!Next
    <2> QED BY <2>2, <2>3
  <1>4. CASE PutWrite
    <2>1. Promise!PutStore
      BY <1>4, PutInProgress, SameValues
         DEF PutWrite, PutReturn, PutKey, getVars, Promise!PutStore, IInv, WriteIsNews
    <2> QED BY <2>1 DEF Promise!Next
  <1>5. ASSUME NEW r \in Readers, NEW k \in Key, GetCall(r, k) PROVE Promise!Next
    <2>1. Promise!GetCall(r, k)
      BY <1>5 DEF GetCall, putVars, Promise!GetCall, IInv, LocalsFollowPc
    <2> QED BY <2>1, SameValues DEF Promise!Next
  <1>6. ASSUME NEW r \in Readers, GetCheck(r)
        PROVE  Promise!Next \/ UNCHANGED Promise!vars
    <2>1. get_key[r] # None
      BY <1>6 DEF GetCheck, IInv, LocalsFollowPc
    <2>2. CASE mp[get_key[r]] # None
      BY <1>6, <2>2 DEF GetCheck, putVars
    <2>3. CASE mp[get_key[r]] = None
      <3>1. Promise!GetReturn(r)
        BY <1>6, <2>1, <2>3 DEF GetCheck, GetReturn, putVars, Promise!GetReturn
      <3> QED BY <3>1 DEF Promise!Next
    <2> QED BY <2>2, <2>3
  <1>7. ASSUME NEW r \in Readers, GetRead(r) PROVE Promise!Next
    <2>1. mp[get_key[r]] # None /\ mp' = mp /\ get_key[r] # None
      BY <1>7 DEF GetRead, Subscript, IInv, CheckedKeyStays, LocalsFollowPc
    <2>2. Promise!GetReturn(r)
      BY <1>7, <2>1 DEF GetRead, GetReturn, Subscript, Promise!GetReturn
    <2> QED BY <2>2 DEF Promise!Next
  <1>8. ASSUME NEW r \in Readers, GetIdList(r) PROVE Promise!Next
    <2>1. Promise!GetIdList(r)
      BY <1>8, SameValues DEF GetIdList, putVars, Promise!GetIdList, Promise!Present, IInv,
                  LocalsFollowPc
    <2> QED BY <2>1 DEF Promise!Next
  <1>9. CASE UNCHANGED vars
    BY <1>9 DEF vars, putVars, getVars
  <1> QED
    BY <1>1, <1>2, <1>3, <1>4, <1>5, <1>6, <1>7, <1>8, <1>9 DEF Next, Put, Get

(* can_hashtable implements the atomic table LatestFrame promises, with any *)
(* number of readers between the critical sections of put and of get.       *)
THEOREM Implementation == Spec => ImplementsPromise
  BY InitRefines, StepRefines, Invariance, PTL
     DEF Spec, ImplementsPromise, Promise!Spec
===============================================================================
