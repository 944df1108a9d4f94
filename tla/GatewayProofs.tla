----------------------------- MODULE GatewayProofs -----------------------------
(***************************************************************************)
(* For any ids, frames on the bus, calls of POST /send, filter,            *)
(* configuration, workers and readers: the gateway is well typed, sync     *)
(* ticks order the frames received, no read goes back, every answer is a   *)
(* frame that was received or sent with the digest of its payload, and an  *)
(* id that only clients send is shown with a type from its first frame on. *)
(***************************************************************************)
EXTENDS Gateway, SequenceTheorems, TLAPS

Entry    == CAN_MESSAGE \cup {None}
SendType == {"INT", "BOOL", "STR", "BYTE"}
Queued   == [frame : CanFrame, hash : Hash, type : SendType]

(* The message put builds, and the key a message is filed under. *)
Message(f, t) == [frame |-> f, sync_tick |-> t, hash |-> Sha256(Payload(f))]
KeyOf(m)      == U16(m.frame.id)

(* can_hashtable: types, locals that follow the program counters, keys that *)
(* stay once check_key_exists saw them, and messages under their own key.   *)
TableInv ==
    /\ mp      \in [Key -> Entry] /\ last \in [Key -> Entry]
    /\ put_pc  \in {"idle", "check", "compare", "write"}
    /\ put_msg \in Entry
    /\ get_pc  \in [Readers -> {"idle", "check", "read"}]
    /\ get_key \in [Readers -> Key \cup {None}]
    /\ answer  \in [Readers -> Entry]
    /\ listing \in [Readers -> SUBSET Key]
    /\ put_pc = "idle" <=> put_msg = None
    /\ put_pc = "compare" => mp[KeyOf(put_msg)] # None
    /\ \A r \in Readers : /\ get_pc[r] = "idle" <=> get_key[r] = None
                          /\ get_pc[r] = "read" => mp[get_key[r]] # None
    /\ \A k \in Key : mp[k] # None => KeyOf(mp[k]) = k

(* frame_send_queue: types, and a queue found non-empty stays so. *)
QueueInv ==
    /\ message_queue \in Seq(Queued)
    /\ send_pc    \in [Workers -> {"idle", "hashing", "push"}]
    /\ send_msg   \in [Workers -> Queued \cup {None}]
    /\ overlapped \in SUBSET Workers
    /\ deq_pc     \in {"poll", "dequeue", "pop"}
    /\ accepted   \in Seq(Queued)
    /\ taken      \in Seq(Queued)
    /\ \A w \in Workers : send_pc[w] # "idle" => send_msg[w] \in Queued
    /\ deq_pc \in {"dequeue", "pop"} => message_queue # <<>>

(* can_frame_to_json: types, and what was converted is a document. *)
ConvInv ==
    /\ type_register \in [Key -> CONVERSATION_TYPE \cup {None}]
    /\ reg_pc   \in {"idle", "register"}
    /\ reg_send \in (Key \X SendType) \cup {None}
    /\ reg_pc = "register" <=> reg_send # None
    /\ shown    \in SUBSET Key
    /\ sent     \in [Key -> CONVERSATION_TYPE \cup {None}]
    /\ DOMAIN json = Readers \cup {MainThread}
    /\ \A c \in Readers \cup {MainThread} : json[c] # None => Conv!IsDocument(json[c])

(* The two branches of the loop, and what main holds in each. *)
Receiving == {"got_put", "got_store"}
Sending   == {"write", "send_check", "send_register", "send_put", "send_store"}

(* The main loop is inside a component where its own control says so, with  *)
(* the frame it read or the message it took; a worker converts only what    *)
(* get returned.                                                            *)
MainInv ==
    /\ main_pc \in {"read", "poll", "dequeue"} \cup Receiving \cup Sending
    /\ fr \in CanFrame \cup NoFrame
    /\ frame_sync_counter \in Nat
    /\ received \in Seq(CAN_MESSAGE)
    /\ put_pc # "idle" => main_pc \in {"got_put", "send_put"}
    /\ deq_pc # "poll" <=> main_pc = "dequeue"
    /\ reg_pc = "register" <=> main_pc = "send_register"
    /\ main_pc \in Receiving => fr \in CanFrame
    /\ main_pc = "got_put" => put_msg = Message(fr, frame_sync_counter)
    /\ main_pc \in Sending => taken # <<>>
    /\ main_pc = "send_register" => reg_send = <<KeyOf(msg), msg.type>>
    /\ main_pc = "send_put" /\ put_msg # None => put_msg = Message(msg.frame, frame_sync_counter)

ReaderInv ==
    /\ rest_pc \in [Readers -> {"idle", "get", "convert"}]
    /\ \A r \in Readers : /\ rest_pc[r] = "get" <=> get_pc[r] # "idle"
                          /\ rest_pc[r] = "convert" => answer[r] # None

(* No tick is ahead of the counter; only the frame being filed has its      *)
(* value.                                                                   *)
TickInv ==
    /\ \A i \in DOMAIN received : \A j \in 1 .. i - 1 :
           received[j].sync_tick < received[i].sync_tick
    /\ main_pc \in Receiving =>
           received # <<>> /\ received[Len(received)] = Message(fr, frame_sync_counter)
    /\ \A i \in DOMAIN received :
           \/ received[i].sync_tick < frame_sync_counter
           \/ main_pc \in Receiving /\ i = Len(received)
    /\ \A k \in Key : mp[k] # None => mp[k].sync_tick <= frame_sync_counter

(* A message has the digest of its payload, and was received or sent. *)
Known(m) == \/ \E i \in DOMAIN received : received[i] = m
            \/ \E i \in DOMAIN taken : taken[i].frame = m.frame

Genuine(m) == m # None => m.hash = Sha256(Payload(m.frame)) /\ Known(m)

OriginInv ==
    /\ Genuine(put_msg)
    /\ \A k \in Key : Genuine(mp[k])
    /\ \A r \in Readers : Genuine(answer[r])

(* Some frame of key k passed the filter. *)
WasReceived(k) == \E i \in DOMAIN received : KeyOf(received[i]) = k

(* Key k is in the register, or main is about to convert its first frame. *)
Entered(k) == type_register[k] # None \/ (main_pc \in Receiving /\ U16(fr.id) = k)

(* What is filed or was answered is in the register, so that auto           *)
(* registration never finds it missing; only a frame from the bus is        *)
(* converted without a type.                                                *)
TypedInv ==
    /\ \A k \in Key : /\ type_register[k] = "NONE" => WasReceived(k)
                      /\ type_register[k] = "RAW" => Conv!Configured[k] = "RAW"
                      /\ mp[k] # None => Entered(k)
    /\ \A r \in Readers : answer[r] # None => Entered(KeyOf(answer[r]))
    /\ main_pc \in {"send_put", "send_store"} => type_register[KeyOf(msg)] # None
    /\ main_pc = "send_register" => type_register[KeyOf(msg)] = None

(* A frame that was put is in the table, itself or with its payload. *)
FiledInv ==
    /\ \A i \in DOMAIN received :
           \/ main_pc = "got_put" /\ i = Len(received)
           \/ LET k == KeyOf(received[i]) IN
              /\ mp[k] # None
              /\ received[i].sync_tick > mp[k].sync_tick => received[i].hash = mp[k].hash
    /\ main_pc = "got_store" => /\ mp[U16(fr.id)] # None
                                /\ mp[U16(fr.id)].hash = Sha256(Payload(fr))
    /\ main_pc = "send_store" => /\ mp[KeyOf(msg)] # None
                                 /\ mp[KeyOf(msg)].hash = Sha256(Payload(msg.frame))

IInv == /\ TableInv /\ QueueInv /\ ConvInv
        /\ MainInv /\ ReaderInv
        /\ TickInv /\ OriginInv /\ TypedInv /\ ShownAsSent /\ FiledInv

-------------------------------------------------------------------------------
(* The components speak of the same keys, frames, digests and messages.     *)
LEMMA SameInTable ==
    /\ Table!Key = Key /\ Table!CAN_MESSAGE = CAN_MESSAGE
    /\ \A id : Table!U16(id) = U16(id)
    /\ \A f : Table!Sha256(Table!Payload(f)) = Sha256(Payload(f))
  <1>1. \A id : Table!U16(id) = U16(id)
    BY DEF Table!U16, U16
  <1>2. Table!Key = Key
    BY <1>1 DEF Table!Key, Key
  <1>3. \A f : Table!Sha256(Table!Payload(f)) = Sha256(Payload(f))
    BY DEF Table!Sha256, Table!Payload, Sha256, Payload
  <1>4. Table!CanFrame = CanFrame
    BY DEF Table!CanFrame, Table!Buffer, CanFrame, Buffer
  <1>5. Table!NoHash = NoHash /\ Table!Garbled = Garbled
    BY DEF Table!NoHash, Table!Garbled, NoHash, Garbled
  <1>6. Table!Hash = Hash
    BY <1>3, <1>4, <1>5 DEF Table!Hash, Hash
  <1>7. Table!CAN_MESSAGE = CAN_MESSAGE
    BY <1>4, <1>6 DEF Table!CAN_MESSAGE, CAN_MESSAGE
  <1> QED BY <1>1, <1>2, <1>3, <1>7

LEMMA SameInQueue ==
    /\ Queue!SendType = SendType /\ Queue!QueuedMessage = Queued
    /\ Queue!CanFrame = CanFrame /\ Queue!Buffer = Buffer /\ Queue!NoHash = NoHash
    /\ Queue!Garbled = Garbled
    /\ \A id : Queue!U16(id) = U16(id)
    /\ \A d, b : Queue!Memcpy(d, b) = Memcpy(d, b)
    /\ \A f : Queue!Sha256(Queue!Payload(f)) = Sha256(Payload(f))
  <1>1. \A id : Queue!U16(id) = U16(id)
    BY DEF Queue!U16, U16
  <1>2. \A f : Queue!Sha256(Queue!Payload(f)) = Sha256(Payload(f))
    BY DEF Queue!Sha256, Queue!Payload, Sha256, Payload
  <1>3. Queue!CanFrame = CanFrame /\ Queue!Buffer = Buffer
    BY DEF Queue!CanFrame, Queue!Buffer, CanFrame, Buffer
  <1>4. Queue!NoHash = NoHash /\ Queue!Garbled = Garbled
    BY DEF Queue!NoHash, Queue!Garbled, NoHash, Garbled
  <1>5. Queue!Hash = Hash
    BY <1>2, <1>3, <1>4 DEF Queue!Hash, Hash
  <1>6. Queue!SendType = SendType
    BY DEF Queue!SendType, SendType
  <1>7. Queue!QueuedMessage = Queued
    BY <1>3, <1>5, <1>6 DEF Queue!QueuedMessage, Queued
  <1>8. \A d, b : Queue!Memcpy(d, b) = Memcpy(d, b)
    BY DEF Queue!Memcpy, Memcpy
  <1> QED BY <1>1, <1>2, <1>3, <1>4, <1>6, <1>7, <1>8

LEMMA SameInConv ==
    /\ Conv!Key = Key /\ Conv!CONVERSATION_TYPE = CONVERSATION_TYPE
    /\ \A id : Conv!U16(id) = U16(id)
  <1>1. \A id : Conv!U16(id) = U16(id)
    BY DEF Conv!U16, U16
  <1>2. Conv!Key = Key
    BY <1>1 DEF Conv!Key, Key
  <1>3. Conv!CONVERSATION_TYPE = CONVERSATION_TYPE
    BY DEF Conv!CONVERSATION_TYPE, CONVERSATION_TYPE
  <1> QED BY <1>1, <1>2, <1>3

-------------------------------------------------------------------------------
(* The steps of the table, in the terms of the gateway and under TableInv:  *)
(* operator[] never inserts.                                                *)
getVars == <<get_pc, get_key, answer, listing>>

PutCalls(f, t) == /\ put_pc = "idle" /\ put_pc' = "check"
                  /\ put_msg' = Message(f, t)
                  /\ UNCHANGED <<mp, last, getVars>>

PutLooks == /\ put_pc = "check"
            /\ put_pc' = IF mp[KeyOf(put_msg)] # None THEN "compare" ELSE "write"
            /\ UNCHANGED <<mp, put_msg, last, getVars>>

PutDiffers == /\ put_pc = "compare" /\ put_pc' = "write"
              /\ UNCHANGED <<mp, put_msg, last, getVars>>

PutKeeps == /\ put_pc = "compare" /\ put_pc' = "idle"
            /\ mp[KeyOf(put_msg)].hash = put_msg.hash
            /\ put_msg' = None
            /\ last' = [last EXCEPT ![KeyOf(put_msg)] = put_msg]
            /\ UNCHANGED <<mp, getVars>>

PutStores == /\ put_pc = "write" /\ put_pc' = "idle"
             /\ mp' = [mp EXCEPT ![KeyOf(put_msg)] = put_msg]
             /\ put_msg' = None
             /\ last' = [last EXCEPT ![KeyOf(put_msg)] = put_msg]
             /\ UNCHANGED getVars

(* A reader calls get, learns that there is something, or is answered. *)
GetCalls(r) == /\ get_pc[r] = "idle"
               /\ get_pc' = [get_pc EXCEPT ![r] = "check"]
               /\ \E k \in Key : get_key' = [get_key EXCEPT ![r] = k]
               /\ UNCHANGED <<answer, listing>>

GetFinds(r) == /\ get_pc[r] = "check" /\ mp[get_key[r]] # None
               /\ get_pc' = [get_pc EXCEPT ![r] = "read"]
               /\ UNCHANGED <<get_key, answer, listing>>

GetReturns(r) == /\ get_pc[r] # "idle"
                 /\ get_pc'  = [get_pc EXCEPT ![r] = "idle"]
                 /\ get_key' = [get_key EXCEPT ![r] = None]
                 /\ answer'  = [answer EXCEPT ![r] = mp[get_key[r]]]
                 /\ UNCHANGED listing

GetLists(r) == /\ get_pc[r] = "idle"
               /\ \E keys \in SUBSET Key : listing' = [listing EXCEPT ![r] = keys]
               /\ UNCHANGED <<get_pc, get_key, answer>>

putVars == <<mp, put_pc, put_msg, last>>

(* The message of the put in progress is a message and its key is a key.    *)
LEMMA PutInProgress ==
    ASSUME TableInv, put_pc # "idle"
    PROVE  put_msg \in CAN_MESSAGE /\ put_msg # None /\ KeyOf(put_msg) \in Key
  <1>1. put_msg \in CAN_MESSAGE /\ put_msg # None
    BY DEF TableInv, Entry
  <1> QED BY <1>1 DEF KeyOf, CAN_MESSAGE, CanFrame, Key

(* put, as the main loop sees it.                                           *)
LEMMA PutCallPlain ==
    ASSUME NEW f, NEW t, Table!PutCall(f, t) PROVE PutCalls(f, t)
  BY SameInTable DEF Table!PutCall, Table!NewMessage, Table!getVars, PutCalls, Message, getVars

LEMMA PutPlain ==
    ASSUME TableInv, Table!PutCheck \/ Table!PutCompare \/ Table!PutWrite
    PROVE  PutLooks \/ PutDiffers \/ PutKeeps \/ PutStores
  <1>1. Table!PutKey = KeyOf(put_msg)
    BY SameInTable DEF Table!PutKey, KeyOf
  <1>2. CASE Table!PutCheck
    BY <1>1, <1>2 DEF Table!PutCheck, Table!getVars, PutLooks, getVars
  <1>3. CASE Table!PutCompare
    <2>1. mp[KeyOf(put_msg)] # None
      BY <1>3 DEF Table!PutCompare, TableInv
    <2>2. /\ put_pc = "compare" /\ mp' = mp /\ UNCHANGED getVars
          /\ IF mp[KeyOf(put_msg)].hash # put_msg.hash
             THEN put_pc' = "write" /\ UNCHANGED <<put_msg, last>>
             ELSE Table!PutReturn
      BY <1>1, <1>3, <2>1 DEF Table!PutCompare, Table!Subscript, Table!getVars, getVars
    <2> QED BY <1>1, <2>2 DEF Table!PutReturn, PutDiffers, PutKeeps
  <1>4. CASE Table!PutWrite
    BY <1>1, <1>4 DEF Table!PutWrite, Table!PutReturn, Table!getVars, PutStores, getVars
  <1> QED BY <1>2, <1>3, <1>4

(* get and get_id_list, as a worker sees them.                              *)
LEMMA GetPlain ==
    ASSUME TableInv, NEW r \in Readers, Table!GetCheck(r) \/ Table!GetRead(r)
    PROVE  UNCHANGED putVars /\ (GetFinds(r) \/ GetReturns(r))
  <1>1. CASE Table!GetCheck(r)
    BY <1>1 DEF Table!GetCheck, Table!GetReturn, Table!putVars, putVars, GetFinds, GetReturns,
                TableInv
  <1>2. CASE Table!GetRead(r)
    <2>1. mp[get_key[r]] # None /\ get_pc[r] = "read"
      BY <1>2 DEF Table!GetRead, TableInv
    <2> QED BY <1>2, <2>1 DEF Table!GetRead, Table!Subscript, Table!GetReturn, putVars,
                              GetReturns
  <1> QED BY <1>1, <1>2

LEMMA GetCallPlain ==
    ASSUME NEW r \in Readers, NEW k \in Key, Table!GetCall(r, k)
    PROVE  UNCHANGED putVars /\ GetCalls(r)
  BY DEF Table!GetCall, Table!putVars, putVars, GetCalls

LEMMA ListPlain ==
    ASSUME NEW r \in Readers, Table!GetIdList(r)
    PROVE  UNCHANGED putVars /\ GetLists(r)
  BY SameInTable DEF Table!GetIdList, Table!putVars, putVars, GetLists

(* put builds a message out of any frame.                                   *)
LEMMA MessageType ==
    ASSUME NEW f \in CanFrame, NEW t \in Nat
    PROVE  /\ Message(f, t) \in CAN_MESSAGE
           /\ Message(f, t) # None
           /\ KeyOf(Message(f, t)) = U16(f.id)
           /\ U16(f.id) \in Key
  <1>1. Sha256(Payload(f)) \in Hash
    BY DEF Hash
  <1>2. Message(f, t) \in CAN_MESSAGE
    BY <1>1 DEF Message, CAN_MESSAGE
  <1> QED BY <1>2, NoneAssumption DEF Message, KeyOf, CanFrame, Key

(* Every step of the table preserves its invariant.                         *)
LEMMA TablePutCall ==
    ASSUME TableInv, NEW f \in CanFrame, NEW t \in Nat, PutCalls(f, t)
    PROVE  TableInv'
  BY MessageType DEF TableInv, PutCalls, getVars, Entry

LEMMA TablePut ==
    ASSUME TableInv, PutLooks \/ PutDiffers \/ PutKeeps \/ PutStores
    PROVE  TableInv'
  <1>1. put_msg \in CAN_MESSAGE /\ put_msg # None /\ KeyOf(put_msg) \in Key
    BY PutInProgress DEF PutLooks, PutDiffers, PutKeeps, PutStores
  <1>2. CASE PutLooks
    BY <1>1, <1>2 DEF TableInv, PutLooks, getVars
  <1>3. CASE PutDiffers
    BY <1>1, <1>3 DEF TableInv, PutDiffers, getVars
  <1>4. CASE PutKeeps
    BY <1>1, <1>4 DEF TableInv, PutKeeps, getVars, Entry
  <1>5. CASE PutStores
    <2> DEFINE k == KeyOf(put_msg)
    <2>1. /\ mp' = [mp EXCEPT ![k] = put_msg] /\ last' = [last EXCEPT ![k] = put_msg]
          /\ put_pc' = "idle" /\ put_msg' = None
          /\ UNCHANGED <<get_pc, get_key, answer, listing>>
      BY <1>5 DEF PutStores, getVars
    <2>2. \A j \in Key : /\ mp'[j] = IF j = k THEN put_msg ELSE mp[j]
                         /\ mp[j] # None => mp'[j] # None
      BY <1>1, <2>1 DEF TableInv
    <2>3. \A j \in Key : mp'[j] # None => KeyOf(mp'[j]) = j
      BY <2>2 DEF TableInv
    <2>4. mp' \in [Key -> Entry] /\ last' \in [Key -> Entry]
      BY <1>1, <2>1 DEF TableInv, Entry
    <2>5. \A r \in Readers : get_pc[r] = "read" => mp'[get_key[r]] # None
      BY <2>2 DEF TableInv
    <2> HIDE DEF k
    <2> QED BY <2>1, <2>3, <2>4, <2>5 DEF TableInv, Entry
  <1> QED BY <1>2, <1>3, <1>4, <1>5

LEMMA TableGet ==
    ASSUME TableInv, NEW r \in Readers, UNCHANGED putVars,
           GetCalls(r) \/ GetFinds(r) \/ GetReturns(r) \/ GetLists(r)
    PROVE  TableInv'
  <1>1. CASE GetCalls(r)
    BY <1>1, NoneAssumption DEF TableInv, putVars, GetCalls
  <1>2. CASE GetFinds(r)
    BY <1>2 DEF TableInv, putVars, GetFinds
  <1>3. CASE GetReturns(r)
    <2>1. get_key[r] \in Key /\ mp[get_key[r]] \in Entry
      BY <1>3 DEF TableInv, GetReturns
    <2> QED BY <1>3, <2>1 DEF TableInv, putVars, GetReturns
  <1>4. CASE GetLists(r)
    BY <1>4 DEF TableInv, putVars, GetLists
  <1> QED BY <1>1, <1>2, <1>3, <1>4

-------------------------------------------------------------------------------
(* enqueue_*: whatever the client posted, the payload fits the buffer.      *)
LEMMA EncodeFits ==
    ASSUME NEW req \in Requests
    PROVE  Queue!Encode(req) \in Seq(Byte) /\ Len(Queue!Encode(req)) \in 0 .. BufLen
  <1>1. req \in Queue!Request /\ Queue!Encode(req) \in Seq(Byte)
    BY CallsAssumption
  <1>2. CASE req.type = "INT"
    <2>1. Queue!Encode(req) = <<req.arg[1] % 256, (req.arg[1] \div 256) % 256>>
      BY <1>2 DEF Queue!Encode
    <2> QED BY <1>1, <2>1, BufLenAssumption
  <1>3. CASE req.type = "BOOL"
    <2>1. Queue!Encode(req) = <<IF req.arg[1] = 0 THEN 0 ELSE 1>>
      BY <1>3 DEF Queue!Encode
    <2> QED BY <1>1, <2>1, BufLenAssumption
  <1>4. CASE req.type \notin {"INT", "BOOL"}
    <2>1. Queue!Encode(req) = Queue!Clamp(req.arg)
      BY <1>4 DEF Queue!Encode
    <2>2. req.arg \in Seq(Nat) /\ Len(req.arg) \in Nat
      BY <1>1 DEF Queue!Request
    <2> DEFINE n == IF Len(req.arg) > BufLen THEN BufLen ELSE Len(req.arg)
    <2>3. n \in 0 .. BufLen /\ n <= Len(req.arg)
      BY <2>2, BufLenAssumption
    <2>4. Queue!Clamp(req.arg) = SubSeq(req.arg, 1, n)
      BY DEF Queue!Clamp
    <2>5. Len(SubSeq(req.arg, 1, n)) = n
      BY <2>2, <2>3
    <2> QED BY <1>1, <2>1, <2>3, <2>4, <2>5
  <1> QED BY <1>2, <1>3, <1>4

(* The frame a worker assembles is a CanFrame, whatever was on its stack.   *)
LEMMA AssembleType ==
    ASSUME NEW req \in Requests, NEW stack \in Queue!Buffer
    PROVE  Queue!Assemble(req, stack) \in CanFrame
  <1>1. /\ <<0, U16(req.id)>> \in Ids
        /\ Queue!Encode(req) \in Seq(Byte) /\ Len(Queue!Encode(req)) \in 0 .. BufLen
    BY CallsAssumption, EncodeFits
  <1>2. Memcpy(stack, Queue!Encode(req)) \in Buffer
    BY <1>1, BufLenAssumption, SameInQueue DEF Memcpy, Buffer
  <1> QED BY <1>1, <1>2, SameInQueue DEF Queue!Assemble, CanFrame

(* No step of a worker takes anything from the queue, and none breaks its   *)
(* invariant.                                                               *)
LEMMA QueueWorker ==
    ASSUME QueueInv, NEW w \in Workers, Queue!Worker(w)
    PROVE  QueueInv' /\ UNCHANGED <<deq_pc, taken>>
  <1> USE DEF QueueInv
  <1>1. ASSUME NEW req \in Requests, NEW stack \in Queue!Buffer, Queue!Enqueue(w, req, stack)
        PROVE  QueueInv' /\ UNCHANGED <<deq_pc, taken>>
    <2> DEFINE m == [frame |-> Queue!Assemble(req, stack), hash |-> Queue!NoHash,
                     type |-> req.type]
    <2>1. m \in Queued
      <3>1. Queue!Assemble(req, stack) \in CanFrame
        BY AssembleType
      <3>2. req.type \in SendType
        BY CallsAssumption, SameInQueue DEF Queue!Request
      <3>3. Queue!NoHash \in Hash
        BY SameInQueue DEF Hash
      <3> QED BY <3>1, <3>2, <3>3 DEF Queued
    <2>2. /\ send_msg' = [send_msg EXCEPT ![w] = m]
          /\ send_pc' = [send_pc EXCEPT ![w] = "hashing"]
             \/ send_pc' = [send_pc EXCEPT ![w] = "push"]
          /\ overlapped' = overlapped \cup Queue!Hashing \cup {w}
             \/ overlapped' = overlapped
          /\ UNCHANGED <<message_queue, accepted, deq_pc, taken>>
      BY <1>1 DEF Queue!Enqueue, Queue!deqVars
    <2> HIDE DEF m
    <2> QED BY <2>1, <2>2 DEF Queue!Hashing
  <1>2. ASSUME Queue!HashDone(w) PROVE QueueInv' /\ UNCHANGED <<deq_pc, taken>>
    <2>1. PICK h \in Queue!Digests(w) : send_msg' = [send_msg EXCEPT ![w].hash = h]
      BY <1>2 DEF Queue!HashDone
    <2>2. send_msg[w] \in Queued
      BY <1>2 DEF Queue!HashDone
    <2>3. h \in Hash
      BY <2>1, <2>2, SameInQueue DEF Queue!Digests, Hash, Queued
    <2>4. [send_msg[w] EXCEPT !.hash = h] \in Queued
      BY <2>2, <2>3 DEF Queued
    <2> QED BY <1>2, <2>1, <2>4 DEF Queue!HashDone, Queue!deqVars
  <1>3. ASSUME Queue!Push(w) PROVE QueueInv' /\ UNCHANGED <<deq_pc, taken>>
    <2>1. send_msg[w] \in Queued
      BY <1>3 DEF Queue!Push
    <2>2. /\ message_queue' = Append(message_queue, send_msg[w])
          /\ accepted' = Append(accepted, send_msg[w])
          /\ send_pc'  = [send_pc EXCEPT ![w] = "idle"]
          /\ send_msg' = [send_msg EXCEPT ![w] = None]
          /\ UNCHANGED <<overlapped, deq_pc, taken>>
      BY <1>3 DEF Queue!Push, Queue!deqVars
    <2>3. message_queue' \in Seq(Queued) /\ message_queue' # <<>> /\ accepted' \in Seq(Queued)
      BY <2>1, <2>2
    <2> QED BY <2>2, <2>3
  <1> QED BY <1>1, <1>2, <1>3 DEF Queue!Worker

(* The main loop polls, counts again and takes the first message.           *)
LEMMA QueueMain ==
    ASSUME QueueInv
    PROVE  /\ Queue!Poll => /\ QueueInv' /\ taken' = taken
                            /\ deq_pc = "poll" /\ deq_pc' = "dequeue"
           /\ Queue!DequeueCheck => /\ QueueInv' /\ taken' = taken
                                    /\ deq_pc = "dequeue" /\ deq_pc' = "pop"
           /\ Queue!DequeuePop => /\ QueueInv'
                                  /\ \E m \in Queued : taken' = Append(taken, m)
                                  /\ deq_pc = "pop" /\ deq_pc' = "poll"
  <1> USE DEF QueueInv
  <1>1. CASE Queue!Poll
    BY <1>1 DEF Queue!Poll, Queue!sendVars, Queue!DequeueCheck, Queue!DequeuePop
  <1>2. CASE Queue!DequeueCheck
    <2>1. Len(message_queue) > 0
      BY <1>2 DEF Queue!DequeueCheck
    <2> QED BY <1>2, <2>1 DEF Queue!Poll, Queue!sendVars, Queue!DequeueCheck, Queue!DequeuePop
  <1>3. CASE Queue!DequeuePop
    <2>1. Head(message_queue) \in Queued /\ Tail(message_queue) \in Seq(Queued)
      BY <1>3 DEF Queue!DequeuePop
    <2> QED BY <1>3, <2>1 DEF Queue!Poll, Queue!sendVars, Queue!DequeueCheck, Queue!DequeuePop
  <1> QED BY <1>1, <1>2, <1>3

-------------------------------------------------------------------------------
(* The steps of the type register, in the terms of the gateway.             *)
Converts(c, m) ==
    LET k == KeyOf(m) IN
    /\ type_register' = IF type_register[k] = None
                        THEN [type_register EXCEPT ![k] = "NONE"] ELSE type_register
    /\ json' = [json EXCEPT ![c] = Conv!Json(m)]
    /\ shown' = IF type_register[k] = None THEN shown \cup {k} ELSE shown
    /\ UNCHANGED <<reg_pc, reg_send, sent>>

LEMMA ConvertPlain ==
    ASSUME NEW c, NEW m, Conv!ConvertFrame(c, m)
    PROVE  Converts(c, m)
  BY SameInConv DEF Conv!ConvertFrame, Conv!LookupType, Conv!Subscript, Converts, KeyOf

LEMMA SameMessages ==
    /\ Conv!CanFrame = CanFrame /\ Conv!Hash = Hash /\ Conv!CAN_MESSAGE = CAN_MESSAGE
    /\ Conv!NoHash = NoHash
    /\ \A f : Conv!Sha256(Conv!Payload(f)) = Sha256(Payload(f))
  <1>1. Conv!CanFrame = CanFrame
    BY DEF Conv!CanFrame, Conv!Buffer, CanFrame, Buffer
  <1>2. \A f : Conv!Sha256(Conv!Payload(f)) = Sha256(Payload(f))
    BY DEF Conv!Sha256, Conv!Payload, Sha256, Payload
  <1>3. Conv!NoHash = NoHash /\ Conv!Garbled = Garbled
    BY DEF Conv!NoHash, Conv!Garbled, NoHash, Garbled
  <1>4. Conv!Hash = Hash
    BY <1>1, <1>2, <1>3 DEF Conv!Hash, Hash
  <1> QED BY <1>1, <1>2, <1>3, <1>4 DEF Conv!CAN_MESSAGE, CAN_MESSAGE

(* What convert_frame makes of any message is a document.                   *)
LEMMA ConvDocument ==
    ASSUME ConvInv, NEW m \in CAN_MESSAGE
    PROVE  Conv!IsDocument(Conv!Json(m))
  <1> DEFINE type == Conv!EffectiveType(KeyOf(m))
             d    == Conv!Json(m)
  <1>1. KeyOf(m) \in Key /\ m.frame \in CanFrame /\ m.hash \in Hash
    BY DEF KeyOf, CAN_MESSAGE, CanFrame, Key
  <1>2. type \in CONVERSATION_TYPE \ {"NONE"}
    BY <1>1 DEF ConvInv, Conv!EffectiveType, CONVERSATION_TYPE
  <1>3. /\ d.type = type
        /\ d.hash = IF m.hash = NoHash THEN Sha256(Payload(m.frame)) ELSE m.hash
        /\ d.payload = Conv!Decode(type, m.frame)
    BY SameInConv, SameMessages DEF Conv!Json, KeyOf
  <1>4. Sha256(Payload(m.frame)) \in Hash \ {NoHash}
    BY <1>1 DEF Hash, Sha256, NoHash
  <1>5. Conv!Decode(type, m.frame)[1] = Conv!Kind(type)
    BY <1>2 DEF Conv!Decode, Conv!Kind, CONVERSATION_TYPE
  <1>6. d.type \in Conv!CONVERSATION_TYPE \ {"NONE"} /\ d.payload[1] = Conv!Kind(d.type)
    BY <1>2, <1>3, <1>5, SameInConv
  <1>7. d.hash \in Conv!Hash \ {Conv!NoHash}
    BY <1>1, <1>3, <1>4, SameMessages
  <1> QED BY <1>6, <1>7 DEF Conv!IsDocument

LEMMA ConvConvert ==
    ASSUME ConvInv, NEW c, NEW m \in CAN_MESSAGE, Converts(c, m)
    PROVE  ConvInv' /\ UNCHANGED <<reg_pc, reg_send>>
  <1>1. KeyOf(m) \in Key
    BY DEF KeyOf, CAN_MESSAGE, CanFrame, Key
  <1>2. json' = [json EXCEPT ![c] = Conv!Json(m)] /\ Conv!IsDocument(Conv!Json(m))
    BY ConvDocument DEF Converts
  <1>3. /\ DOMAIN json' = Readers \cup {MainThread}
        /\ \A q \in Readers \cup {MainThread} : json'[q] # None => Conv!IsDocument(json'[q])
    BY <1>2 DEF ConvInv
  <1> QED BY <1>1, <1>3 DEF ConvInv, Converts, CONVERSATION_TYPE

LEMMA ConvSend ==
    ASSUME ConvInv, NEW s \in Key \X SendType, Conv!SendCheck(s)
    PROVE  /\ ConvInv' /\ UNCHANGED <<type_register, json, shown>>
           /\ reg_pc = "idle"
           /\ \/ type_register[s[1]] = None /\ reg_pc' = "register" /\ reg_send' = s
              \/ type_register[s[1]] # None /\ reg_pc' = "idle" /\ reg_send' = reg_send
  <1>1. s # None /\ s[1] \in Key /\ s[2] \in CONVERSATION_TYPE
    BY NoneAssumption, SameInQueue DEF SendType, CONVERSATION_TYPE
  <1>2. UNCHANGED sent \/ sent' = [sent EXCEPT ![s[1]] = IF sent[s[1]] = None THEN s[2]
                                                        ELSE sent[s[1]]]
    BY DEF Conv!SendCheck, Conv!FirstSent
  <1>3. sent' \in [Key -> CONVERSATION_TYPE \cup {None}]
    BY <1>1, <1>2 DEF ConvInv
  <1>4. UNCHANGED <<type_register, json, shown>>
    BY DEF Conv!SendCheck
  <1> QED BY <1>1, <1>3, <1>4 DEF ConvInv, Conv!SendCheck

LEMMA ConvRegister ==
    ASSUME ConvInv, Conv!SendRegister
    PROVE  /\ ConvInv' /\ UNCHANGED <<json, shown>>
           /\ reg_pc = "register" /\ reg_pc' = "idle"
           /\ reg_send \in Key \X SendType
           /\ type_register' = [type_register EXCEPT ![reg_send[1]] = reg_send[2]]
  <1>1. reg_send \in Key \X SendType
    BY DEF ConvInv, Conv!SendRegister
  <1>2. reg_send[1] \in Key /\ reg_send[2] \in CONVERSATION_TYPE
    BY <1>1 DEF SendType, CONVERSATION_TYPE
  <1>3. sent' = [sent EXCEPT ![reg_send[1]] = IF sent[reg_send[1]] = None THEN reg_send[2]
                                              ELSE sent[reg_send[1]]]
    BY DEF Conv!SendRegister, Conv!FirstSent
  <1>4. sent' \in [Key -> CONVERSATION_TYPE \cup {None}]
    BY <1>2, <1>3 DEF ConvInv
  <1>5. UNCHANGED <<json, shown>>
    BY DEF Conv!SendRegister
  <1> QED BY <1>1, <1>2, <1>4, <1>5 DEF ConvInv, Conv!SendRegister, Conv!register_conversion

-------------------------------------------------------------------------------
(* A component that a step leaves alone keeps its invariant.                *)
LEMMA TableSame == ASSUME TableInv, UNCHANGED tableVars PROVE TableInv'
  BY DEF TableInv, tableVars

LEMMA QueueSame == ASSUME QueueInv, UNCHANGED queueVars PROVE QueueInv'
  BY DEF QueueInv, queueVars

LEMMA ConvSame == ASSUME ConvInv, UNCHANGED convVars PROVE ConvInv'
  BY DEF ConvInv, convVars

(* The message being sent is a queued message of some key.                  *)
LEMMA MsgType ==
    ASSUME QueueInv, MainInv, main_pc \in Sending
    PROVE  /\ msg \in Queued /\ KeyOf(msg) \in Key
           /\ Len(taken) \in DOMAIN taken
  <1>1. taken \in Seq(Queued) /\ taken # <<>>
    BY DEF QueueInv, MainInv
  <1>2. Len(taken) \in DOMAIN taken /\ taken[Len(taken)] \in Queued
    BY <1>1
  <1> QED BY <1>2 DEF msg, Queued, KeyOf, CanFrame, Key

(* The initial states satisfy the invariant.                                *)
LEMMA InitEstablishes == Init => IInv
  <1> SUFFICES ASSUME Init PROVE IInv
    OBVIOUS
  <1>1. TableInv
    BY SameInTable DEF Init, Table!Init, TableInv, Entry
  <1>2. QueueInv
    BY DEF Init, Queue!Init, QueueInv
  <1>3. Conv!Configured \in [Key -> (CONVERSATION_TYPE \ {"NONE"}) \cup {None}]
    BY ConfigAssumption, SameInConv DEF Conv!Configured, CONVERSATION_TYPE
  <1>4. ConvInv
    BY <1>3, SameInConv DEF Init, Conv!Init, ConvInv
  <1>5. MainInv
    BY <1>1, <1>4 DEF Init, Table!Init, Queue!Init, Conv!Init, MainInv, Receiving, Sending
  <1>6. ReaderInv
    BY DEF Init, Table!Init, ReaderInv
  <1>7. TickInv
    BY SameInTable DEF Init, Table!Init, TickInv, Receiving
  <1>8. OriginInv
    BY SameInTable DEF Init, Table!Init, OriginInv, Genuine
  <1>9. TypedInv
    <2>1. \A k \in Key : type_register[k] # "NONE"
      BY <1>3, NoneAssumption DEF Init, Conv!Init, CONVERSATION_TYPE
    <2>2. type_register = Conv!Configured /\ main_pc = "read"
          /\ mp = [k \in Key |-> None] /\ answer = [r \in Readers |-> None]
      BY SameInTable DEF Init, Table!Init, Conv!Init
    <2> QED BY <2>1, <2>2 DEF TypedInv
  <1>10. ShownAsSent
    BY DEF Init, Conv!Init, ShownAsSent
  <1>11. FiledInv
    BY DEF Init, FiledInv
  <1> QED BY <1>1, <1>2, <1>4, <1>5, <1>6, <1>7, <1>8, <1>9, <1>10, <1>11 DEF IInv

-------------------------------------------------------------------------------
(* A frame read from the bus is a CanFrame, whatever the buffer held.       *)
LEMMA ReadIntoType ==
    ASSUME NEW f \in CanFrame \cup NoFrame, NEW frame \in BusFrames
    PROVE  ReadInto(f, frame) \in CanFrame
  <1>1. f.data \in Buffer
    BY DEF CanFrame, NoFrame
  <1>2. /\ frame[1] \in Ids /\ frame[2] \in Seq(Byte) /\ Len(frame[2]) \in 0 .. BufLen
    BY BusAssumption, BufLenAssumption
  <1>3. Memcpy(f.data, frame[2]) \in Buffer
    BY <1>1, <1>2, BufLenAssumption DEF Memcpy, Buffer
  <1> QED BY <1>2, <1>3 DEF ReadInto, CanFrame

(* What was received or taken stays so.                                     *)
LEMMA KnownStays ==
    ASSUME received \in Seq(CAN_MESSAGE), taken \in Seq(Queued),
           received' = received \/ \E m \in CAN_MESSAGE : received' = Append(received, m),
           taken' = taken \/ \E m \in Queued : taken' = Append(taken, m)
    PROVE  /\ \A m : Genuine(m) => Genuine(m)'
           /\ \A k : WasReceived(k) => WasReceived(k)'
           /\ ShownAsSent /\ UNCHANGED json => ShownAsSent'
  <1>1. \A i \in DOMAIN received : i \in DOMAIN received' /\ received'[i] = received[i]
    OBVIOUS
  <1>2. \A i \in DOMAIN taken : i \in DOMAIN taken' /\ taken'[i] = taken[i]
    OBVIOUS
  <1>3. \A m : Genuine(m) => Genuine(m)'
    BY <1>1, <1>2 DEF Genuine, Known
  <1>4. \A k : WasReceived(k) => WasReceived(k)'
    BY <1>1 DEF WasReceived
  <1>5. ShownAsSent /\ UNCHANGED json => ShownAsSent'
    BY <1>1 DEF ShownAsSent
  <1> QED BY <1>3, <1>4, <1>5

(* Receive, of a frame the filter drops.                                    *)
LEMMA DropPreserves ==
    ASSUME IInv, NEW frame \in BusFrames, Receive(frame),
           ~check_message(U16(ReadInto(fr, frame).id))
    PROVE  IInv'
  <1>1. /\ main_pc = "read" /\ main_pc' = "read" /\ fr' \in CanFrame
        /\ UNCHANGED <<tableVars, queueVars, convVars, received, frame_sync_counter, rest_pc>>
    BY ReadIntoType DEF Receive, IInv, MainInv
  <1>2. TableInv' /\ QueueInv' /\ ConvInv'
    BY <1>1, TableSame, QueueSame, ConvSame DEF IInv
  <1>3. UNCHANGED <<mp, put_pc, put_msg, get_pc, answer, taken, deq_pc, reg_pc, reg_send,
                    type_register, json>>
    BY <1>1 DEF tableVars, queueVars, convVars
  <1>4. MainInv' /\ ReaderInv'
    BY <1>1, <1>3 DEF IInv, MainInv, ReaderInv, Receiving, Sending
  <1>5. TickInv' /\ OriginInv'
    BY <1>1, <1>3 DEF IInv, TickInv, OriginInv, Genuine, Known, Receiving
  <1>6. TypedInv' /\ ShownAsSent'
    BY <1>1, <1>3 DEF IInv, TypedInv, ShownAsSent, WasReceived, Entered, Receiving
  <1>7. FiledInv'
    BY <1>1, <1>3 DEF IInv, FiledInv
  <1> QED BY <1>2, <1>4, <1>5, <1>6, <1>7 DEF IInv

(* Receive, of a frame that passes: put is called with the current tick.    *)
LEMMA AcceptPreserves ==
    ASSUME IInv, NEW frame \in BusFrames, Receive(frame),
           check_message(U16(ReadInto(fr, frame).id))
    PROVE  IInv'
  <1> DEFINE m == Message(fr', frame_sync_counter)
  <1>1. /\ main_pc = "read" /\ main_pc' = "got_put" /\ fr' \in CanFrame
        /\ PutCalls(fr', frame_sync_counter)
        /\ received' = Append(received, m)
        /\ UNCHANGED <<queueVars, convVars, frame_sync_counter, rest_pc>>
    BY ReadIntoType, PutCallPlain, SameInTable
       DEF Receive, IInv, MainInv, Table!NewMessage, Message
  <1>2. frame_sync_counter \in Nat /\ received \in Seq(CAN_MESSAGE) /\ taken \in Seq(Queued)
    BY DEF IInv, MainInv, QueueInv
  <1>3. m \in CAN_MESSAGE /\ m # None /\ KeyOf(m) = U16(fr'.id)
    BY <1>1, <1>2, MessageType
  <1>4. TableInv' /\ QueueInv' /\ ConvInv'
    BY <1>1, <1>2, TablePutCall, QueueSame, ConvSame DEF IInv
  <1>5. /\ UNCHANGED <<mp, get_pc, answer, taken, deq_pc, reg_pc, reg_send, type_register, json>>
        /\ put_msg' = m
    BY <1>1 DEF PutCalls, getVars, queueVars, convVars
  <1>6. /\ Len(received') = Len(received) + 1
        /\ DOMAIN received' = DOMAIN received \cup {Len(received')}
        /\ received'[Len(received')] = m
        /\ \A i \in DOMAIN received : received'[i] = received[i] /\ i < Len(received')
        /\ \A i \in DOMAIN received : i \in 1 .. Len(received)
        /\ received' \in Seq(CAN_MESSAGE)
        /\ received' # <<>>
    BY <1>1, <1>2, <1>3
  <1>7. m.sync_tick = frame_sync_counter /\ m.hash = Sha256(Payload(m.frame))
    BY DEF Message
  <1>8. MainInv' /\ ReaderInv'
    BY <1>1, <1>5, <1>6 DEF IInv, MainInv, ReaderInv, Receiving, Sending
  <1> HIDE DEF m
  <1>9. /\ \A x : Genuine(x) => Genuine(x)'
        /\ \A k : WasReceived(k) => WasReceived(k)'
        /\ ShownAsSent'
    BY <1>1, <1>2, <1>3, <1>5, KnownStays DEF IInv
  <1>10. TickInv'
    <2>1. \A i \in DOMAIN received : received[i].sync_tick < frame_sync_counter
      BY <1>1 DEF IInv, TickInv, Receiving
    <2>2. \A i \in DOMAIN received' : \A j \in 1 .. i - 1 :
             received'[j].sync_tick < received'[i].sync_tick
      BY <1>2, <1>6, <1>7, <2>1 DEF IInv, TickInv
    <2>3. \A i \in DOMAIN received' : \/ received'[i].sync_tick < frame_sync_counter
                                      \/ i = Len(received')
      BY <1>6, <2>1
    <2>4. \A k \in Key : mp'[k] # None => mp'[k].sync_tick <= frame_sync_counter'
      BY <1>1, <1>5 DEF IInv, TickInv
    <2> QED BY <1>1, <1>6, <2>2, <2>3, <2>4 DEF TickInv, Receiving, m
  <1>11. OriginInv'
    <2>1. Genuine(put_msg)'
      BY <1>5, <1>6, <1>7 DEF Genuine, Known
    <2> QED BY <1>5, <1>9, <2>1 DEF IInv, OriginInv
  <1>12. TypedInv'
    <2>1. \A k : Entered(k) => Entered(k)'
      BY <1>1, <1>5 DEF Entered, Receiving
    <2> QED BY <1>1, <1>5, <1>9, <2>1 DEF IInv, TypedInv
  <1>13. FiledInv'
    BY <1>1, <1>5, <1>6 DEF IInv, FiledInv
  <1> QED BY <1>4, <1>8, <1>9, <1>10, <1>11, <1>12, <1>13 DEF IInv

(* A step of put goes on with it, or returns: the message has been written, *)
(* or the entry it found has its digest.                                    *)
PutGoesOn == put_pc' # "idle" /\ UNCHANGED <<mp, put_msg>>

PutReturns ==
    LET k == KeyOf(put_msg) IN
    /\ put_pc' = "idle" /\ put_msg' = None
    /\ \/ mp' = mp /\ mp[k] # None /\ mp[k].hash = put_msg.hash
       \/ mp' = [mp EXCEPT ![k] = put_msg]

LEMMA PutEffects ==
    ASSUME TableInv, Table!PutCheck \/ Table!PutCompare \/ Table!PutWrite
    PROVE  /\ TableInv' /\ UNCHANGED <<get_pc, answer>>
           /\ put_pc # "idle"
           /\ PutGoesOn \/ PutReturns
  <1>1. PutLooks \/ PutDiffers \/ PutKeeps \/ PutStores
    BY PutPlain
  <1>2. TableInv'
    BY <1>1, TablePut
  <1>3. put_pc # "idle" /\ UNCHANGED <<get_pc, answer>>
    BY <1>1 DEF PutLooks, PutDiffers, PutKeeps, PutStores, getVars
  <1>4. CASE PutLooks \/ PutDiffers
    BY <1>2, <1>3, <1>4 DEF PutLooks, PutDiffers, PutGoesOn
  <1>5. CASE PutKeeps
    BY <1>2, <1>3, <1>5 DEF TableInv, PutKeeps, PutReturns
  <1>6. CASE PutStores
    BY <1>2, <1>3, <1>6 DEF PutStores, PutReturns
  <1> QED BY <1>1, <1>2, <1>3, <1>4, <1>5, <1>6

(* The put of either branch of the loop, whose message carries the present  *)
(* tick.                                                                    *)
LEMMA PutPreserves ==
    ASSUME IInv, NEW next,
           \/ main_pc = "got_put" /\ next = "got_store"
           \/ main_pc = "send_put" /\ next = "send_store",
           PutUntil(next),
           UNCHANGED <<queueVars, convVars, fr, frame_sync_counter, received, rest_pc>>
    PROVE  /\ IInv'
           /\ \A k \in Key : mp[k] # None => /\ mp'[k] # None
                                             /\ mp[k].sync_tick <= mp'[k].sync_tick
  <1> DEFINE k == KeyOf(put_msg)
  <1> DEFINE f == IF main_pc = "got_put" THEN fr ELSE msg.frame
  <1>1. /\ TableInv' /\ UNCHANGED <<get_pc, answer>> /\ put_pc # "idle"
        /\ PutGoesOn \/ PutReturns
    BY PutEffects DEF PutUntil, IInv
  <1>2. QueueInv' /\ ConvInv'
    BY QueueSame, ConvSame DEF IInv
  <1>3. UNCHANGED <<taken, deq_pc, reg_pc, reg_send, type_register, json>> /\ msg' = msg
    BY DEF queueVars, convVars, msg
  <1>4. put_msg \in CAN_MESSAGE /\ put_msg # None /\ k \in Key
    BY <1>1, PutInProgress DEF IInv
  <1>5. /\ put_msg = Message(f, frame_sync_counter) /\ k = U16(f.id)
        /\ put_msg.sync_tick = frame_sync_counter
        /\ put_msg.hash = Sha256(Payload(f))
    BY <1>4 DEF IInv, MainInv, Message, KeyOf
  <1>6. /\ frame_sync_counter \in Nat /\ received \in Seq(CAN_MESSAGE)
        /\ \A i \in DOMAIN received : received[i].sync_tick \in Nat
        /\ mp \in [Key -> Entry]
        /\ \A j \in Key : mp[j] # None => mp[j].sync_tick \in Nat
    <2>1. /\ frame_sync_counter \in Nat /\ received \in Seq(CAN_MESSAGE)
          /\ mp \in [Key -> Entry]
      BY DEF IInv, MainInv, TableInv
    <2>2. \A m \in CAN_MESSAGE : m.sync_tick \in Nat
      BY DEF CAN_MESSAGE
    <2>3. \A i \in DOMAIN received : received[i] \in CAN_MESSAGE
      BY <2>1
    <2> QED BY <2>1, <2>2, <2>3 DEF Entry
  <1>7. CASE PutGoesOn
    <2>1. main_pc' = main_pc /\ UNCHANGED <<mp, put_msg>> /\ put_pc' # "idle"
      BY <1>7 DEF PutUntil, PutGoesOn
    <2>2. MainInv' /\ ReaderInv'
      BY <1>1, <1>3, <2>1 DEF IInv, MainInv, ReaderInv, Receiving, Sending
    <2>3. TickInv' /\ OriginInv' /\ ShownAsSent'
      BY <1>1, <1>3, <2>1 DEF IInv, TickInv, OriginInv, ShownAsSent, Genuine, Known, Receiving
    <2>4. TypedInv' /\ FiledInv'
      BY <1>1, <1>3, <2>1 DEF IInv, TypedInv, FiledInv, WasReceived, Entered, Receiving
    <2> QED BY <1>1, <1>2, <1>6, <2>1, <2>2, <2>3, <2>4 DEF IInv
  <1>8. CASE PutReturns
    <2>1. main_pc' = next /\ put_msg' = None /\ put_pc' = "idle"
      BY <1>8 DEF PutUntil, PutReturns
    <2>2. /\ \A j \in Key : j # k => mp'[j] = mp[j]
          /\ mp'[k] # None /\ mp'[k].hash = put_msg.hash
          /\ mp'[k] = mp[k] \/ mp'[k] = put_msg
      BY <1>4, <1>6, <1>8 DEF PutReturns
    <2> HIDE DEF k, f
    <2>3. MainInv' /\ ReaderInv'
      BY <1>1, <1>3, <2>1 DEF IInv, MainInv, ReaderInv, Receiving, Sending
    <2>4. TickInv'
      BY <1>3, <1>5, <1>6, <2>1, <2>2 DEF IInv, TickInv, Receiving
    <2>5. OriginInv' /\ ShownAsSent'
      <3>1. \A m : Genuine(m) => Genuine(m)'
        BY <1>3 DEF Genuine, Known
      <3>2. \A j \in Key : Genuine(mp'[j])
        BY <2>2 DEF IInv, OriginInv
      <3> QED BY <1>1, <1>3, <2>1, <3>1, <3>2 DEF IInv, OriginInv, ShownAsSent, Genuine
    <2>6. TypedInv'
      <3>1. \A j : Entered(j) => Entered(j)'
        BY <1>3, <2>1 DEF Entered, Receiving
      <3>2. \A j : j = k => Entered(j)'
        <4>1. CASE next = "got_store"
          BY <1>5, <2>1, <4>1 DEF Entered, Receiving, f
        <4>2. CASE next = "send_store"
          BY <1>3, <1>5, <4>2 DEF IInv, TypedInv, Entered, f, KeyOf
        <4> QED BY <4>1, <4>2
      <3>3. \A j \in Key : mp'[j] # None => Entered(j)'
        BY <2>2, <3>1, <3>2 DEF IInv, TypedInv
      <3>4. \A j : WasReceived(j) => WasReceived(j)'
        BY DEF WasReceived
      <3>5. main_pc' \in {"send_put", "send_store"} => type_register'[KeyOf(msg')] # None
        BY <1>3, <2>1 DEF IInv, TypedInv
      <3> QED BY <1>1, <1>3, <2>1, <3>1, <3>3, <3>4, <3>5 DEF IInv, TypedInv
    <2>7. FiledInv'
      <3>1. \A i \in DOMAIN received :
               /\ mp'[KeyOf(received[i])] # None
               /\ received[i].sync_tick > mp'[KeyOf(received[i])].sync_tick =>
                     received[i].hash = mp'[KeyOf(received[i])].hash
        <4> SUFFICES ASSUME NEW i \in DOMAIN received
                     PROVE  /\ mp'[KeyOf(received[i])] # None
                            /\ received[i].sync_tick > mp'[KeyOf(received[i])].sync_tick =>
                                  received[i].hash = mp'[KeyOf(received[i])].hash
          OBVIOUS
        <4>1. KeyOf(received[i]) \in Key
          <5>1. received[i] \in CAN_MESSAGE
            BY <1>6
          <5> QED BY <5>1 DEF KeyOf, Key, CAN_MESSAGE, CanFrame
        <4>2. CASE main_pc = "got_put" /\ i = Len(received)
          <5>1. received[i] = put_msg
            BY <1>5, <4>2 DEF IInv, TickInv, Receiving, f
          <5> QED BY <2>2, <5>1 DEF k
        <4>3. CASE ~(main_pc = "got_put" /\ i = Len(received))
          <5>1. received[i].sync_tick < frame_sync_counter
            BY <4>3 DEF IInv, TickInv, Receiving
          <5>2. /\ mp[KeyOf(received[i])] # None
                /\ received[i].sync_tick > mp[KeyOf(received[i])].sync_tick =>
                      received[i].hash = mp[KeyOf(received[i])].hash
            BY <4>3 DEF IInv, FiledInv
          <5> QED BY <1>5, <1>6, <2>2, <4>1, <5>1, <5>2
        <4> QED BY <4>2, <4>3
      <3>2. next = "got_store" => mp'[U16(fr.id)] # None /\ mp'[U16(fr.id)].hash = Sha256(Payload(fr))
        BY <1>5, <2>2 DEF f
      <3>3. next = "send_store" =>
               mp'[KeyOf(msg)] # None /\ mp'[KeyOf(msg)].hash = Sha256(Payload(msg.frame))
        BY <1>5, <2>2 DEF f, KeyOf
      <3> QED BY <1>3, <2>1, <3>1, <3>2, <3>3 DEF FiledInv
    <2>8. \A j \in Key : mp[j] # None => mp'[j] # None /\ mp[j].sync_tick <= mp'[j].sync_tick
      BY <1>5, <1>6, <2>2 DEF IInv, TickInv
    <2> QED BY <1>1, <1>2, <2>3, <2>4, <2>5, <2>6, <2>7, <2>8 DEF IInv
  <1> QED BY <1>1, <1>7, <1>8

(* The calls of put that a send makes.                                      *)
LEMMA SendPutPreserves ==
    ASSUME IInv, SendPut
    PROVE  /\ IInv'
           /\ \A k \in Key : mp[k] # None => /\ mp'[k] # None
                                             /\ mp[k].sync_tick <= mp'[k].sync_tick
  <1>1. /\ main_pc = "send_put"
        /\ UNCHANGED <<queueVars, convVars, fr, frame_sync_counter, received, rest_pc>>
    BY DEF SendPut
  <1>2. CASE PutUntil("send_store")
    BY <1>1, <1>2, PutPreserves
  <1>3. CASE Table!PutCall(msg.frame, frame_sync_counter) /\ main_pc' = main_pc
    <2>1. msg \in Queued /\ Len(taken) \in DOMAIN taken
      BY <1>1, MsgType DEF IInv, Sending
    <2>2. msg.frame \in CanFrame /\ frame_sync_counter \in Nat
      BY <2>1 DEF Queued, IInv, MainInv
    <2>3. PutCalls(msg.frame, frame_sync_counter)
      BY <1>3, PutCallPlain
    <2>4. TableInv' /\ QueueInv' /\ ConvInv'
      BY <1>1, <2>2, <2>3, TablePutCall, QueueSame, ConvSame DEF IInv
    <2>5. /\ UNCHANGED <<mp, get_pc, answer, taken, deq_pc, reg_pc, reg_send, type_register, json>>
          /\ msg' = msg /\ put_msg' = Message(msg.frame, frame_sync_counter)
      BY <1>1, <2>3 DEF PutCalls, getVars, queueVars, convVars, msg
    <2>6. MainInv' /\ ReaderInv'
      BY <1>1, <1>3, <2>5 DEF IInv, MainInv, ReaderInv, Receiving, Sending
    <2>7. TickInv' /\ ShownAsSent'
      BY <1>1, <1>3, <2>5 DEF IInv, TickInv, ShownAsSent, Receiving
    <2>8. OriginInv'
      <3>1. Genuine(put_msg)'
        BY <2>1, <2>5 DEF Genuine, Known, Message, msg
      <3> QED BY <1>1, <2>5, <3>1 DEF IInv, OriginInv, Genuine, Known
    <2>9. TypedInv' /\ FiledInv'
      BY <1>1, <1>3, <2>5 DEF IInv, TypedInv, FiledInv, WasReceived, Entered, Receiving
    <2>10. \A k \in Key : mp[k] # None => mp'[k] # None /\ mp[k].sync_tick <= mp'[k].sync_tick
      <3>1. \A k \in Key : mp[k] # None => mp[k].sync_tick \in Nat
        BY DEF IInv, TableInv, Entry, CAN_MESSAGE
      <3> QED BY <2>5, <3>1
    <2> QED BY <2>4, <2>6, <2>7, <2>8, <2>9, <2>10 DEF IInv
  <1> QED BY <1>2, <1>3 DEF SendPut

(* Every accepted frame moves the counter on, whatever a sync frame holds.  *)
LEMMA TickGrows ==
    ASSUME NEW f \in CanFrame, NEW tick \in Nat
    PROVE  NextTick(f, tick) \in Nat /\ NextTick(f, tick) > tick
  <1>1. f.data[1] \in Nat /\ f.data[2] \in Nat
    <2>1. 1 \in 1 .. BufLen /\ 2 \in 1 .. BufLen
      BY BufLenAssumption
    <2>2. f.data \in [1 .. BufLen -> Byte]
      BY DEF CanFrame, Buffer
    <2>3. f.data[1] \in Byte /\ f.data[2] \in Byte
      BY <2>1, <2>2
    <2>4. \A b \in Byte : b \in Nat
      BY ByteAssumption
    <2> QED BY <2>3, <2>4
  <1> QED BY <1>1 DEF NextTick

(* The end of the receive branch: convert for Redis, count.                 *)
LEMMA GotStorePreserves ==
    ASSUME IInv, GotStore
    PROVE  IInv'
  <1>1. /\ main_pc = "got_store" /\ main_pc' = "read"
        /\ frame_sync_counter' = NextTick(fr, frame_sync_counter)
        /\ UNCHANGED <<tableVars, queueVars, fr, received, rest_pc>>
    BY DEF GotStore
  <1>2. /\ fr \in CanFrame /\ frame_sync_counter \in Nat /\ received \in Seq(CAN_MESSAGE)
        /\ received # <<>> /\ received[Len(received)] = Message(fr, frame_sync_counter)
    BY <1>1 DEF IInv, MainInv, TickInv, Receiving
  <1>3. conv_msg = Message(fr, frame_sync_counter) /\ conv_msg \in CAN_MESSAGE
        /\ KeyOf(conv_msg) = U16(fr.id) /\ U16(fr.id) \in Key
    BY <1>2, MessageType, SameInTable DEF conv_msg, Table!NewMessage, Message
  <1>4. Converts(MainThread, conv_msg)
    BY ConvertPlain DEF GotStore
  <1>5. TableInv' /\ QueueInv' /\ ConvInv' /\ UNCHANGED <<reg_pc, reg_send>>
    BY <1>1, <1>3, <1>4, TableSame, QueueSame, ConvConvert DEF IInv
  <1>6. UNCHANGED <<mp, put_pc, put_msg, get_pc, answer, taken, deq_pc>>
    BY <1>1 DEF tableVars, queueVars
  <1>7. frame_sync_counter' \in Nat /\ frame_sync_counter' > frame_sync_counter
    BY <1>1, <1>2, TickGrows
  <1>8. /\ \A k \in Key : type_register'[k] = IF k = U16(fr.id) /\ type_register[k] = None
                                              THEN "NONE" ELSE type_register[k]
        /\ \A r \in Readers : json'[r] = json[r]
    BY <1>3, <1>4, ThreadsAssumption DEF Converts, IInv, ConvInv
  <1>9. MainInv' /\ ReaderInv'
    BY <1>1, <1>5, <1>6, <1>7 DEF IInv, MainInv, ReaderInv, Receiving, Sending
  <1>10. TickInv'
    <2>1. /\ \A i \in DOMAIN received : received[i].sync_tick \in Nat
          /\ \A k \in Key : mp[k] # None => mp[k].sync_tick \in Nat
      <3>1. \A m \in CAN_MESSAGE : m.sync_tick \in Nat
        BY DEF CAN_MESSAGE
      <3>2. \A i \in DOMAIN received : received[i] \in CAN_MESSAGE
        BY <1>2
      <3> QED BY <3>1, <3>2 DEF IInv, TableInv, Entry
    <2>2. \A i \in DOMAIN received : received[i].sync_tick <= frame_sync_counter
      BY <1>2, <2>1 DEF IInv, TickInv, Message
    <2> QED BY <1>1, <1>2, <1>6, <1>7, <2>1, <2>2 DEF IInv, TickInv, Receiving
  <1>11. OriginInv' /\ ShownAsSent'
    BY <1>1, <1>6, <1>8 DEF IInv, OriginInv, ShownAsSent, Genuine, Known
  <1>12. TypedInv'
    <2>1. Len(received) \in DOMAIN received /\ KeyOf(received[Len(received)]) = U16(fr.id)
      BY <1>2, <1>3
    <2>2. \A k \in Key : type_register'[k] = "NONE" => WasReceived(k)'
      BY <1>1, <1>8, <2>1 DEF IInv, TypedInv, WasReceived
    <2>3. \A k \in Key : Entered(k) => Entered(k)'
      BY <1>8, NoneAssumption DEF Entered, CONVERSATION_TYPE
    <2>4. \A r \in Readers : answer[r] # None => KeyOf(answer[r]) \in Key
      BY DEF IInv, TableInv, Entry, KeyOf, CAN_MESSAGE, CanFrame, Key
    <2>5. \A r \in Readers : answer'[r] # None => Entered(KeyOf(answer[r]))'
      BY <1>6, <2>3, <2>4 DEF IInv, TypedInv
    <2> QED BY <1>1, <1>6, <1>8, <2>2, <2>3, <2>5 DEF IInv, TypedInv
  <1>13. FiledInv'
    BY <1>1, <1>6 DEF IInv, FiledInv
  <1> QED BY <1>5, <1>9, <1>10, <1>11, <1>12, <1>13 DEF IInv

(* Steps that concern only the queue and the position of the loop.          *)
LEMMA ControlPreserves ==
    ASSUME IInv, QueueInv', MainInv',
           UNCHANGED <<tableVars, convVars, fr, frame_sync_counter, received, rest_pc>>,
           \/ main_pc' = main_pc /\ taken' = taken
           \/ /\ main_pc  \in {"read", "poll", "dequeue", "write"}
              /\ main_pc' \in {"read", "poll", "dequeue", "write", "send_check"}
              /\ taken' = taken \/ \E m \in Queued : taken' = Append(taken, m)
    PROVE  IInv'
  <1>1. TableInv' /\ ConvInv'
    BY TableSame, ConvSame DEF IInv
  <1>2. UNCHANGED <<mp, put_pc, put_msg, get_pc, answer, type_register, json>>
    BY DEF tableVars, convVars
  <1>3. /\ \A x : Genuine(x) => Genuine(x)'
        /\ \A k : WasReceived(k) => WasReceived(k)'
        /\ ShownAsSent'
    BY <1>2, KnownStays DEF IInv, MainInv, QueueInv
  <1>4. ReaderInv' /\ TickInv'
    BY <1>2 DEF IInv, ReaderInv, TickInv, Receiving
  <1>5. OriginInv'
    BY <1>2, <1>3 DEF IInv, OriginInv
  <1>6. taken' = taken => msg' = msg
    BY DEF msg
  <1>7. TypedInv' /\ FiledInv'
    BY <1>2, <1>3, <1>6 DEF IInv, TypedInv, FiledInv, Entered, Receiving
  <1> QED BY <1>1, <1>3, <1>4, <1>5, <1>7 DEF IInv

(* The loop between the socket and the queue.                               *)
LEMMA LoopPreserves ==
    ASSUME IInv, ReadTimeout \/ PollQueue \/ Dequeue \/ WriteSocket
    PROVE  IInv'
  <1>1. UNCHANGED <<tableVars, convVars, fr, frame_sync_counter, received, rest_pc>>
    BY DEF ReadTimeout, PollQueue, Dequeue, WriteSocket
  <1>2. UNCHANGED <<put_pc, put_msg, reg_pc, reg_send>>
    BY <1>1 DEF tableVars, convVars
  <1> DEFINE Quiet == QueueInv' /\ taken' = taken
  <1>3. CASE ReadTimeout \/ WriteSocket
    <2>1. Quiet /\ deq_pc' = deq_pc /\ main_pc' \in {"poll", "send_check"}
          /\ \/ main_pc = "read" /\ main_pc' = "poll"
             \/ main_pc = "write" /\ main_pc' = "send_check"
      BY <1>3, QueueSame DEF ReadTimeout, WriteSocket, queueVars, IInv
    <2>2. MainInv'
      BY <1>1, <1>2, <2>1 DEF IInv, MainInv, Receiving, Sending
    <2> QED BY <1>1, <2>1, <2>2, ControlPreserves
  <1>4. CASE PollQueue
    <2>1. /\ Quiet /\ main_pc = "poll"
          /\ \/ deq_pc' = "dequeue" /\ main_pc' = "dequeue"
             \/ deq_pc' = deq_pc /\ main_pc' = "read"
      BY <1>4, QueueMain, QueueSame DEF PollQueue, queueVars, IInv
    <2>2. MainInv'
      BY <1>1, <1>2, <2>1 DEF IInv, MainInv, Receiving, Sending
    <2> QED BY <1>1, <2>1, <2>2, ControlPreserves
  <1>5. CASE Dequeue /\ Queue!DequeueCheck
    <2>1. /\ Quiet /\ main_pc = "dequeue" /\ main_pc' = "dequeue"
          /\ deq_pc' = "pop"
      BY <1>5, QueueMain DEF Dequeue, IInv, Queue!DequeuePop
    <2>2. MainInv'
      BY <1>1, <1>2, <2>1 DEF IInv, MainInv, Receiving, Sending
    <2> QED BY <1>1, <2>1, <2>2, ControlPreserves
  <1>6. CASE Dequeue /\ Queue!DequeuePop
    <2>1. /\ QueueInv' /\ main_pc = "dequeue" /\ main_pc' = "write" /\ deq_pc' = "poll"
          /\ \E m \in Queued : taken' = Append(taken, m)
      BY <1>6, QueueMain DEF Dequeue, IInv, Queue!DequeueCheck
    <2>2. taken' # <<>>
      <3>1. PICK m \in Queued : taken' = Append(taken, m)
        BY <2>1
      <3>2. taken \in Seq(Queued)
        BY DEF IInv, QueueInv
      <3> QED BY <3>1, <3>2
    <2>3. MainInv'
      BY <1>1, <1>2, <2>1, <2>2 DEF IInv, MainInv, Receiving, Sending
    <2> QED BY <1>1, <2>1, <2>3, ControlPreserves
  <1> QED BY <1>3, <1>4, <1>5, <1>6 DEF Dequeue

(* A worker on POST /send.                                                  *)
LEMMA RestSendPreserves ==
    ASSUME IInv, NEW w \in Workers, RestSend(w)
    PROVE  IInv'
  <1>1. /\ QueueInv' /\ UNCHANGED <<deq_pc, taken>>
        /\ UNCHANGED <<tableVars, convVars, mainVars, rest_pc>>
    BY QueueWorker DEF RestSend, IInv
  <1>2. UNCHANGED <<put_pc, put_msg, reg_pc, reg_send, main_pc, fr, frame_sync_counter, received>>
        /\ msg' = msg
    BY <1>1 DEF tableVars, convVars, mainVars, msg
  <1>3. MainInv'
    BY <1>1, <1>2 DEF IInv, MainInv
  <1> QED BY <1>1, <1>2, <1>3, ControlPreserves

(* Auto registration: a type that was missing cannot have been entered by   *)
(* a worker before main registers it.                                       *)
LEMMA SendCheckPreserves ==
    ASSUME IInv, SendCheck
    PROVE  IInv'
  <1>1. /\ main_pc = "send_check"
        /\ main_pc' = IF reg_pc' = "register" THEN "send_register" ELSE "send_put"
        /\ UNCHANGED <<tableVars, queueVars, fr, frame_sync_counter, received, rest_pc>>
    BY DEF SendCheck
  <1> DEFINE s == <<KeyOf(msg), msg.type>>
  <1>2. s \in Key \X SendType /\ s[1] = KeyOf(msg)
    BY <1>1, MsgType DEF IInv, Sending, Queued
  <1>3. /\ ConvInv' /\ UNCHANGED <<type_register, json>>
        /\ reg_pc = "idle"
        /\ \/ type_register[KeyOf(msg)] = None /\ reg_pc' = "register" /\ reg_send' = s
           \/ type_register[KeyOf(msg)] # None /\ reg_pc' = "idle"
    <2>1. Conv!SendCheck(s)
      BY DEF SendCheck, KeyOf
    <2> HIDE DEF s
    <2> QED BY <1>2, <2>1, ConvSend DEF IInv
  <1>4. TableInv' /\ QueueInv'
    BY <1>1, TableSame, QueueSame DEF IInv
  <1>5. UNCHANGED <<mp, put_pc, put_msg, get_pc, answer, taken, deq_pc>> /\ msg' = msg
    BY <1>1 DEF tableVars, queueVars, msg
  <1>6. put_msg = None
    BY <1>1 DEF IInv, MainInv, TableInv
  <1>7. MainInv' /\ ReaderInv'
    BY <1>1, <1>3, <1>5, <1>6 DEF IInv, MainInv, ReaderInv, Receiving, Sending
  <1>8. TickInv' /\ OriginInv' /\ ShownAsSent'
    BY <1>1, <1>3, <1>5 DEF IInv, TickInv, OriginInv, ShownAsSent, Genuine, Known, Receiving
  <1>9. TypedInv' /\ FiledInv'
    BY <1>1, <1>3, <1>5 DEF IInv, TypedInv, FiledInv, WasReceived, Entered, Receiving
  <1> QED BY <1>3, <1>4, <1>7, <1>8, <1>9 DEF IInv

LEMMA SendRegisterPreserves ==
    ASSUME IInv, SendRegister
    PROVE  IInv'
  <1>1. /\ main_pc = "send_register" /\ main_pc' = "send_put"
        /\ UNCHANGED <<tableVars, queueVars, fr, frame_sync_counter, received, rest_pc>>
    BY DEF SendRegister
  <1>2. /\ ConvInv' /\ UNCHANGED json /\ reg_pc' = "idle"
        /\ reg_send \in Key \X SendType
        /\ type_register' = [type_register EXCEPT ![reg_send[1]] = reg_send[2]]
    BY ConvRegister DEF SendRegister, IInv
  <1>3. TableInv' /\ QueueInv'
    BY <1>1, TableSame, QueueSame DEF IInv
  <1>4. UNCHANGED <<mp, put_pc, put_msg, get_pc, answer, taken, deq_pc>> /\ msg' = msg
    BY <1>1 DEF tableVars, queueVars, msg
  <1>5. put_msg = None
    BY <1>1 DEF IInv, MainInv, TableInv
  <1>6. MainInv' /\ ReaderInv'
    BY <1>1, <1>2, <1>4, <1>5 DEF IInv, MainInv, ReaderInv, Receiving, Sending
  <1>7. TickInv' /\ OriginInv' /\ ShownAsSent'
    BY <1>1, <1>2, <1>4 DEF IInv, TickInv, OriginInv, ShownAsSent, Genuine, Known, Receiving
  <1>8. TypedInv'
    <2>1. reg_send = <<KeyOf(msg), msg.type>> /\ msg \in Queued /\ KeyOf(msg) \in Key
      BY <1>1, MsgType DEF IInv, MainInv, Sending
    <2>2. /\ msg.type \in CONVERSATION_TYPE /\ msg.type \notin {"NONE", "RAW"}
      BY <2>1 DEF Queued, SendType, CONVERSATION_TYPE
    <2>3. \A k \in Key : type_register'[k] = IF k = KeyOf(msg) THEN msg.type ELSE type_register[k]
      BY <1>2, <2>1 DEF IInv, ConvInv
    <2>4. msg.type # None
      BY <2>2, NoneAssumption
    <2>5. \A k \in Key : Entered(k) => Entered(k)'
      BY <1>1, <2>3, <2>4 DEF Entered, Receiving
    <2>6. \A r \in Readers : answer[r] # None => KeyOf(answer[r]) \in Key
      BY DEF IInv, TableInv, Entry, KeyOf, CAN_MESSAGE, CanFrame, Key
    <2>7. \A r \in Readers : answer'[r] # None => Entered(KeyOf(answer[r]))'
      BY <1>4, <2>5, <2>6 DEF IInv, TypedInv
    <2>8. \A k : WasReceived(k) => WasReceived(k)'
      BY <1>1 DEF WasReceived
    <2> QED BY <1>1, <1>4, <2>1, <2>2, <2>3, <2>4, <2>5, <2>7, <2>8 DEF IInv, TypedInv
  <1>9. FiledInv'
    BY <1>1, <1>4 DEF IInv, FiledInv
  <1> QED BY <1>2, <1>3, <1>6, <1>7, <1>8, <1>9 DEF IInv

(* The end of the send branch converts under a type that is there.          *)
LEMMA SendStorePreserves ==
    ASSUME IInv, SendStore
    PROVE  IInv' /\ UNCHANGED type_register
  <1>1. /\ main_pc = "send_store" /\ main_pc' = "read"
        /\ UNCHANGED <<tableVars, queueVars, fr, frame_sync_counter, received, rest_pc>>
    BY DEF SendStore
  <1> DEFINE m == [frame |-> msg.frame, sync_tick |-> 0, hash |-> msg.hash]
  <1>2. m \in CAN_MESSAGE /\ KeyOf(m) = KeyOf(msg)
    BY <1>1, MsgType DEF IInv, Sending, Queued, CAN_MESSAGE, KeyOf
  <1>3. Converts(MainThread, m)
    BY ConvertPlain DEF SendStore
  <1>4. TableInv' /\ QueueInv' /\ ConvInv' /\ UNCHANGED <<reg_pc, reg_send>>
    BY <1>1, <1>2, <1>3, TableSame, QueueSame, ConvConvert DEF IInv
  <1> HIDE DEF m
  <1>5. UNCHANGED <<mp, put_pc, put_msg, get_pc, answer, taken, deq_pc>> /\ msg' = msg
    BY <1>1 DEF tableVars, queueVars, msg
  <1>6. type_register' = type_register /\ \A r \in Readers : json'[r] = json[r]
    <2>1. type_register[KeyOf(m)] # None
      BY <1>1, <1>2 DEF IInv, TypedInv
    <2> QED BY <1>3, <2>1, ThreadsAssumption DEF Converts, IInv, ConvInv
  <1>7. put_msg = None
    BY <1>1 DEF IInv, MainInv, TableInv
  <1>8. MainInv' /\ ReaderInv'
    BY <1>1, <1>4, <1>5, <1>7 DEF IInv, MainInv, ReaderInv, Receiving, Sending
  <1>9. TickInv' /\ OriginInv' /\ ShownAsSent'
    BY <1>1, <1>5, <1>6 DEF IInv, TickInv, OriginInv, ShownAsSent, Genuine, Known, Receiving
  <1>10. TypedInv' /\ FiledInv'
    BY <1>1, <1>5, <1>6 DEF IInv, TypedInv, FiledInv, WasReceived, Entered, Receiving
  <1> QED BY <1>4, <1>6, <1>8, <1>9, <1>10 DEF IInv

(* GET /receive, up to the answer, and GET /list.                           *)
LEMMA RestGetPreserves ==
    ASSUME IInv, NEW r \in Readers, RestGet(r) \/ RestList(r)
    PROVE  IInv'
  <1>1. UNCHANGED <<queueVars, convVars, mainVars>>
    BY DEF RestGet, RestList
  <1>2. /\ UNCHANGED putVars
        /\ \/ GetCalls(r) /\ rest_pc' = [rest_pc EXCEPT ![r] = "get"]
           \/ GetFinds(r) /\ rest_pc[r] = "get" /\ rest_pc' = [rest_pc EXCEPT ![r] = "get"]
           \/ GetReturns(r) /\ rest_pc[r] = "get"
              /\ rest_pc' = [rest_pc EXCEPT ![r] = IF answer'[r] # None THEN "convert" ELSE "idle"]
           \/ GetLists(r) /\ rest_pc' = rest_pc
    <2>1. get_pc \in [Readers -> {"idle", "check", "read"}]
      BY DEF IInv, TableInv
    <2>2. CASE RestList(r)
      BY <2>2, ListPlain DEF RestList
    <2>3. CASE rest_pc[r] = "idle" /\ (\E k \in Key : Table!GetCall(r, k))
               /\ rest_pc' = [rest_pc EXCEPT ![r] = "get"]
      BY <2>3, GetCallPlain
    <2>4. CASE /\ rest_pc[r] = "get"
               /\ Table!GetCheck(r) \/ Table!GetRead(r)
               /\ rest_pc' = [rest_pc EXCEPT ![r] =
                            IF get_pc'[r] # "idle" THEN "get"
                            ELSE IF answer'[r] # None THEN "convert" ELSE "idle"]
      <3>1. UNCHANGED putVars /\ (GetFinds(r) \/ GetReturns(r))
        BY <2>4, GetPlain DEF IInv
      <3> QED BY <2>1, <2>4, <3>1 DEF GetFinds, GetReturns
    <2> QED BY <2>2, <2>3, <2>4 DEF RestGet
  <1>3. TableInv' /\ QueueInv' /\ ConvInv'
    BY <1>1, <1>2, TableGet, QueueSame, ConvSame DEF IInv
  <1>4. /\ UNCHANGED <<mp, put_pc, put_msg, taken, deq_pc, reg_pc, reg_send, type_register, json>>
        /\ UNCHANGED <<main_pc, fr, frame_sync_counter, received>> /\ msg' = msg
    BY <1>1, <1>2 DEF putVars, queueVars, convVars, mainVars, msg
  <1>5. /\ answer' = answer
        \/ /\ get_key[r] \in Key
           /\ answer' = [answer EXCEPT ![r] = mp[get_key[r]]]
    <2>1. get_pc[r] # "idle" => get_key[r] \in Key
      BY DEF IInv, TableInv
    <2> QED BY <1>2, <2>1 DEF GetCalls, GetFinds, GetReturns, GetLists
  <1>6. MainInv'
    BY <1>4 DEF IInv, MainInv
  <1>7. ReaderInv'
    <2>1. get_pc \in [Readers -> {"idle", "check", "read"}] /\ answer \in [Readers -> Entry]
      BY DEF IInv, TableInv
    <2> QED BY <1>2, <2>1 DEF IInv, ReaderInv, GetCalls, GetFinds, GetReturns, GetLists
  <1>8. TickInv' /\ ShownAsSent' /\ FiledInv'
    BY <1>4 DEF IInv, TickInv, ShownAsSent, FiledInv
  <1>9. \A q \in Readers : answer'[q] = answer[q] \/ \E k \in Key : answer'[q] = mp[k]
    BY <1>5 DEF IInv, TableInv
  <1>10. OriginInv'
    <2>1. \A x : Genuine(x) => Genuine(x)'
      BY <1>4 DEF Genuine, Known
    <2>2. \A q \in Readers : Genuine(answer'[q])
      BY <1>9 DEF IInv, OriginInv
    <2> QED BY <1>4, <2>1, <2>2 DEF IInv, OriginInv
  <1>11. TypedInv'
    <2>1. \A k : (Entered(k) <=> Entered(k)') /\ (WasReceived(k) <=> WasReceived(k)')
      BY <1>4 DEF Entered, WasReceived
    <2>2. \A q \in Readers : answer'[q] # None => Entered(KeyOf(answer'[q]))
      BY <1>9 DEF IInv, TypedInv, TableInv
    <2> QED BY <1>4, <2>1, <2>2 DEF IInv, TypedInv
  <1> QED BY <1>3, <1>6, <1>7, <1>8, <1>10, <1>11 DEF IInv

(* The conversion of GET /receive: an id it enters was received, and only   *)
(* such an id, or one configured so, is shown as RAW.                       *)
LEMMA RestConvertPreserves ==
    ASSUME IInv, NEW r \in Readers, RestConvert(r)
    PROVE  IInv'
  <1> DEFINE m == answer[r]
  <1>1. /\ rest_pc[r] = "convert" /\ rest_pc' = [rest_pc EXCEPT ![r] = "idle"]
        /\ UNCHANGED <<tableVars, queueVars, mainVars>>
    BY DEF RestConvert
  <1>2. m \in CAN_MESSAGE /\ m # None /\ KeyOf(m) \in Key /\ m.frame \in CanFrame
    <2>1. m \in CAN_MESSAGE /\ m # None
      BY <1>1 DEF IInv, ReaderInv, TableInv, Entry
    <2> QED BY <2>1 DEF KeyOf, CAN_MESSAGE, CanFrame, Key
  <1>3. Converts(r, m)
    BY ConvertPlain DEF RestConvert
  <1>4. TableInv' /\ QueueInv' /\ ConvInv' /\ UNCHANGED <<reg_pc, reg_send>>
    BY <1>1, <1>2, <1>3, TableSame, QueueSame, ConvConvert DEF IInv
  <1>5. /\ UNCHANGED <<mp, put_pc, put_msg, get_pc, answer, taken, deq_pc>>
        /\ UNCHANGED <<main_pc, fr, frame_sync_counter, received>> /\ msg' = msg
    BY <1>1 DEF tableVars, queueVars, mainVars, msg
  <1>6. Entered(KeyOf(m))
    BY <1>2 DEF IInv, TypedInv
  <1>7. /\ \A k \in Key : type_register'[k] = IF k = KeyOf(m) /\ type_register[k] = None
                                              THEN "NONE" ELSE type_register[k]
        /\ json' = [json EXCEPT ![r] = Conv!Json(m)]
        /\ DOMAIN json = Readers \cup {MainThread}
    BY <1>2, <1>3 DEF Converts, IInv, ConvInv
  <1>8. type_register[KeyOf(m)] = None => main_pc \in Receiving /\ WasReceived(KeyOf(m))
    <2> SUFFICES ASSUME type_register[KeyOf(m)] = None
                 PROVE  main_pc \in Receiving /\ WasReceived(KeyOf(m))
      OBVIOUS
    <2>1. main_pc \in Receiving /\ U16(fr.id) = KeyOf(m)
      BY <1>6 DEF Entered
    <2>2. /\ received # <<>> /\ received[Len(received)] = Message(fr, frame_sync_counter)
          /\ received \in Seq(CAN_MESSAGE)
      BY <2>1 DEF IInv, TickInv, MainInv
    <2>3. Len(received) \in DOMAIN received
      BY <2>2
    <2> QED BY <2>1, <2>2, <2>3 DEF WasReceived, KeyOf, Message
  <1> HIDE DEF m
  <1>9. MainInv'
    BY <1>4, <1>5 DEF IInv, MainInv
  <1>10. ReaderInv'
    BY <1>1, <1>5 DEF IInv, ReaderInv
  <1>11. TickInv' /\ OriginInv' /\ FiledInv'
    BY <1>5 DEF IInv, TickInv, OriginInv, Genuine, Known, FiledInv
  <1>12. TypedInv'
    <2>1. \A k : WasReceived(k) <=> WasReceived(k)'
      BY <1>5 DEF WasReceived
    <2>2. \A k \in Key : Entered(k) => Entered(k)'
      BY <1>5, <1>7, NoneAssumption DEF Entered, CONVERSATION_TYPE
    <2>3. \A q \in Readers : answer[q] # None => KeyOf(answer[q]) \in Key
      BY DEF IInv, TableInv, Entry, KeyOf, CAN_MESSAGE, CanFrame, Key
    <2>4. \A q \in Readers : answer'[q] # None => Entered(KeyOf(answer[q]))'
      BY <1>5, <2>2, <2>3 DEF IInv, TypedInv
    <2>5. \A k \in Key : type_register'[k] = "NONE" => WasReceived(k)'
      BY <1>7, <1>8, <2>1 DEF IInv, TypedInv
    <2>6. main_pc \in Sending => KeyOf(msg) \in Key
      BY MsgType DEF IInv
    <2>7. /\ main_pc \in {"send_put", "send_store"} => type_register'[KeyOf(msg)] # None
          /\ main_pc = "send_register" => type_register'[KeyOf(msg)] = None
      BY <1>7, <1>8, <2>6 DEF IInv, TypedInv, Sending, Receiving
    <2> QED BY <1>5, <1>7, <2>1, <2>2, <2>4, <2>5, <2>7 DEF IInv, TypedInv
  <1>13. ShownAsSent'
    <2>1. Conv!Json(m).type = Conv!EffectiveType(KeyOf(m)) /\ Conv!Json(m).frame.id = m.frame.id
      BY <1>2, SameInConv DEF Conv!Json, KeyOf, CanFrame
    <2>2. Conv!EffectiveType(KeyOf(m)) = "RAW" =>
             Conv!Configured[KeyOf(m)] = "RAW" \/ WasReceived(KeyOf(m))
      BY <1>2, <1>8 DEF Conv!EffectiveType, IInv, TypedInv
    <2>3. Conv!Json(m).type = "RAW" =>
             \/ Conv!Configured[U16(Conv!Json(m).frame.id)] = "RAW"
             \/ \E i \in DOMAIN received : U16(received[i].frame.id) = U16(Conv!Json(m).frame.id)
      BY <2>1, <2>2 DEF KeyOf, WasReceived
    <2>4. \A q \in Readers : json'[q] = IF q = r THEN Conv!Json(m) ELSE json[q]
      BY <1>7
    <2> QED BY <1>5, <2>3, <2>4 DEF IInv, ShownAsSent
  <1> QED BY <1>4, <1>9, <1>10, <1>11, <1>12, <1>13 DEF IInv

-------------------------------------------------------------------------------
(* Every step of the gateway preserves the invariant.                       *)
LEMMA StepPreserves == IInv /\ [Next]_vars => IInv'
  <1> SUFFICES ASSUME IInv, [Next]_vars PROVE IInv'
    OBVIOUS
  <1>1. ASSUME NEW frame \in BusFrames, Receive(frame) PROVE IInv'
    BY <1>1, DropPreserves, AcceptPreserves
  <1>2. CASE ReadTimeout
    BY <1>2, LoopPreserves
  <1>3. CASE GotPut
    BY <1>3, PutPreserves DEF GotPut
  <1>4. CASE GotStore
    BY <1>4, GotStorePreserves
  <1>5. CASE PollQueue
    BY <1>5, LoopPreserves
  <1>6. CASE Dequeue
    BY <1>6, LoopPreserves
  <1>7. CASE WriteSocket
    BY <1>7, LoopPreserves
  <1>8. CASE SendCheck
    BY <1>8, SendCheckPreserves
  <1>9. CASE SendRegister
    BY <1>9, SendRegisterPreserves
  <1>10. CASE SendPut
    BY <1>10, SendPutPreserves
  <1>11. CASE SendStore
    BY <1>11, SendStorePreserves
  <1>12. ASSUME NEW r \in Readers, RestGet(r) \/ RestConvert(r) \/ RestList(r) PROVE IInv'
    BY <1>12, RestGetPreserves, RestConvertPreserves
  <1>13. ASSUME NEW w \in Workers, RestSend(w) PROVE IInv'
    BY <1>13, RestSendPreserves
  <1>14. CASE UNCHANGED vars
    <2>1. /\ UNCHANGED <<tableVars, convVars, queueVars, fr, frame_sync_counter, received, rest_pc>>
          /\ UNCHANGED main_pc
      BY <1>14 DEF vars, mainVars
    <2>2. QueueInv' /\ UNCHANGED <<taken, put_pc, put_msg, deq_pc, reg_pc, reg_send>> /\ msg' = msg
      BY <2>1, QueueSame DEF IInv, tableVars, queueVars, convVars, msg
    <2>3. MainInv'
      BY <2>1, <2>2 DEF IInv, MainInv
    <2> QED BY <2>1, <2>2, <2>3, ControlPreserves
  <1> QED BY <1>1, <1>2, <1>3, <1>4, <1>5, <1>6, <1>7, <1>8, <1>9, <1>10, <1>11, <1>12,
             <1>13, <1>14 DEF Next, Read, MainStep

(* The inductive invariant holds throughout.                                *)
THEOREM Invariance == Spec => []IInv
  BY InitEstablishes, StepPreserves, PTL DEF Spec

(* The three components keep their types inside the gateway, and main is in *)
(* one of them exactly where its loop says so.                              *)
THEOREM TypeCorrect == Spec => []TypeOK
  <1>1. IInv => TypeOK
    <2> SUFFICES ASSUME IInv PROVE TypeOK
      OBVIOUS
    <2>1. Table!TypeOK
      BY SameInTable DEF IInv, TableInv, Table!TypeOK, Table!Entry, Entry
    <2>2. Queue!TypeOK
      BY SameInQueue DEF IInv, QueueInv, Queue!TypeOK
    <2>3. Conv!TypeOK
      BY SameInConv, SameInQueue DEF IInv, ConvInv, Conv!TypeOK
    <2>4. /\ main_pc \in {"read", "got_put", "got_store", "poll", "dequeue", "write",
                          "send_check", "send_register", "send_put", "send_store"}
          /\ fr \in CanFrame \cup NoFrame
          /\ frame_sync_counter \in Nat
          /\ received \in Seq(CAN_MESSAGE)
          /\ put_pc # "idle" => main_pc \in {"got_put", "send_put"}
          /\ deq_pc # "poll" <=> main_pc = "dequeue"
          /\ reg_pc = "register" <=> main_pc = "send_register"
      BY DEF IInv, MainInv, Receiving, Sending
    <2>5. rest_pc \in [Readers -> {"idle", "get", "convert"}]
      BY DEF IInv, ReaderInv
    <2> QED BY <2>1, <2>2, <2>3, <2>4, <2>5 DEF TypeOK
  <1> QED BY <1>1, Invariance, PTL

(* frame_sync_counter orders the frames received, across sync frames and    *)
(* sends.                                                                   *)
THEOREM TicksOrder == Spec => []TicksOrderFrames
  <1>1. IInv => TicksOrderFrames
    BY DEF IInv, TickInv, TicksOrderFrames, Receiving
  <1> QED BY <1>1, Invariance, PTL

(* GET /receive answers frames that were received or sent, with the digest  *)
(* put computed of them, never the one the workers garbled.                 *)
THEOREM AnswersAreHonest == Spec => []HonestAnswers
  <1>1. IInv => HonestAnswers
    BY DEF IInv, OriginInv, Genuine, Known, HonestAnswers
  <1> QED BY <1>1, Invariance, PTL

(* An id that only clients send is never shown as RAW for want of a type.   *)
THEOREM SentAreShownTyped == Spec => []ShownAsSent
  <1>1. IInv => ShownAsSent
    BY DEF IInv
  <1> QED BY <1>1, Invariance, PTL

(* No step of any thread removes an entry of the table or replaces it by    *)
(* one with a smaller tick.                                                 *)
LEMMA EntriesMoveForward ==
    ASSUME IInv, [Next]_vars
    PROVE  \A k \in Key : mp[k] # None => /\ mp'[k] # None
                                          /\ mp[k].sync_tick <= mp'[k].sync_tick
  <1> DEFINE Forward == \A k \in Key : mp[k] # None => /\ mp'[k] # None
                                                      /\ mp[k].sync_tick <= mp'[k].sync_tick
  <1>1. mp' = mp => Forward
    <2>1. \A k \in Key : mp[k] # None => mp[k].sync_tick \in Nat
      BY DEF IInv, TableInv, Entry, CAN_MESSAGE
    <2> QED BY <2>1
  <1>2. CASE GotPut
    BY <1>2, PutPreserves DEF GotPut
  <1>3. CASE SendPut
    BY <1>3, SendPutPreserves
  <1>4. ASSUME NEW frame \in BusFrames, Receive(frame) PROVE mp' = mp
    BY <1>4 DEF Receive, Table!PutCall, tableVars
  <1>5. CASE \/ ReadTimeout \/ GotStore \/ PollQueue \/ Dequeue \/ WriteSocket
             \/ SendCheck \/ SendRegister \/ SendStore
    BY <1>1, <1>5 DEF ReadTimeout, GotStore, PollQueue, Dequeue, WriteSocket, SendCheck,
                      SendRegister, SendStore, tableVars
  <1>6. ASSUME NEW r \in Readers, RestGet(r) \/ RestConvert(r) \/ RestList(r) PROVE mp' = mp
    <2>1. CASE RestGet(r)
      BY <2>1, GetPlain, GetCallPlain DEF RestGet, putVars, IInv
    <2>2. CASE RestConvert(r)
      BY <2>2 DEF RestConvert, tableVars
    <2>3. CASE RestList(r)
      BY <2>3, ListPlain DEF RestList, putVars
    <2> QED BY <1>6, <2>1, <2>2, <2>3
  <1>7. ASSUME NEW w \in Workers, RestSend(w) PROVE mp' = mp
    BY <1>7 DEF RestSend, tableVars
  <1>8. CASE UNCHANGED vars
    BY <1>1, <1>8 DEF vars, tableVars
  <1> QED BY <1>1, <1>2, <1>3, <1>4, <1>5, <1>6, <1>7, <1>8 DEF Next, Read, MainStep

(* What GET /receive answers for an id never goes back to an older frame,   *)
(* across all that main and the other workers do.                           *)
THEOREM ReadsMoveForward == Spec => ReadsNeverGoBack
  <1> DEFINE Forward ==
          \A k \in Key : mp[k] # None =>
              /\ mp'[k] # None
              /\ mp[k].sync_tick <= mp'[k].sync_tick
  <1>1. IInv /\ [Next]_vars => [Forward]_vars
    BY EntriesMoveForward
  <1>2. Spec => [][Forward]_vars
    BY <1>1, Invariance, PTL DEF Spec
  <1> QED BY <1>2 DEF ReadsNeverGoBack

-------------------------------------------------------------------------------
(* Inside the gateway the components do only what their own modules allow:  *)
(* what is proved of the table, of the queue's safety and of the type       *)
(* register alone holds of them here.                                       *)
LEMMA TableSteps == IInv /\ [Next]_vars => [Table!Next]_(Table!vars)
  <1> SUFFICES ASSUME IInv, Next PROVE [Table!Next]_(Table!vars)
    BY DEF vars, tableVars, Table!vars, Table!putVars, Table!getVars
  <1>1. UNCHANGED tableVars => UNCHANGED Table!vars
    BY DEF tableVars, Table!vars, Table!putVars, Table!getVars
  <1>2. ASSUME NEW frame \in BusFrames, Receive(frame)
        PROVE  Table!Next \/ UNCHANGED tableVars
    <2>1. ReadInto(fr, frame) \in CanFrame /\ frame_sync_counter \in Nat
      BY ReadIntoType DEF IInv, MainInv
    <2> QED BY <1>2, <2>1 DEF Receive, Table!Next, Table!Put
  <1>3. CASE GotPut
    BY <1>3 DEF GotPut, PutUntil, Table!Next, Table!Put
  <1>4. CASE SendPut
    <2>1. msg.frame \in CanFrame /\ frame_sync_counter \in Nat
      BY <1>4, MsgType DEF SendPut, Sending, Queued, IInv, MainInv
    <2> QED BY <1>4, <2>1 DEF SendPut, PutUntil, Table!Next, Table!Put
  <1>5. CASE \/ ReadTimeout \/ GotStore \/ PollQueue \/ Dequeue \/ WriteSocket
             \/ SendCheck \/ SendRegister \/ SendStore
    BY <1>1, <1>5 DEF ReadTimeout, GotStore, PollQueue, Dequeue, WriteSocket, SendCheck,
                      SendRegister, SendStore
  <1>6. ASSUME NEW r \in Readers, RestGet(r) \/ RestConvert(r) \/ RestList(r)
        PROVE  Table!Next \/ UNCHANGED tableVars
    BY <1>6, SameInTable DEF RestGet, RestConvert, RestList, Table!Next, Table!Get
  <1>7. ASSUME NEW w \in Workers, RestSend(w) PROVE UNCHANGED tableVars
    BY <1>7 DEF RestSend
  <1> QED BY <1>1, <1>2, <1>3, <1>4, <1>5, <1>6, <1>7 DEF Next, Read, MainStep

LEMMA QueueSteps == [Next]_vars => [Queue!Next]_(Queue!vars)
  <1> SUFFICES ASSUME Next PROVE [Queue!Next]_(Queue!vars)
    BY DEF vars, queueVars, Queue!vars, Queue!sendVars, Queue!deqVars
  <1>1. UNCHANGED queueVars => UNCHANGED Queue!vars
    BY DEF queueVars, Queue!vars, Queue!sendVars, Queue!deqVars
  <1>2. ASSUME NEW frame \in BusFrames, Receive(frame) PROVE UNCHANGED queueVars
    BY <1>2 DEF Receive
  <1>3. CASE PollQueue \/ Dequeue
    BY <1>1, <1>3 DEF PollQueue, Dequeue, Queue!Next, Queue!Main
  <1>4. CASE \/ ReadTimeout \/ GotPut \/ GotStore \/ WriteSocket
             \/ SendCheck \/ SendRegister \/ SendPut \/ SendStore
    BY <1>1, <1>4 DEF ReadTimeout, GotPut, GotStore, WriteSocket, SendCheck, SendRegister,
                      SendPut, SendStore
  <1>5. ASSUME NEW r \in Readers, RestGet(r) \/ RestConvert(r) \/ RestList(r)
        PROVE  UNCHANGED queueVars
    BY <1>5 DEF RestGet, RestConvert, RestList
  <1>6. ASSUME NEW w \in Workers, RestSend(w) PROVE Queue!Next
    BY <1>6 DEF RestSend, Queue!Next
  <1> QED BY <1>1, <1>2, <1>3, <1>4, <1>5, <1>6 DEF Next, Read, MainStep

LEMMA ConvSteps == IInv /\ [Next]_vars => [Conv!Next]_(Conv!vars)
  <1> SUFFICES ASSUME IInv, Next PROVE [Conv!Next]_(Conv!vars)
    BY DEF vars, convVars, Conv!vars
  <1>1. UNCHANGED convVars => UNCHANGED Conv!vars
    BY DEF convVars, Conv!vars
  <1>2. ASSUME NEW frame \in BusFrames, Receive(frame) PROVE UNCHANGED convVars
    BY <1>2 DEF Receive
  <1>3. CASE GotStore
    <2>1. fr \in CanFrame /\ frame_sync_counter \in Nat
      BY <1>3 DEF GotStore, IInv, MainInv, Receiving
    <2>2. conv_msg \in CAN_MESSAGE
      BY <2>1, MessageType, SameInTable DEF conv_msg, Table!NewMessage, Message
    <2> QED BY <1>3, <2>2 DEF GotStore, Conv!Next
  <1>4. CASE SendStore
    <2>1. [frame |-> msg.frame, sync_tick |-> 0, hash |-> msg.hash] \in CAN_MESSAGE
      BY <1>4, MsgType DEF SendStore, IInv, Sending, Queued, CAN_MESSAGE
    <2> QED BY <1>4, <2>1 DEF SendStore, Conv!Next
  <1>5. CASE SendCheck
    <2>1. <<U16(msg.frame.id), msg.type>> \in Key \X Queue!SendType
      BY <1>5, MsgType, SameInQueue DEF SendCheck, IInv, Sending, Queued, KeyOf
    <2> QED BY <1>5, <2>1 DEF SendCheck, Conv!Next
  <1>6. CASE SendRegister
    BY <1>6 DEF SendRegister, Conv!Next
  <1>7. CASE ReadTimeout \/ GotPut \/ PollQueue \/ Dequeue \/ WriteSocket \/ SendPut
    BY <1>1, <1>7 DEF ReadTimeout, GotPut, PollQueue, Dequeue, WriteSocket, SendPut
  <1>8. ASSUME NEW r \in Readers, RestConvert(r) PROVE Conv!Next
    <2>1. answer[r] \in CAN_MESSAGE
      BY <1>8 DEF RestConvert, IInv, ReaderInv, TableInv, Entry
    <2> QED BY <1>8, <2>1 DEF RestConvert, Conv!Next
  <1>9. ASSUME NEW r \in Readers, RestGet(r) \/ RestList(r) PROVE UNCHANGED convVars
    BY <1>9 DEF RestGet, RestList
  <1>10. ASSUME NEW w \in Workers, RestSend(w) PROVE UNCHANGED convVars
    BY <1>10 DEF RestSend
  <1> QED BY <1>1, <1>2, <1>3, <1>4, <1>5, <1>6, <1>7, <1>8, <1>9, <1>10
          DEF Next, Read, MainStep

(* An entry of the type register never changes, not even one without a      *)
(* type: what is filed was entered before, so that main never registers an  *)
(* id a worker may have met.                                                *)
LEMMA EntriesKeepTheirType ==
    ASSUME IInv, [Next]_vars
    PROVE  \A k \in Key : type_register[k] # None => type_register'[k] = type_register[k]
  <1>1. \A c, m : m \in CAN_MESSAGE /\ Conv!ConvertFrame(c, m) =>
           \A k \in Key : type_register[k] # None => type_register'[k] = type_register[k]
    <2> SUFFICES ASSUME NEW c, NEW m \in CAN_MESSAGE, Conv!ConvertFrame(c, m),
                        NEW k \in Key, type_register[k] # None
                 PROVE  type_register'[k] = type_register[k]
      OBVIOUS
    <2> QED BY ConvertPlain DEF Converts, IInv, ConvInv
  <1>2. CASE Conv!Next
    <2>1. CASE Conv!SendRegister
      <3>1. /\ reg_pc = "register" /\ reg_send \in Key \X SendType
            /\ type_register' = [type_register EXCEPT ![reg_send[1]] = reg_send[2]]
        BY <2>1, ConvRegister DEF IInv
      <3>2. type_register[reg_send[1]] = None
        BY <3>1 DEF IInv, MainInv, TypedInv
      <3> QED BY <3>1, <3>2 DEF IInv, ConvInv
    <2>2. CASE ~Conv!SendRegister
      BY <1>1, <1>2, <2>2 DEF Conv!Next, Conv!SendCheck
    <2> QED BY <2>1, <2>2
  <1>3. CASE UNCHANGED Conv!vars
    BY <1>3 DEF Conv!vars
  <1> QED BY <1>2, <1>3, ConvSteps

(* The constants the gateway gives its components meet what their modules   *)
(* assume of them.                                                          *)
LEMMA ComponentAssumptions ==
    /\ None \notin Table!CAN_MESSAGE /\ None \notin Table!Key /\ CanFrame \subseteq Table!CanFrame
    /\ MaxSends \in Nat /\ Requests \subseteq Queue!Request
    /\ \A req \in Requests : <<0, Queue!U16(req.id)>> \in Ids /\ Queue!Encode(req) \in Seq(Byte)
    /\ None \notin Conv!CONVERSATION_TYPE
    /\ Config \in [Conv!Key -> (Conv!CONVERSATION_TYPE \ {"NONE"}) \cup {None}]
    /\ Key \X Queue!SendType \subseteq Conv!Key \X {"INT", "BOOL", "STR", "BYTE"}
    /\ None \notin Key \X Queue!SendType
    /\ CAN_MESSAGE \subseteq Conv!CAN_MESSAGE
  <1>1. CanFrame \subseteq Table!CanFrame
    BY DEF Table!CanFrame, Table!Buffer, CanFrame, Buffer
  <1>2. Conv!CAN_MESSAGE = CAN_MESSAGE
    BY SameMessages
  <1>3. Key \X Queue!SendType = Conv!Key \X {"INT", "BOOL", "STR", "BYTE"}
    BY SameInConv, SameInQueue DEF SendType
  <1>4. \A req \in Requests : <<0, Queue!U16(req.id)>> \in Ids /\ Queue!Encode(req) \in Seq(Byte)
    BY CallsAssumption, SameInQueue
  <1> QED BY <1>1, <1>2, <1>3, <1>4, SameInTable, SameInConv, NoneAssumption, CallsAssumption,
             ConfigAssumption, BoundsAssumption

(* The gateway runs its table and its type register as CanHashtable and     *)
(* FrameToJson specify them, and its queue as FrameSendQueue does, without  *)
(* fairness: main and all workers call the components as those modules      *)
(* assume.                                                                  *)
THEOREM ComponentsAreUsedAsSpecified ==
    Spec => Table!Spec /\ Conv!Spec /\ Queue!Init /\ [][Queue!Next]_(Queue!vars)
  <1>1. Init => Table!Init /\ Queue!Init /\ Conv!Init
    BY DEF Init
  <1> QED BY <1>1, Invariance, TableSteps, QueueSteps, ConvSteps, PTL
          DEF Spec, Table!Spec, Conv!Spec
===============================================================================
