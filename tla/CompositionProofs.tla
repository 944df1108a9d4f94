--------------------------- MODULE CompositionProofs ---------------------------
(***************************************************************************)
(* The gateway under the handlers of rest_api, and the gateway with the    *)
(* Redis writer: both take only steps of the gateway, so that all that is  *)
(* proved of it holds of them.  For any ids, frames and errors of the      *)
(* Redis client, what Redis has been told, what it holds and what GET      *)
(* /receive answers are of one frame; and for any bodies and frames on the *)
(* bus, POST /send and GET /receive implement ValueStore for the ids that  *)
(* only clients write.                                                     *)
(***************************************************************************)
EXTENDS RestApi, RedisGateway, GatewayProofs

(* Every step of the REST handlers is a step of the gateway or leaves it    *)
(* alone.                                                                   *)
LEMMA RestSteps == [RestNext]_<<vars, restVars>> => [Next]_vars
  <1> SUFFICES ASSUME RestNext PROVE [Next]_vars
    OBVIOUS
  <1>1. CASE Read \/ MainStep
    BY <1>1 DEF Next
  <1>2. ASSUME NEW r \in Readers, Get(r) PROVE Next
    BY <1>2 DEF Get, Next
  <1>3. ASSUME NEW w \in Workers, NEW b \in Bodies, PostRefused(w, b) \/ PostIgnored(w, b)
        PROVE  UNCHANGED vars
    BY <1>3 DEF PostRefused, PostIgnored
  <1>4. ASSUME NEW w \in Workers, NEW b \in Bodies, PostEnqueue(w, b) PROVE Next
    <2>1. CallOf(b) \in Requests
      BY <1>4, BodyCallsAssumption DEF PostEnqueue
    <2>2. Queue!Worker(w)
      BY <1>4, <2>1, SameInQueue DEF PostEnqueue, Queue!Worker
    <2> QED BY <1>4, <2>2 DEF PostEnqueue, RestSend, Next
  <1>5. ASSUME NEW w \in Workers, PostPush(w) PROVE Next
    BY <1>5 DEF PostPush, RestSend, Queue!Worker, Next
  <1> QED BY <1>1, <1>2, <1>3, <1>4, <1>5 DEF RestNext, Post

(* rest_api uses the gateway as Gateway allows it: the handlers only choose *)
(* what is enqueued, in the order of the workers' steps.                    *)
THEOREM RestImplementsGateway == RestSpec => Spec
  <1>1. RestInit => Init
    BY DEF RestInit
  <1> QED BY <1>1, RestSteps, PTL DEF RestSpec, Spec

(* So do the loop, the workers and the update thread of the gateway with    *)
(* Redis.                                                                   *)
LEMMA RedisSteps == [RedisNext]_allVars => [Next]_vars
  <1> SUFFICES ASSUME [RedisNext]_allVars PROVE [Next]_vars
    OBVIOUS
  <1>1. CASE MainLoop
    BY <1>1 DEF MainLoop, Store, Next, MainStep
  <1>2. CASE RedisThreads
    BY <1>2 DEF RedisThreads
  <1>3. CASE Http
    BY <1>3 DEF Http, Next
  <1>4. CASE UNCHANGED allVars
    BY <1>4 DEF allVars
  <1> QED BY <1>1, <1>2, <1>3, <1>4 DEF RedisNext

(* The gateway with Redis is a gateway: no order of the update thread's     *)
(* steps and no Redis error changes what the loop and the workers do.       *)
THEOREM RedisImplementsGateway == RedisSpec => Spec
  <1>1. RedisInit => Init
    BY DEF RedisInit
  <1> QED BY <1>1, RedisSteps, PTL DEF RedisSpec, Spec

(* With the whole POST handler in front of the queue, GET still answers only *)
(* with real frames and shows a sent value with the type it was sent with.  *)
THEOREM RestIsSound == RestSpec => [](TypeOK /\ ShownAsSent /\ HonestAnswers)
  BY RestImplementsGateway, TypeCorrect, SentAreShownTyped, AnswersAreHonest, PTL

(* With the Redis writer behind store_frame the sync ticks still order the  *)
(* frames, and a client's GETs of one id never go back.                     *)
THEOREM RedisTicksOrder == RedisSpec => []TicksOrderFrames /\ ReadsNeverGoBack
  BY RedisImplementsGateway, TicksOrder, ReadsMoveForward, PTL

(* The table shows the tick at which the present payload of a key came up.  *)
THEOREM TicksAreOfTheChange == RedisSpec => []TickIsOfTheChange
  <1>1. IInv => TickIsOfTheChange
    BY DEF IInv, FiledInv, TickIsOfTheChange, KeyOf
  <1> QED BY <1>1, RedisImplementsGateway, Invariance, PTL

-------------------------------------------------------------------------------
(* The JSON documents of messages, and the latest one of a field.           *)
DocumentOf(type, m) ==
    [type    |-> type,
     frame   |-> [m.frame EXCEPT !.data = Conv!Memcpy([i \in 1 .. BufLen |-> 0],
                                                      Conv!Payload(m.frame))],
     tick    |-> m.sync_tick,
     hash    |-> IF m.hash = Conv!NoHash THEN Conv!Sha256(Conv!Payload(m.frame)) ELSE m.hash,
     payload |-> Conv!Decode(type, m.frame)]

Documents == {DocumentOf(type, m) : type \in CONVERSATION_TYPE, m \in CAN_MESSAGE}

Latest(f) == given[f][stored[f]]

(* Versions of a field: none is newer than the last one stored, wherever    *)
(* the Redis writer has it, and each has its document.                      *)
VersionInv ==
    /\ write_map \in [Ids -> Nat] /\ write_map_tmp \in [Ids -> Nat]
    /\ hash \in [Ids -> Nat] /\ notified \in [Ids -> Nat] /\ stored \in [Ids -> Nat]
    /\ \A f \in Ids : /\ write_map[f] <= stored[f] /\ write_map_tmp[f] <= stored[f]
                      /\ hash[f] <= stored[f] /\ notified[f] <= stored[f]

GivenInv == /\ given \in [Ids -> Seq(Documents)]
            /\ \A f \in Ids : Len(given[f]) = stored[f]

(* Main has filed a frame of field f and is about to store it. *)
Storing(f) == \/ main_pc = "got_store" /\ fr.id = f
              \/ main_pc = "send_store" /\ msg.frame.id = f

(* What was stored is in the table, under a type for good; what is in the   *)
(* table was stored, or is about to be.                                     *)
StoredInv ==
    \A f \in Ids :
        /\ stored[f] > 0 => /\ mp[U16(f)] # None /\ type_register[U16(f)] # None
                            /\ Latest(f).type = Conv!EffectiveType(U16(f))
        /\ mp[U16(f)] # None /\ mp[U16(f)].frame.id = f /\ ~Storing(f) =>
              stored[f] > 0 /\ Payload(Latest(f).frame) = Payload(mp[U16(f)].frame)

RedisInv == VersionInv /\ GivenInv /\ StoredInv

(* convert_frame keeps the payload and shows it under the id's type.        *)
LEMMA DocumentsOfMessages ==
    ASSUME NEW type, NEW m \in CAN_MESSAGE
    PROVE  /\ DocumentOf(type, m).type = type
           /\ Payload(DocumentOf(type, m).frame) = Payload(m.frame)
           /\ DocumentOf(type, m).payload = Conv!Decode(type, m.frame)
  <1>1. m.frame \in CanFrame /\ m.frame.len \in 0 .. BufLen /\ m.frame.data \in [1 .. BufLen -> Byte]
    BY DEF CAN_MESSAGE, CanFrame, Buffer
  <1>2. Conv!Payload(m.frame) \in Seq(Byte) /\ Len(Conv!Payload(m.frame)) = m.frame.len
    BY <1>1, BufLenAssumption DEF Conv!Payload
  <1> DEFINE d == Conv!Memcpy([i \in 1 .. BufLen |-> 0], Conv!Payload(m.frame))
  <1>3. \A i \in 1 .. m.frame.len : d[i] = m.frame.data[i]
    <2> SUFFICES ASSUME NEW i \in 1 .. m.frame.len PROVE d[i] = m.frame.data[i]
      OBVIOUS
    <2>1. i \in 1 .. BufLen /\ i <= Len(Conv!Payload(m.frame))
      BY <1>1, <1>2, BufLenAssumption
    <2>2. d[i] = Conv!Payload(m.frame)[i]
      BY <2>1 DEF Conv!Memcpy
    <2> QED BY <2>2 DEF Conv!Payload
  <1>4. DocumentOf(type, m).frame.len = m.frame.len /\ DocumentOf(type, m).frame.data = d
    BY <1>1 DEF DocumentOf, CanFrame
  <1>5. Payload(DocumentOf(type, m).frame) = Payload(m.frame)
    BY <1>3, <1>4 DEF Payload
  <1> QED BY <1>5 DEF DocumentOf

(* What convert_frame makes of a message is such a document, of its id's    *)
(* type.                                                                    *)
LEMMA JsonIsADocument ==
    ASSUME ConvInv, NEW m \in CAN_MESSAGE
    PROVE  /\ Conv!Json(m) \in Documents
           /\ Conv!Json(m).type = Conv!EffectiveType(KeyOf(m))
           /\ Payload(Conv!Json(m).frame) = Payload(m.frame)
  <1>1. Conv!Json(m) = DocumentOf(Conv!EffectiveType(KeyOf(m)), m)
    BY SameInConv DEF Conv!Json, DocumentOf, KeyOf
  <1>2. Conv!EffectiveType(KeyOf(m)) \in CONVERSATION_TYPE
    <2>1. KeyOf(m) \in Key
      BY DEF KeyOf, CAN_MESSAGE, CanFrame, Key
    <2> QED BY <2>1 DEF ConvInv, Conv!EffectiveType, CONVERSATION_TYPE
  <1> QED BY <1>1, <1>2, DocumentsOfMessages DEF Documents

(* Of frames that are as long as their type is wide, the value shown        *)
(* depends on the payload alone.                                            *)
LEMMA ValueIsOfThePayload ==
    ASSUME NEW type, NEW f \in CanFrame, NEW g \in CanFrame,
           Payload(f) = Payload(g), f.len >= Conv!Width(type)
    PROVE  Conv!Decode(type, f) = Conv!Decode(type, g)
  <1>1. f.len \in Nat /\ g.len \in Nat
    BY BufLenAssumption DEF CanFrame
  <1>2. 1 .. f.len = 1 .. g.len
    BY DEF Payload
  <1>3. f.len = g.len
    BY <1>1, <1>2
  <1>4. \A i \in 1 .. f.len : f.data[i] = g.data[i]
    BY <1>2 DEF Payload
  <1>5. CASE type = "INT"
    BY <1>1, <1>4, <1>5 DEF Conv!Decode, Conv!Width
  <1>6. CASE type \in {"BOOL", "BYTE"}
    BY <1>1, <1>4, <1>6 DEF Conv!Decode, Conv!Width
  <1>7. CASE type = "STR"
    <2>1. Conv!Payload(f) = Conv!Payload(g)
      BY DEF Payload, Conv!Payload
    <2> QED BY <1>7, <2>1 DEF Conv!Decode
  <1>8. CASE type \notin {"INT", "BOOL", "BYTE", "STR"}
    BY <1>8 DEF Conv!Decode
  <1> QED BY <1>5, <1>6, <1>7, <1>8

-------------------------------------------------------------------------------
(* Nothing is stored and nothing is in the table at first.                  *)
LEMMA RedisInitEstablishes == RedisInit => RedisInv
  <1> SUFFICES ASSUME RedisInit PROVE RedisInv
    OBVIOUS
  <1>1. Redis!Empty \in [Ids -> Nat] /\ \A f \in Ids : Redis!Empty[f] = 0
    BY DEF Redis!Empty
  <1>2. VersionInv /\ GivenInv
    BY <1>1 DEF RedisInit, Redis!Init, VersionInv, GivenInv
  <1>3. \A f \in Ids : U16(f) \in Key
    BY DEF Key
  <1>4. mp = [k \in Key |-> None]
    BY SameInTable DEF RedisInit, Init, Table!Init
  <1> QED BY <1>1, <1>2, <1>3, <1>4 DEF RedisInit, Redis!Init, StoredInv, RedisInv

(* Redis's side of store_frame: one more version, and a place in write_map  *)
(* if that was empty.                                                       *)
LEMMA VersionsStore ==
    ASSUME VersionInv, NEW f \in Ids, Redis!store_frame(f)
    PROVE  /\ VersionInv'
           /\ stored' = [stored EXCEPT ![f] = @ + 1]
  <1>1. /\ stored' = [stored EXCEPT ![f] = stored[f] + 1]
        /\ write_map' = write_map \/ write_map' = [write_map EXCEPT ![f] = stored[f] + 1]
        /\ UNCHANGED <<write_map_tmp, hash, notified>>
    BY DEF Redis!store_frame, Redis!Insert, Redis!threadVars
  <1> QED BY <1>1 DEF VersionInv

(* No step of the update thread, an error included, makes up a version.     *)
LEMMA VersionsMove ==
    ASSUME VersionInv, Redis!EnableService \/ Redis!UpdateThread
    PROVE  VersionInv' /\ stored' = stored
  <1>1. Redis!Empty \in [Ids -> Nat] /\ \A f \in Ids : Redis!Empty[f] = 0
    BY DEF Redis!Empty
  <1>2. /\ Redis!Merged \in [Ids -> Nat]
        /\ \A f \in Ids : Redis!Merged[f] = hash[f] \/ Redis!Merged[f] = write_map_tmp[f]
    BY DEF Redis!Merged, VersionInv
  <1>3. CASE Redis!EnableService \/ Redis!ThreadCheck \/ Redis!Connect
    BY <1>3 DEF Redis!EnableService, Redis!Spawn, Redis!SetRunning, Redis!ThreadCheck,
                Redis!Connect, Redis!threadVars, VersionInv
  <1>4. CASE Redis!Take
    BY <1>1, <1>4 DEF Redis!Take, VersionInv
  <1>5. CASE Redis!Hmset
    BY <1>2, <1>5 DEF Redis!Hmset, VersionInv
  <1>6. ASSUME NEW f \in Ids, Redis!Publish(f) PROVE VersionInv' /\ stored' = stored
    BY <1>6 DEF Redis!Publish, VersionInv
  <1>7. CASE Redis!BatchDone
    BY <1>1, <1>7 DEF Redis!BatchDone, VersionInv
  <1>8. CASE Redis!RedisError
    <2>1. hash' = hash \/ hash' = Redis!Merged
      BY <1>8 DEF Redis!RedisError
    <2> QED BY <1>1, <1>2, <1>8, <2>1 DEF Redis!RedisError, VersionInv
  <1> QED BY <1>3, <1>4, <1>5, <1>6, <1>7, <1>8 DEF Redis!UpdateThread

(* The effective type of an entry stays while the entry does.               *)
LEMMA EffectiveTypeStays ==
    ASSUME NEW k \in Key, type_register'[k] = type_register[k]
    PROVE  Conv!EffectiveType(k)' = Conv!EffectiveType(k)
  BY DEF Conv!EffectiveType

(* Outside the two stores, a new entry of the table is of the field that    *)
(* main is about to store, and main does not give up a store.               *)
LEMMA FilesBeforeItStores ==
    ASSUME IInv, [Next]_vars, ~GotStore, ~SendStore, NEW f \in Ids
    PROVE  \/ Storing(f)'
           \/ mp'[U16(f)] # None /\ mp'[U16(f)].frame.id # f
           \/ mp'[U16(f)] = mp[U16(f)] /\ ~Storing(f)
  <1> DEFINE Goal == \/ Storing(f)'
                     \/ mp'[U16(f)] # None /\ mp'[U16(f)].frame.id # f
                     \/ mp'[U16(f)] = mp[U16(f)] /\ ~Storing(f)
  <1>1. U16(f) \in Key /\ mp \in [Key -> Entry]
    BY DEF Key, IInv, TableInv
  <1>2. CASE mp' = mp /\ main_pc \notin {"got_store", "send_store"}
    BY <1>2 DEF Storing
  <1>3. CASE UNCHANGED <<mp, main_pc, fr, taken>>
    BY <1>3 DEF Storing, msg
  <1>4. ASSUME NEW next \in {"got_store", "send_store"}, PutUntil(next),
               main_pc = IF next = "got_store" THEN "got_put" ELSE "send_put",
               UNCHANGED <<fr, taken>>
        PROVE  Goal
    <2>1. put_pc # "idle" /\ (PutGoesOn \/ PutReturns)
      BY <1>4, PutEffects DEF PutUntil, IInv
    <2>2. put_msg \in CAN_MESSAGE /\ put_msg # None /\ KeyOf(put_msg) \in Key
      BY <2>1, PutInProgress DEF IInv
    <2>3. put_msg.frame = IF main_pc = "got_put" THEN fr ELSE msg.frame
      BY <1>4, <2>2 DEF IInv, MainInv, Message
    <2>4. CASE mp' = mp
      BY <1>2, <1>4, <2>4
    <2>5. CASE PutReturns /\ mp' = [mp EXCEPT ![KeyOf(put_msg)] = put_msg]
      <3>1. main_pc' = next
        BY <1>4, <2>5 DEF PutUntil, PutReturns
      <3>2. CASE U16(f) # KeyOf(put_msg)
        BY <1>1, <1>4, <2>5, <3>2 DEF Storing
      <3>3. CASE U16(f) = KeyOf(put_msg)
        <4>1. mp'[U16(f)] = put_msg
          BY <1>1, <2>5, <3>3
        <4>2. put_msg.frame.id = f => Storing(f)'
          BY <1>4, <2>3, <3>1 DEF Storing, msg
        <4> QED BY <2>2, <4>1, <4>2
      <3> QED BY <3>2, <3>3
    <2> QED BY <2>1, <2>4, <2>5 DEF PutGoesOn, PutReturns
  <1>5. CASE GotPut
    <2>1. main_pc = "got_put" /\ PutUntil("got_store") /\ UNCHANGED <<fr, taken>>
      BY <1>5 DEF GotPut, queueVars
    <2> QED BY <1>4, <2>1
  <1>6. CASE SendPut
    <2>1. CASE Table!PutCall(msg.frame, frame_sync_counter)
      BY <1>2, <1>6, <2>1 DEF SendPut, Table!PutCall
    <2>2. CASE PutUntil("send_store")
      BY <1>4, <1>6, <2>2 DEF SendPut, queueVars
    <2> QED BY <1>6, <2>1, <2>2 DEF SendPut
  <1>7. ASSUME NEW frame \in BusFrames, Receive(frame) PROVE Goal
    BY <1>2, <1>7 DEF Receive, Table!PutCall, tableVars
  <1>8. CASE \/ ReadTimeout \/ PollQueue \/ Dequeue \/ WriteSocket \/ SendCheck \/ SendRegister
    BY <1>2, <1>8 DEF ReadTimeout, PollQueue, Dequeue, WriteSocket, SendCheck, SendRegister,
                      tableVars
  <1>9. ASSUME NEW r \in Readers, RestGet(r) \/ RestConvert(r) \/ RestList(r) PROVE Goal
    <2>1. mp' = mp
      <3>1. CASE RestGet(r)
        BY <3>1, GetPlain, GetCallPlain DEF RestGet, putVars, IInv
      <3>2. CASE RestConvert(r) \/ RestList(r)
        BY <3>2, ListPlain DEF RestConvert, RestList, tableVars, putVars
      <3> QED BY <1>9, <3>1, <3>2
    <2> QED BY <1>3, <1>9, <2>1 DEF RestGet, RestConvert, RestList, mainVars, queueVars
  <1>10. ASSUME NEW w \in Workers, RestSend(w) PROVE Goal
    <2>1. taken' = taken
      BY <1>10, QueueWorker DEF RestSend, IInv
    <2> QED BY <1>3, <1>10, <2>1 DEF RestSend, mainVars, tableVars
  <1>11. CASE UNCHANGED vars
    BY <1>3, <1>11 DEF vars, tableVars, mainVars, queueVars
  <1> QED BY <1>5, <1>6, <1>7, <1>8, <1>9, <1>10, <1>11 DEF Next, Read, MainStep

(* Steps of the gateway that store nothing.                                 *)
LEMMA OtherStepsKeep ==
    ASSUME IInv, RedisInv, [Next]_vars, ~GotStore, ~SendStore,
           VersionInv', UNCHANGED <<stored, given>>
    PROVE  RedisInv'
  <1>1. VersionInv' /\ GivenInv'
    BY DEF RedisInv, GivenInv
  <1> SUFFICES ASSUME NEW f \in Ids
               PROVE  /\ stored[f] > 0 => /\ mp'[U16(f)] # None /\ type_register'[U16(f)] # None
                                          /\ Latest(f).type = Conv!EffectiveType(U16(f))'
                      /\ mp'[U16(f)] # None /\ mp'[U16(f)].frame.id = f /\ ~Storing(f)' =>
                           /\ stored[f] > 0
                           /\ Payload(Latest(f).frame) = Payload(mp'[U16(f)].frame)
    BY <1>1 DEF RedisInv, StoredInv, Latest
  <1>2. U16(f) \in Key
    BY DEF Key
  <1>3. ASSUME stored[f] > 0
        PROVE  /\ mp'[U16(f)] # None /\ type_register'[U16(f)] # None
               /\ Latest(f).type = Conv!EffectiveType(U16(f))'
    <2>1. /\ mp[U16(f)] # None /\ type_register[U16(f)] # None
          /\ Latest(f).type = Conv!EffectiveType(U16(f))
      BY <1>3 DEF RedisInv, StoredInv
    <2>2. mp'[U16(f)] # None
      BY <1>2, <2>1, EntriesMoveForward
    <2>3. type_register'[U16(f)] = type_register[U16(f)]
      BY <1>2, <2>1, EntriesKeepTheirType
    <2>4. Conv!EffectiveType(U16(f))' = Conv!EffectiveType(U16(f))
      BY <1>2, <2>3, EffectiveTypeStays
    <2> QED BY <2>1, <2>2, <2>3, <2>4
  <1>4. ASSUME mp'[U16(f)] # None, mp'[U16(f)].frame.id = f, ~Storing(f)'
        PROVE  stored[f] > 0 /\ Payload(Latest(f).frame) = Payload(mp'[U16(f)].frame)
    <2>1. mp'[U16(f)] = mp[U16(f)] /\ ~Storing(f)
      BY <1>4, FilesBeforeItStores
    <2> QED BY <1>4, <2>1 DEF RedisInv, StoredInv
  <1> QED BY <1>3, <1>4

(* A store: main hands over the document of the frame it filed last.        *)
LEMMA StoreKeeps ==
    ASSUME IInv, RedisInv, [Next]_vars, NEW m \in CAN_MESSAGE,
           Conv!ConvertFrame(MainThread, m), StoreFrame(m),
           UNCHANGED mp, main_pc' = "read",
           \A f \in Ids : Storing(f) <=> f = m.frame.id,
           mp[KeyOf(m)] # None, mp[KeyOf(m)].hash = Sha256(Payload(m.frame))
    PROVE  RedisInv'
  <1> DEFINE g == m.frame.id
             j == Conv!Json(m)
  <1>1. g \in Ids /\ U16(g) = KeyOf(m) /\ U16(g) \in Key
    BY DEF CAN_MESSAGE, CanFrame, KeyOf, Key
  <1>2. j \in Documents /\ j.type = Conv!EffectiveType(U16(g)) /\ Payload(j.frame) = Payload(m.frame)
    BY <1>1, JsonIsADocument DEF IInv
  <1>3. Converts(MainThread, m)
    BY ConvertPlain
  <1>4. json'[MainThread] = j
    BY <1>3 DEF Converts, IInv, ConvInv
  <1>5. /\ VersionInv' /\ stored' = [stored EXCEPT ![g] = @ + 1]
        /\ given' = [given EXCEPT ![g] = Append(@, j)]
    BY <1>1, <1>4, VersionsStore DEF StoreFrame, RedisInv
  <1> HIDE DEF j, g
  <1>6. /\ given[g] \in Seq(Documents) /\ Len(given[g]) = stored[g] /\ stored[g] \in Nat
        /\ stored \in [Ids -> Nat] /\ given \in [Ids -> Seq(Documents)]
    BY <1>1 DEF RedisInv, GivenInv, VersionInv
  <1>7. /\ Append(given[g], j) \in Seq(Documents)
        /\ Len(Append(given[g], j)) = stored[g] + 1
        /\ Append(given[g], j)[stored[g] + 1] = j
    BY <1>2, <1>6
  <1>8. /\ \A f \in Ids : f # g => stored'[f] = stored[f] /\ given'[f] = given[f]
        /\ stored'[g] = stored[g] + 1 /\ given'[g] = Append(given[g], j)
    BY <1>1, <1>5, <1>6
  <1>9. GivenInv'
    <2>1. given' \in [Ids -> Seq(Documents)]
      BY <1>1, <1>5, <1>6, <1>7
    <2> QED BY <1>1, <1>7, <1>8, <2>1 DEF RedisInv, GivenInv
  <1>10. Latest(g)' = j /\ stored'[g] > 0
    BY <1>6, <1>7, <1>8 DEF Latest, g
  <1>11. \A k \in Key : type_register[k] # None => type_register'[k] = type_register[k]
    BY EntriesKeepTheirType
  <1>12. type_register'[U16(g)] # None /\ Conv!EffectiveType(U16(g))' = Conv!EffectiveType(U16(g))
    <2>1. /\ type_register'[U16(g)] # None
          /\ \/ type_register'[U16(g)] = type_register[U16(g)]
             \/ type_register[U16(g)] = None /\ type_register'[U16(g)] = "NONE"
      BY <1>1, <1>3, NoneAssumption DEF Converts, IInv, ConvInv, CONVERSATION_TYPE
    <2> QED BY <2>1 DEF Conv!EffectiveType, g
  <1>13. Payload(mp[U16(g)].frame) = Payload(m.frame)
    <2>1. mp[U16(g)].hash = Sha256(Payload(mp[U16(g)].frame))
      BY <1>1 DEF IInv, OriginInv, Genuine
    <2> QED BY <1>1, <2>1 DEF Sha256
  <1>14. \A f \in Ids : ~Storing(f)'
    BY DEF Storing
  <1>15. StoredInv'
    <2> SUFFICES ASSUME NEW f \in Ids
                 PROVE  /\ stored'[f] > 0 => /\ mp'[U16(f)] # None /\ type_register'[U16(f)] # None
                                             /\ Latest(f)'.type = Conv!EffectiveType(U16(f))'
                        /\ mp'[U16(f)] # None /\ mp'[U16(f)].frame.id = f =>
                              /\ stored'[f] > 0
                              /\ Payload(Latest(f)'.frame) = Payload(mp'[U16(f)].frame)
      BY DEF StoredInv
    <2>1. CASE f = g
      BY <1>1, <1>2, <1>10, <1>12, <1>13, <2>1
    <2>2. CASE f # g
      <3>1. stored'[f] = stored[f] /\ Latest(f)' = Latest(f) /\ ~Storing(f) /\ U16(f) \in Key
        BY <1>8, <2>2 DEF Latest, g, Key
      <3>2. stored[f] > 0 => /\ mp[U16(f)] # None /\ type_register[U16(f)] # None
                             /\ Latest(f).type = Conv!EffectiveType(U16(f))
        BY DEF RedisInv, StoredInv
      <3>3. mp[U16(f)] # None /\ mp[U16(f)].frame.id = f =>
               stored[f] > 0 /\ Payload(Latest(f).frame) = Payload(mp[U16(f)].frame)
        BY <3>1 DEF RedisInv, StoredInv
      <3>4. stored[f] > 0 => Conv!EffectiveType(U16(f))' = Conv!EffectiveType(U16(f))
        BY <1>11, <3>1, <3>2, EffectiveTypeStays
      <3> QED BY <1>11, <3>1, <3>2, <3>3, <3>4
    <2> QED BY <2>1, <2>2
  <1> QED BY <1>5, <1>9, <1>15 DEF RedisInv

(* Every step of the gateway with Redis preserves the invariant.            *)
LEMMA RedisStepPreserves == IInv /\ RedisInv /\ [RedisNext]_allVars => RedisInv'
  <1> SUFFICES ASSUME IInv, RedisInv, [RedisNext]_allVars PROVE RedisInv'
    OBVIOUS
  <1>1. [Next]_vars
    BY RedisSteps
  <1>2. CASE GotStore /\ StoreFrame(conv_msg)
    <2>1. main_pc = "got_store" /\ fr \in CanFrame /\ frame_sync_counter \in Nat
      BY <1>2 DEF GotStore, IInv, MainInv, Receiving
    <2>2. /\ conv_msg \in CAN_MESSAGE /\ conv_msg.frame = fr /\ KeyOf(conv_msg) = U16(fr.id)
      BY <2>1, MessageType, SameInTable DEF conv_msg, Table!NewMessage, Message
    <2>3. mp[U16(fr.id)] # None /\ mp[U16(fr.id)].hash = Sha256(Payload(fr))
      BY <2>1 DEF IInv, FiledInv
    <2>4. \A f \in Ids : Storing(f) <=> f = conv_msg.frame.id
      BY <2>1, <2>2 DEF Storing
    <2>5. Conv!ConvertFrame(MainThread, conv_msg) /\ UNCHANGED mp /\ main_pc' = "read"
      BY <1>2 DEF GotStore, tableVars
    <2> QED BY <1>1, <1>2, <2>2, <2>3, <2>4, <2>5, StoreKeeps
  <1>3. CASE SendStore /\ StoreFrame(msg)
    <2> DEFINE m == [frame |-> msg.frame, sync_tick |-> 0, hash |-> msg.hash]
    <2>1. main_pc = "send_store" /\ msg \in Queued
      BY <1>3, MsgType DEF SendStore, IInv, Sending
    <2>2. m \in CAN_MESSAGE /\ m.frame = msg.frame /\ KeyOf(m) = KeyOf(msg)
      BY <2>1 DEF Queued, CAN_MESSAGE, KeyOf
    <2>3. mp[KeyOf(msg)] # None /\ mp[KeyOf(msg)].hash = Sha256(Payload(msg.frame))
      BY <2>1 DEF IInv, FiledInv
    <2>4. \A f \in Ids : Storing(f) <=> f = m.frame.id
      BY <2>1 DEF Storing
    <2>5. Conv!ConvertFrame(MainThread, m) /\ UNCHANGED mp /\ main_pc' = "read"
      BY <1>3 DEF SendStore, tableVars
    <2>6. StoreFrame(m)
      BY <1>3 DEF StoreFrame
    <2> HIDE DEF m
    <2> QED BY <1>1, <2>2, <2>3, <2>4, <2>5, <2>6, StoreKeeps
  <1>4. ASSUME UNCHANGED redisVars PROVE VersionInv' /\ UNCHANGED stored
    BY <1>4 DEF RedisInv, VersionInv, redisVars
  <1>5. ASSUME UNCHANGED main_pc PROVE ~GotStore /\ ~SendStore
    BY <1>5 DEF GotStore, SendStore
  <1>6. CASE /\ Read \/ GotPut \/ PollQueue \/ Dequeue \/ WriteSocket \/ SendCheck
                \/ SendRegister \/ SendPut
             /\ UNCHANGED <<redisVars, given>>
    <2>1. ~GotStore /\ ~SendStore
      BY <1>6 DEF Read, ReadTimeout, Receive, GotPut, PollQueue, Dequeue, WriteSocket,
                  SendCheck, SendRegister, SendPut, GotStore, SendStore
    <2> QED BY <1>1, <1>4, <1>6, <2>1, OtherStepsKeep
  <1>7. CASE RedisThreads
    <2>1. VersionInv' /\ UNCHANGED <<stored, given, main_pc>>
      BY <1>7, VersionsMove DEF RedisThreads, RedisInv, vars, mainVars
    <2> QED BY <1>1, <1>5, <2>1, OtherStepsKeep
  <1>8. CASE Http
    <2>1. UNCHANGED main_pc
      BY <1>8 DEF Http, RestGet, RestConvert, RestList, RestSend, mainVars
    <2>2. UNCHANGED <<redisVars, given>>
      BY <1>8 DEF Http
    <2> QED BY <1>1, <1>4, <1>5, <2>1, <2>2, OtherStepsKeep
  <1>9. CASE UNCHANGED allVars
    <2>1. UNCHANGED <<main_pc, redisVars, given>>
      BY <1>9 DEF allVars, vars, mainVars
    <2> QED BY <1>1, <1>4, <1>5, <2>1, OtherStepsKeep
  <1> QED BY <1>2, <1>3, <1>6, <1>7, <1>8, <1>9 DEF RedisNext, MainLoop, Store

(* The inductive invariant of the gateway with Redis.                       *)
THEOREM RedisInvariance == RedisSpec => [](IInv /\ RedisInv)
  <1>1. RedisSpec => []IInv
    BY RedisImplementsGateway, Invariance, PTL
  <1>2. RedisInit => RedisInv
    BY RedisInitEstablishes
  <1> QED BY <1>1, <1>2, RedisStepPreserves, PTL DEF RedisSpec

(* A subscriber that asks GET /receive for the id it was told of gets the   *)
(* frame of the notification or a later one.                                *)
THEOREM NotificationsAreServed == RedisSpec => []NotifiedIsServed
  <1>1. RedisInv => NotifiedIsServed
    <2> SUFFICES ASSUME RedisInv, NEW f \in Ids, notified[f] > 0
                 PROVE  /\ mp[U16(f)] # None
                        /\ mp[U16(f)].frame.id = f /\ main_pc \notin {"got_store", "send_store"} =>
                              \E i \in notified[f] .. stored[f] :
                                  Payload(given[f][i].frame) = Payload(mp[U16(f)].frame)
      BY DEF NotifiedIsServed
    <2>1. /\ notified[f] \in Nat /\ stored[f] \in Nat /\ notified[f] <= stored[f]
          /\ stored[f] > 0 /\ stored[f] \in notified[f] .. stored[f]
      BY DEF RedisInv, VersionInv
    <2>2. mp[U16(f)] # None
      BY <2>1 DEF RedisInv, StoredInv
    <2>3. mp[U16(f)].frame.id = f /\ main_pc \notin {"got_store", "send_store"} =>
             Payload(given[f][stored[f]].frame) = Payload(mp[U16(f)].frame)
      BY <2>2 DEF RedisInv, StoredInv, Storing, Latest
    <2> QED BY <2>1, <2>2, <2>3
  <1> QED BY <1>1, RedisInvariance, PTL

(* Redis and REST show one type and one value of an id between frames.      *)
THEOREM RedisAndRestAgree == RedisSpec => []RedisAgreesWithRest
  <1>1. IInv /\ RedisInv => RedisAgreesWithRest
    <2> SUFFICES ASSUME IInv, RedisInv, main_pc = "read", NEW f \in Ids,
                        hash[f] > 0, hash[f] = stored[f],
                        mp[U16(f)] # None, mp[U16(f)].frame.id = f,
                        mp[U16(f)].frame.len >= Conv!Width(InRedis(f).type)
                 PROVE  <<InRedis(f).type, InRedis(f).payload>> = InRest(U16(f))
      BY DEF RedisAgreesWithRest
    <2>1. InRedis(f) = Latest(f) /\ stored[f] > 0
      BY DEF InRedis, Latest
    <2>2. Latest(f).type = Conv!EffectiveType(U16(f))
      BY <2>1 DEF RedisInv, StoredInv
    <2>3. Payload(Latest(f).frame) = Payload(mp[U16(f)].frame)
      BY DEF RedisInv, StoredInv, Storing
    <2>4. Latest(f) \in Documents
      BY <2>1 DEF RedisInv, GivenInv, VersionInv, Latest
    <2>5. PICK type \in CONVERSATION_TYPE, m \in CAN_MESSAGE : Latest(f) = DocumentOf(type, m)
      BY <2>4 DEF Documents
    <2>6. /\ Latest(f).type = type /\ Payload(Latest(f).frame) = Payload(m.frame)
          /\ Latest(f).payload = Conv!Decode(type, m.frame)
      BY <2>5, DocumentsOfMessages
    <2>7. m.frame \in CanFrame /\ mp[U16(f)].frame \in CanFrame
      <3>1. U16(f) \in Key
        BY DEF Key
      <3>2. mp[U16(f)] \in CAN_MESSAGE
        BY <3>1 DEF IInv, TableInv, Entry
      <3> QED BY <3>2 DEF CAN_MESSAGE
    <2>8. Conv!Decode(type, mp[U16(f)].frame) = Conv!Decode(type, m.frame)
      BY <2>1, <2>3, <2>6, <2>7, ValueIsOfThePayload
    <2> QED BY <2>1, <2>2, <2>6, <2>8 DEF InRest
  <1> QED BY <1>1, RedisInvariance, PTL

-------------------------------------------------------------------------------
(* A queued message is the one the POST handler makes of a body.            *)
Carries(q, b) == /\ q.type = CallOf(b).type
                 /\ KeyOf(q) = U16(b.id[2])
                 /\ Payload(q.frame) = Queue!Encode(CallOf(b))

(* A worker inside enqueue_* makes the message of the body it was given.    *)
PostInv == /\ post  \in [Workers -> Bodies \cup {None}]
           /\ asked \in [Readers -> Key \cup {None}]
           /\ \A w \in Workers : send_pc[w] # "idle" =>
                 post[w] \in PostedBodies /\ Carries(send_msg[w], post[w])

(* The posts that were accepted are the messages pushed, in this order;     *)
(* those the main loop has not taken are in the queue.                      *)
LogInv == /\ posted \in Seq(Key \X {b.payload : b \in PostedBodies})
          /\ Len(posted) = Len(accepted)
          /\ accepted = taken \o message_queue
          /\ \A i \in DOMAIN posted : \E b \in PostedBodies :
                posted[i] = <<U16(b.id[2]), b.payload>> /\ Carries(accepted[i], b)

(* No frame of a written key comes from the bus, and the key has no type    *)
(* but that of its posts.                                                   *)
WrittenInv ==
    /\ \A i \in DOMAIN received : KeyOf(received[i]) \notin Written
    /\ \A b \in PostedBodies :
           LET k == U16(b.id[2]) IN
           k \in Written => type_register[k] \in {None, CallOf(b).type}

RestInv == PostInv /\ LogInv /\ WrittenInv

(* A body that leads to a frame leads to a call of the gateway.             *)
LEMMA BodyCalls ==
    ASSUME NEW b \in PostedBodies
    PROVE  /\ b \in Bodies /\ Complete(b) /\ b.payload[1] \in Sendable
           /\ CallOf(b) \in Requests /\ CallOf(b) \in Queue!Request
           /\ CallOf(b).id = b.id[2] /\ U16(b.id[2]) \in Key
  <1>1. b \in Bodies /\ Complete(b) /\ b.payload[1] \in Sendable
    BY DEF PostedBodies
  <1>2. CallOf(b) \in Requests /\ CallOf(b) \in Queue!Request
    BY <1>1, BodyCallsAssumption, CallsAssumption
  <1>3. CallOf(b).id = b.id[2]
    BY DEF CallOf
  <1>4. b.id[2] \in Ids
    BY <1>2, <1>3 DEF Queue!Request
  <1> QED BY <1>1, <1>2, <1>3, <1>4 DEF Key

(* What a number without a sign is.                                         *)
LEMMA Unsigned == \A n : n \in UInt16 => n \in Nat /\ n < 65536
  BY Z3 DEF UInt16

(* A number of 16 bits comes back from its two bytes.                       *)
LEMMA TwoBytes ==
    ASSUME NEW v \in Nat, v < 65536
    PROVE  ((v \div 256) % 256) * 256 + (v % 256) = v
  <1>1. v \div 256 \in 0 .. 255
    <2> DEFINE q == v \div 256
    <2>1. q \in Nat /\ q = v \div 256
      OBVIOUS
    <2> HIDE DEF q
    <2> QED BY <2>1
  <1>2. v = 256 * (v \div 256) + (v % 256)
    BY Z3
  <1>3. (v \div 256) % 256 = v \div 256
    BY <1>1, Z3
  <1> QED BY <1>1, <1>2, <1>3, Z3

(* What is decoded of a frame that holds an encoded scalar is the scalar,   *)
(* if it can be shown; the rest of the buffer does not matter.              *)
LEMMA RoundTrip ==
    ASSUME NEW b \in PostedBodies, b.payload[1] \in DOMAIN ScalarType,
           Showable(b.payload), NEW f \in CanFrame, Payload(f) = Queue!Encode(CallOf(b))
    PROVE  /\ Conv!Decode(CallOf(b).type, f) = b.payload
           /\ f.len >= Conv!Width(CallOf(b).type)
  <1> DEFINE p == b.payload
             c == CallOf(b)
  <1>1. /\ f.len \in Nat /\ Len(Payload(f)) = f.len
        /\ \A i \in 1 .. f.len : Payload(f)[i] = f.data[i]
    <2>1. f.len \in 0 .. BufLen /\ f.data \in [1 .. BufLen -> Byte]
      BY DEF CanFrame, Buffer
    <2> QED BY <2>1, BufLenAssumption DEF Payload
  <1>2. p[1] \in {"number", "string", "bool"}
    BY DEF ScalarType
  <1>3. b \in Bodies /\ p # None
    BY BodyCalls DEF Complete
  <1>4. CASE p[1] = "number"
    <2> DEFINE v == p[2]
    <2>0. p = <<"number", v>>
      BY <1>3, <1>4, BodiesAssumption, Zenon
    <2>1. v \in Nat /\ v < 65536
      <3>1. v \in UInt16
        BY <1>4, Zenon DEF Showable
      <3> HIDE DEF v
      <3> QED BY <3>1, Unsigned, Z3
    <2>2. c.type = "INT" /\ c.arg = <<v>>
      <3>1. c.type = "INT" /\ c.arg = <<v % 65536>>
        BY <1>4 DEF CallOf
      <3> HIDE DEF v
      <3>2. v % 65536 = v
        BY <2>1
      <3> QED BY <3>1, <3>2
    <2> HIDE DEF v
    <2>3. Queue!Encode(c) = <<v % 256, (v \div 256) % 256>>
      BY <2>2 DEF Queue!Encode
    <2>4. f.len = 2 /\ f.data[1] = v % 256 /\ f.data[2] = (v \div 256) % 256
      BY <1>1, <2>3
    <2>5. f.data[2] * 256 + f.data[1] = v
      <3>1. ((v \div 256) % 256) * 256 + (v % 256) = v
        BY <2>1, TwoBytes
      <3> QED BY <2>1, <2>4, <3>1
    <2>6. Conv!Decode("INT", f) = <<"number", v>>
      BY <2>5 DEF Conv!Decode
    <2>7. f.len >= Conv!Width("INT")
      BY <2>4 DEF Conv!Width
    <2> QED BY <2>0, <2>2, <2>6, <2>7, Zenon
  <1>5. CASE p[1] = "bool"
    <2>1. c.type = "BOOL" /\ c.arg = <<IF p[2] THEN 1 ELSE 0>>
      BY <1>5 DEF CallOf
    <2>2. p = <<"bool", p[2]>> /\ p[2] \in BOOLEAN
      BY <1>3, <1>5, BodiesAssumption, Zenon
    <2>3. Queue!Encode(c) = <<IF p[2] THEN 1 ELSE 0>>
      BY <2>1 DEF Queue!Encode
    <2>4. f.len = 1 /\ f.data[1] = IF p[2] THEN 1 ELSE 0
      BY <1>1, <2>3
    <2>5. (f.data[1] # 0) = p[2]
      BY <2>2, <2>4
    <2>6. Conv!Decode("BOOL", f) = <<"bool", f.data[1] # 0>>
      BY DEF Conv!Decode
    <2>7. Conv!Decode("BOOL", f) = p
      BY <2>2, <2>5, <2>6, Zenon
    <2>8. f.len >= Conv!Width("BOOL")
      BY <2>4 DEF Conv!Width
    <2> QED BY <2>1, <2>7, <2>8, Zenon
  <1>6. CASE p[1] = "string"
    <2>1. c.type = "STR" /\ c.arg = p[2]
      BY <1>6 DEF CallOf
    <2>2. Queue!Encode(c) = Queue!Clamp(p[2])
      BY <2>1 DEF Queue!Encode
    <2>3. p = <<"string", p[2]>> /\ Queue!Clamp(p[2]) = p[2]
      <3>1. p = <<"string", p[2]>> /\ p[2] \in Seq(Nat)
        BY <1>3, <1>6, BodiesAssumption, Zenon
      <3>2. Len(p[2]) <= BufLen
        BY <1>6, Zenon DEF Showable
      <3>3. Queue!Clamp(p[2]) = SubSeq(p[2], 1, Len(p[2]))
        BY <3>1, <3>2, BufLenAssumption DEF Queue!Clamp
      <3>4. SubSeq(p[2], 1, Len(p[2])) = p[2]
        BY <3>1
      <3> QED BY <3>1, <3>3, <3>4
    <2>4. Conv!Payload(f) = Payload(f)
      BY DEF Conv!Payload, Payload
    <2>5. Conv!Decode("STR", f) = <<"string", Payload(f)>>
      BY <2>4 DEF Conv!Decode
    <2>6. f.len >= Conv!Width("STR")
      BY <1>1 DEF Conv!Width
    <2> QED BY <2>1, <2>2, <2>3, <2>5, <2>6, Zenon
  <1> QED BY <1>2, <1>4, <1>5, <1>6

(* All posts to a written key can be shown and are filed under one type,    *)
(* which is the configured one if there is one.                             *)
LEMMA OneType ==
    ASSUME NEW b \in PostedBodies, U16(b.id[2]) \in Written
    PROVE  /\ b.payload[1] \in DOMAIN ScalarType /\ Showable(b.payload)
           /\ Conv!Configured[U16(b.id[2])] \in {None, CallOf(b).type}
           /\ \A c \in PostedBodies :
                 U16(c.id[2]) = U16(b.id[2]) => CallOf(c).type = CallOf(b).type
  <1>1. PICK kind \in DOMAIN ScalarType :
           /\ \A c \in PostedBodies : U16(c.id[2]) = U16(b.id[2]) =>
                  c.payload[1] = kind /\ Showable(c.payload)
           /\ Conv!Configured[U16(b.id[2])] \in {None, ScalarType[kind]}
    BY DEF Written, ClientKeys
  <1>2. \A c : c.payload[1] = kind => CallOf(c).type = ScalarType[kind]
    BY <1>1 DEF CallOf, ScalarType
  <1> QED BY <1>1, <1>2

(* At first nothing is posted, and the types are the configured ones.       *)
LEMMA RestInitEstablishes == RestInit => RestInv
  <1> SUFFICES ASSUME RestInit PROVE RestInv
    OBVIOUS
  <1>1. /\ send_pc = [w \in Workers |-> "idle"]
        /\ message_queue = <<>> /\ accepted = <<>> /\ taken = <<>>
        /\ type_register = Conv!Configured /\ received = <<>>
    BY DEF RestInit, Init, Queue!Init, Conv!Init
  <1>2. PostInv
    BY <1>1 DEF RestInit, PostInv
  <1>3. LogInv
    BY <1>1 DEF RestInit, LogInv
  <1>4. WrittenInv
    BY <1>1, OneType DEF WrittenInv
  <1> QED BY <1>2, <1>3, <1>4 DEF RestInv

(* A key gets an entry without a type when it is converted first, and a     *)
(* type when main sends it first; nothing else changes the register.        *)
LEMMA TypeChanges ==
    ASSUME IInv, [Next]_vars, NEW k \in Key
    PROVE  \/ type_register'[k] = type_register[k]
           \/ type_register[k] = None /\ type_register'[k] = "NONE"
           \/ /\ main_pc = "send_register" /\ k = KeyOf(msg)
              /\ type_register'[k] = msg.type
  <1>1. [Conv!Next]_(Conv!vars)
    BY ConvSteps
  <1>2. type_register \in [Key -> CONVERSATION_TYPE \cup {None}]
    BY DEF IInv, ConvInv
  <1>3. ASSUME NEW c, NEW m \in CAN_MESSAGE, Conv!ConvertFrame(c, m)
        PROVE  \/ type_register'[k] = type_register[k]
               \/ type_register[k] = None /\ type_register'[k] = "NONE"
    <2>1. Converts(c, m)
      BY <1>3, ConvertPlain
    <2> QED BY <1>2, <2>1 DEF Converts
  <1>4. ASSUME NEW s, Conv!SendCheck(s) PROVE type_register' = type_register
    BY <1>4 DEF Conv!SendCheck
  <1>5. CASE Conv!SendRegister
    <2>1. /\ reg_pc = "register"
          /\ type_register' = [type_register EXCEPT ![reg_send[1]] = reg_send[2]]
      BY <1>5, ConvRegister DEF IInv
    <2>2. main_pc = "send_register" /\ reg_send = <<KeyOf(msg), msg.type>>
      BY <2>1 DEF IInv, MainInv
    <2> QED BY <1>2, <2>1, <2>2
  <1>6. CASE UNCHANGED Conv!vars
    BY <1>6 DEF Conv!vars
  <1> QED BY <1>1, <1>3, <1>4, <1>5, <1>6 DEF Conv!Next

(* What is received came from the bus.                                      *)
LEMMA ReceivesFromTheBus ==
    ASSUME [Next]_vars
    PROVE  \/ received' = received
           \/ \E frame \in BusFrames : \E m :
                 received' = Append(received, m) /\ KeyOf(m) = U16(frame[1])
  <1>1. ASSUME NEW frame \in BusFrames, Receive(frame)
        PROVE  \/ received' = received
               \/ \E m : received' = Append(received, m) /\ KeyOf(m) = U16(frame[1])
    <2> DEFINE m == Table!NewMessage(ReadInto(fr, frame), frame_sync_counter)
    <2>1. KeyOf(m) = U16(frame[1])
      BY DEF Table!NewMessage, ReadInto, KeyOf
    <2>2. received' = received \/ received' = Append(received, m)
      BY <1>1 DEF Receive
    <2> QED BY <2>1, <2>2
  <1>2. CASE ReadTimeout \/ MainStep
    BY <1>2 DEF ReadTimeout, MainStep, GotPut, GotStore, PollQueue, Dequeue, WriteSocket,
                SendCheck, SendRegister, SendPut, SendStore
  <1>3. ASSUME NEW r \in Readers, RestGet(r) \/ RestConvert(r) \/ RestList(r)
        PROVE  received' = received
    BY <1>3 DEF RestGet, RestConvert, RestList, mainVars
  <1>4. ASSUME NEW w \in Workers, RestSend(w) PROVE received' = received
    BY <1>4 DEF RestSend, mainVars
  <1>5. CASE UNCHANGED vars
    BY <1>5 DEF vars, mainVars
  <1> QED BY <1>1, <1>2, <1>3, <1>4, <1>5 DEF Next, Read

(* The message main is sending is that of the latest post it took.          *)
LEMMA MsgWasPosted ==
    ASSUME IInv, LogInv, main_pc \in Sending
    PROVE  /\ Len(taken) \in DOMAIN posted
           /\ \E b \in PostedBodies : /\ posted[Len(taken)] = <<U16(b.id[2]), b.payload>>
                                      /\ Carries(msg, b)
  <1>1. /\ taken \in Seq(Queued) /\ message_queue \in Seq(Queued) /\ accepted \in Seq(Queued)
        /\ Len(taken) \in DOMAIN taken
    BY MsgType DEF IInv, QueueInv
  <1>2. accepted = taken \o message_queue
    BY DEF LogInv
  <1>3. Len(taken) \in DOMAIN accepted /\ accepted[Len(taken)] = msg
    BY <1>1, <1>2 DEF msg
  <1>4. DOMAIN accepted = DOMAIN posted
    BY <1>1 DEF LogInv
  <1> QED BY <1>3, <1>4 DEF LogInv

(* No step gives a written key a frame of the bus or a second type.         *)
LEMMA WrittenKeeps ==
    ASSUME IInv, LogInv, WrittenInv, [Next]_vars
    PROVE  WrittenInv'
  <1>1. \A i \in DOMAIN received' : KeyOf(received'[i]) \notin Written
    <2>1. received \in Seq(CAN_MESSAGE) /\ received' \in Seq(CAN_MESSAGE)
      BY StepPreserves DEF IInv, MainInv
    <2>2. ASSUME NEW frame \in BusFrames, NEW m,
                 received' = Append(received, m), KeyOf(m) = U16(frame[1])
          PROVE  \A i \in DOMAIN received' : KeyOf(received'[i]) \notin Written
      <3>1. KeyOf(m) \notin Written
        BY <2>2 DEF Written, ClientKeys
      <3>2. \A i \in DOMAIN received' : \/ received'[i] = m
                                        \/ i \in DOMAIN received /\ received'[i] = received[i]
        BY <2>1, <2>2
      <3> QED BY <3>1, <3>2 DEF WrittenInv
    <2> QED BY <2>2, ReceivesFromTheBus DEF WrittenInv
  <1>2. ASSUME NEW b \in PostedBodies, U16(b.id[2]) \in Written
        PROVE  type_register'[U16(b.id[2])] \in {None, CallOf(b).type}
    <2> DEFINE k == U16(b.id[2])
    <2>1. k \in Key /\ type_register[k] \in {None, CallOf(b).type}
      BY <1>2, BodyCalls DEF WrittenInv
    <2>2. type_register'[k] # "NONE"
      <3>1. TypedInv'
        BY StepPreserves DEF IInv
      <3>2. type_register'[k] = "NONE" => \E i \in DOMAIN received' : KeyOf(received'[i]) = k
        BY <2>1, <3>1 DEF TypedInv, WasReceived
      <3> QED BY <1>1, <1>2, <3>2
    <2>3. ASSUME main_pc = "send_register", k = KeyOf(msg), type_register'[k] = msg.type
          PROVE  type_register'[k] \in {None, CallOf(b).type}
      <3>1. PICK c \in PostedBodies : Carries(msg, c)
        BY <2>3, MsgWasPosted DEF Sending
      <3>2. U16(c.id[2]) = k /\ msg.type = CallOf(c).type
        BY <2>3, <3>1 DEF Carries
      <3> QED BY <1>2, <2>3, <3>2, OneType
    <2> HIDE DEF k
    <2>4. type_register'[k] \in {None, CallOf(b).type}
      BY <2>1, <2>2, <2>3, TypeChanges
    <2> QED BY <2>4 DEF k
  <1> QED BY <1>1, <1>2 DEF WrittenInv

(* enqueue_* puts the encoded value into the frame it assembles.            *)
LEMMA AssembleCarries ==
    ASSUME NEW b \in PostedBodies, NEW stack \in Queue!Buffer, NEW q,
           q.frame = Queue!Assemble(CallOf(b), stack), q.type = CallOf(b).type
    PROVE  Carries(q, b)
  <1> DEFINE e == Queue!Encode(CallOf(b))
  <1>1. e \in Seq(Byte) /\ Len(e) \in 0 .. BufLen
    BY BodyCalls, EncodeFits
  <1>2. /\ q.frame.id = <<0, U16(b.id[2])>> /\ q.frame.len = Len(e)
        /\ q.frame.data = Memcpy(stack, e)
    BY BodyCalls, SameInQueue DEF Queue!Assemble
  <1> HIDE DEF e
  <1>3. \A i \in 1 .. Len(e) : Memcpy(stack, e)[i] = e[i]
    BY <1>1, BufLenAssumption DEF Memcpy
  <1>4. Payload(q.frame) = [i \in 1 .. Len(e) |-> e[i]]
    BY <1>2, <1>3 DEF Payload
  <1>5. Payload(q.frame) = e
    BY <1>1, <1>4
  <1> QED BY <1>2, <1>5 DEF Carries, KeyOf, U16, e

(* A push at the end of the queue is a push at the end of all messages.     *)
LEMMA AppendConcat ==
    ASSUME NEW S, NEW s \in Seq(S), NEW t \in Seq(S), NEW e \in S
    PROVE  s \o Append(t, e) = Append(s \o t, e)
  <1>1. s \o Append(t, e) \in Seq(S) /\ Append(s \o t, e) \in Seq(S)
    OBVIOUS
  <1>2. Len(s \o Append(t, e)) = Len(Append(s \o t, e))
    OBVIOUS
  <1>3. ASSUME NEW i \in 1 .. Len(s \o Append(t, e))
        PROVE  (s \o Append(t, e))[i] = Append(s \o t, e)[i]
    OBVIOUS
  <1> QED BY <1>1, <1>2, <1>3, SeqEqual

(* A message taken from the front stays in its place among all messages.    *)
LEMMA HeadConcat ==
    ASSUME NEW S, NEW s \in Seq(S), NEW t \in Seq(S), t # <<>>
    PROVE  Append(s, Head(t)) \o Tail(t) = s \o t
  <1>1. Head(t) \in S /\ Tail(t) \in Seq(S)
    OBVIOUS
  <1>2. Append(s, Head(t)) \o Tail(t) \in Seq(S) /\ s \o t \in Seq(S)
    BY <1>1
  <1>3. Len(Append(s, Head(t)) \o Tail(t)) = Len(s \o t)
    BY <1>1
  <1>4. ASSUME NEW i \in 1 .. Len(s \o t)
        PROVE  (Append(s, Head(t)) \o Tail(t))[i] = (s \o t)[i]
    BY <1>1
  <1> QED BY <1>2, <1>3, <1>4, SeqEqual

(* The main loop takes the first message of the queue, when dequeue says    *)
(* so, or leaves the queue alone; the workers' side it never touches.       *)
LEMMA MainTakes ==
    ASSUME IInv, Read \/ MainStep
    PROVE  /\ UNCHANGED <<send_pc, send_msg, accepted>>
           /\ \/ UNCHANGED <<taken, message_queue>>
              \/ /\ message_queue # <<>>
                 /\ taken' = Append(taken, Head(message_queue))
                 /\ message_queue' = Tail(message_queue)
  <1> DEFINE Goal == /\ UNCHANGED <<send_pc, send_msg, accepted>>
                     /\ \/ UNCHANGED <<taken, message_queue>>
                        \/ /\ message_queue # <<>>
                           /\ taken' = Append(taken, Head(message_queue))
                           /\ message_queue' = Tail(message_queue)
  <1>1. UNCHANGED queueVars => Goal
    BY DEF queueVars
  <1>2. Queue!Poll \/ Queue!DequeueCheck => Goal
    BY DEF Queue!Poll, Queue!DequeueCheck, Queue!sendVars
  <1>3. Queue!DequeuePop => Goal
    BY DEF Queue!DequeuePop, Queue!sendVars, IInv, QueueInv
  <1>4. CASE PollQueue \/ Dequeue
    BY <1>1, <1>2, <1>3, <1>4 DEF PollQueue, Dequeue
  <1>5. CASE ReadTimeout \/ GotPut \/ GotStore \/ WriteSocket \/ SendCheck \/ SendRegister
             \/ SendPut \/ SendStore
    <2>1. UNCHANGED queueVars
      BY <1>5 DEF ReadTimeout, GotPut, GotStore, WriteSocket, SendCheck, SendRegister, SendPut,
                  SendStore
    <2> QED BY <1>1, <2>1
  <1>6. ASSUME NEW frame \in BusFrames, Receive(frame) PROVE Goal
    <2>1. UNCHANGED queueVars
      BY <1>6 DEF Receive
    <2> QED BY <1>1, <2>1
  <1> QED BY <1>4, <1>5, <1>6 DEF Read, MainStep

(* The main loop changes neither the posts nor what was accepted, and takes *)
(* messages from the front.                                                 *)
LEMMA MainKeepsLog ==
    ASSUME IInv, PostInv, LogInv, Read \/ MainStep, UNCHANGED restVars
    PROVE  PostInv' /\ LogInv'
  <1>1. UNCHANGED <<post, asked, posted>>
    BY DEF restVars
  <1>2. /\ UNCHANGED <<send_pc, send_msg, accepted>>
        /\ \/ UNCHANGED <<taken, message_queue>>
           \/ /\ message_queue # <<>>
              /\ taken' = Append(taken, Head(message_queue))
              /\ message_queue' = Tail(message_queue)
    BY MainTakes
  <1>3. taken' \o message_queue' = taken \o message_queue
    <2>1. taken \in Seq(Queued) /\ message_queue \in Seq(Queued)
      BY DEF IInv, QueueInv
    <2>2. message_queue # <<>> =>
             Append(taken, Head(message_queue)) \o Tail(message_queue) = taken \o message_queue
      BY <2>1, HeadConcat
    <2> QED BY <1>2, <2>2, Zenon
  <1>4. PostInv'
    BY <1>1, <1>2 DEF PostInv, Carries, KeyOf
  <1>5. LogInv'
    BY <1>1, <1>2, <1>3 DEF LogInv
  <1> QED BY <1>4, <1>5

(* A worker enters enqueue_* with the message of the body it was given.     *)
LEMMA EnqueueKeepsLog ==
    ASSUME IInv, PostInv, LogInv, NEW w \in Workers, NEW b \in Bodies, PostEnqueue(w, b)
    PROVE  PostInv' /\ LogInv'
  <1>1. b \in PostedBodies
    BY DEF PostEnqueue, PostedBodies
  <1>2. PICK stack \in Buffer : Queue!Enqueue(w, CallOf(b), stack)
    BY DEF PostEnqueue
  <1> DEFINE m == [frame |-> Queue!Assemble(CallOf(b), stack), hash |-> Queue!NoHash,
                   type |-> CallOf(b).type]
  <1>3. Carries(m, b)
    BY <1>1, AssembleCarries, SameInQueue
  <1>4. /\ send_msg' = [send_msg EXCEPT ![w] = m]
        /\ \E pc \in {"hashing", "push"} : send_pc' = [send_pc EXCEPT ![w] = pc]
        /\ UNCHANGED <<message_queue, accepted, taken>>
        /\ post' = [post EXCEPT ![w] = b] /\ UNCHANGED <<asked, posted>>
    BY <1>2 DEF Queue!Enqueue, Queue!deqVars, PostEnqueue
  <1> HIDE DEF m
  <1>5. /\ send_msg \in [Workers -> Queued \cup {None}]
        /\ send_pc \in [Workers -> {"idle", "hashing", "push"}]
    BY DEF IInv, QueueInv
  <1>6. \A u \in Workers : u # w => send_msg'[u] = send_msg[u] /\ send_pc'[u] = send_pc[u]
                                    /\ post'[u] = post[u]
    BY <1>4, <1>5 DEF PostInv
  <1>7. send_msg'[w] = m /\ post'[w] = b /\ post' \in [Workers -> Bodies \cup {None}]
    BY <1>4, <1>5 DEF PostInv
  <1>8. PostInv'
    BY <1>1, <1>3, <1>4, <1>6, <1>7 DEF PostInv
  <1>9. LogInv'
    BY <1>4 DEF LogInv
  <1> QED BY <1>8, <1>9

(* The digest does not touch the frame.                                     *)
LEMMA HashKeepsLog ==
    ASSUME IInv, PostInv, LogInv, NEW w \in Workers, Queue!HashDone(w), UNCHANGED restVars
    PROVE  PostInv' /\ LogInv'
  <1>1. PICK h : send_msg' = [send_msg EXCEPT ![w].hash = h]
    BY DEF Queue!HashDone
  <1>2. /\ send_pc[w] = "hashing" /\ send_pc' = [send_pc EXCEPT ![w] = "push"]
        /\ UNCHANGED <<message_queue, accepted, taken, post, asked, posted>>
    BY DEF Queue!HashDone, Queue!deqVars, restVars
  <1>3. /\ send_msg \in [Workers -> Queued \cup {None}] /\ send_msg[w] \in Queued
        /\ send_pc \in [Workers -> {"idle", "hashing", "push"}]
    BY <1>2 DEF IInv, QueueInv
  <1>4. \A u \in Workers : send_pc[u] # "idle" => /\ send_msg'[u].frame = send_msg[u].frame
                                                  /\ send_msg'[u].type = send_msg[u].type
    BY <1>1, <1>3 DEF Queued
  <1>5. \A u \in Workers : send_pc'[u] # "idle" => send_pc[u] # "idle"
    BY <1>2, <1>3
  <1>6. PostInv'
    BY <1>2, <1>4, <1>5 DEF PostInv, Carries, KeyOf
  <1>7. LogInv'
    BY <1>2 DEF LogInv
  <1> QED BY <1>6, <1>7

(* A post is accepted when its message is pushed.                           *)
LEMMA PushKeepsLog ==
    ASSUME IInv, PostInv, LogInv, NEW w \in Workers, Queue!Push(w), PostPush(w)
    PROVE  /\ PostInv' /\ LogInv'
           /\ \E b \in PostedBodies : posted' = Append(posted, <<U16(b.id[2]), b.payload>>)
           /\ UNCHANGED <<taken, asked>>
  <1> DEFINE b == post[w]
             p == <<U16(b.id[2]), b.payload>>
  <1>1. /\ send_pc[w] = "push" /\ send_pc' = [send_pc EXCEPT ![w] = "idle"]
        /\ message_queue' = Append(message_queue, send_msg[w])
        /\ accepted' = Append(accepted, send_msg[w])
        /\ send_msg' = [send_msg EXCEPT ![w] = None] /\ UNCHANGED taken
    BY DEF Queue!Push, Queue!deqVars
  <1>2. posted' = Append(posted, p) /\ post' = [post EXCEPT ![w] = None] /\ UNCHANGED asked
    BY <1>1 DEF PostPush, Queue!HashDone
  <1>3. b \in PostedBodies /\ Carries(send_msg[w], b)
    BY <1>1 DEF PostInv
  <1>4. p \in Key \X {c.payload : c \in PostedBodies}
    BY <1>3, BodyCalls
  <1>5. /\ send_msg \in [Workers -> Queued \cup {None}] /\ send_msg[w] \in Queued
        /\ send_pc \in [Workers -> {"idle", "hashing", "push"}]
        /\ taken \in Seq(Queued) /\ message_queue \in Seq(Queued) /\ accepted \in Seq(Queued)
    BY <1>1 DEF IInv, QueueInv
  <1>6. PostInv'
    <2>1. \A u \in Workers : u # w => send_msg'[u] = send_msg[u] /\ send_pc'[u] = send_pc[u]
                                      /\ post'[u] = post[u]
      BY <1>1, <1>2, <1>5 DEF PostInv
    <2>2. send_pc'[w] = "idle" /\ post' \in [Workers -> Bodies \cup {None}]
      BY <1>1, <1>2, <1>5 DEF PostInv
    <2> QED BY <1>2, <2>1, <2>2 DEF PostInv
  <1>7. accepted' = taken' \o message_queue'
    <2>1. taken \o Append(message_queue, send_msg[w]) = Append(taken \o message_queue, send_msg[w])
      BY <1>5, AppendConcat
    <2> QED BY <1>1, <2>1, Zenon DEF LogInv
  <1> HIDE DEF p
  <1>8. posted' \in Seq(Key \X {c.payload : c \in PostedBodies}) /\ Len(posted') = Len(accepted')
    BY <1>1, <1>2, <1>4, <1>5 DEF LogInv
  <1>9. ASSUME NEW i \in DOMAIN posted'
        PROVE  \E c \in PostedBodies :
                  posted'[i] = <<U16(c.id[2]), c.payload>> /\ Carries(accepted'[i], c)
    <2>1. CASE i \in DOMAIN posted
      <3>1. posted'[i] = posted[i] /\ accepted'[i] = accepted[i]
        BY <1>1, <1>2, <1>4, <1>5, <2>1 DEF LogInv
      <3> QED BY <2>1, <3>1 DEF LogInv
    <2>2. CASE i \notin DOMAIN posted
      <3>1. posted'[i] = p /\ accepted'[i] = send_msg[w]
        BY <1>1, <1>2, <1>4, <1>5, <2>2 DEF LogInv
      <3> QED BY <1>3, <3>1 DEF p
    <2> QED BY <2>1, <2>2
  <1>10. LogInv'
    BY <1>7, <1>8, <1>9 DEF LogInv, Carries, KeyOf
  <1> QED BY <1>1, <1>2, <1>3, <1>6, <1>10 DEF p

(* The handlers and the main loop preserve the invariant of the posts.      *)
LEMMA RestStepPreserves ==
    IInv /\ RestInv /\ [RestNext]_<<vars, restVars>> => RestInv'
  <1> SUFFICES ASSUME IInv, RestInv, [RestNext]_<<vars, restVars>> PROVE RestInv'
    OBVIOUS
  <1>1. PostInv /\ LogInv /\ WrittenInv
    BY DEF RestInv
  <1>2. WrittenInv'
    BY <1>1, RestSteps, WrittenKeeps
  <1>3. ASSUME UNCHANGED <<send_pc, send_msg, message_queue, accepted, taken, post, posted>>,
               asked' \in [Readers -> Key \cup {None}]
        PROVE  PostInv' /\ LogInv'
    BY <1>1, <1>3 DEF PostInv, LogInv, Carries, KeyOf
  <1>4. CASE (Read \/ MainStep) /\ UNCHANGED restVars
    BY <1>1, <1>2, <1>4, MainKeepsLog DEF RestInv
  <1>5. ASSUME NEW w \in Workers, NEW b \in Bodies, PostRefused(w, b) \/ PostIgnored(w, b)
        PROVE  RestInv'
    <2>1. UNCHANGED <<send_pc, send_msg, message_queue, accepted, taken, post, posted, asked>>
      BY <1>5 DEF PostRefused, PostIgnored, vars, queueVars
    <2> QED BY <1>1, <1>2, <1>3, <2>1 DEF RestInv, PostInv
  <1>6. ASSUME NEW w \in Workers, NEW b \in Bodies, PostEnqueue(w, b) PROVE RestInv'
    BY <1>1, <1>2, <1>6, EnqueueKeepsLog DEF RestInv
  <1>7. ASSUME NEW w \in Workers, PostPush(w) PROVE RestInv'
    <2>1. CASE Queue!HashDone(w) /\ UNCHANGED restVars
      BY <1>1, <1>2, <2>1, HashKeepsLog DEF RestInv
    <2>2. CASE Queue!Push(w)
      BY <1>1, <1>2, <1>7, <2>2, PushKeepsLog DEF RestInv
    <2> QED BY <1>7, <2>1, <2>2 DEF PostPush
  <1>8. ASSUME NEW r \in Readers, Get(r) PROVE RestInv'
    <2>1. UNCHANGED <<queueVars, post, posted>>
      BY <1>8 DEF Get, RestGet, RestConvert, RestList
    <2>2. asked' \in [Readers -> Key \cup {None}]
      <3>1. get_key[r] \in Key \cup {None}
        BY DEF IInv, TableInv
      <3> QED BY <1>1, <1>8, <3>1 DEF Get, PostInv
    <2> QED BY <1>2, <1>3, <2>1, <2>2 DEF RestInv, queueVars
  <1>9. CASE UNCHANGED <<vars, restVars>>
    BY <1>1, <1>2, <1>3, <1>9 DEF vars, queueVars, restVars, RestInv, PostInv
  <1> QED BY <1>4, <1>5, <1>6, <1>7, <1>8, <1>9 DEF RestNext, Post

(* The invariant of the posts holds throughout.                             *)
THEOREM RestInvariance == RestSpec => [](IInv /\ RestInv)
  <1>1. RestSpec => []IInv
    BY RestImplementsGateway, Invariance, PTL
  <1> QED BY <1>1, RestInitEstablishes, RestStepPreserves, PTL DEF RestSpec

-------------------------------------------------------------------------------
(* The refinement mapping of ValueStore, as a function of the state: what   *)
(* GET shows of a message under a register of types, the values of the      *)
(* written keys, what the clients saw, and the posts after the n-th.        *)
ShownUnder(reg, m) ==
    IF m = None THEN None
    ELSE Conv!Decode(IF reg[KeyOf(m)] \in {None, "NONE"} THEN "RAW" ELSE reg[KeyOf(m)], m.frame)

ValuesOf(reg, table) == [k \in Written |-> ShownUnder(reg, table[k])]

SeenOf(reg, ask, ans) ==
    [r \in Readers |-> IF ask[r] \in Written THEN <<ask[r], ShownUnder(reg, ans[r])>> ELSE None]

After(log, n) == [i \in 1 .. Len(log) - n |-> log[n + i]]

(* The variables of the store are these functions of the state, before and *)
(* after a step.                                                            *)
LEMMA Mapping ==
    /\ Promise!vars = <<After(posted, Applied), ValuesOf(type_register, mp),
                        SeenOf(type_register, asked, answer)>>
    /\ (Promise!vars)' = <<After(posted', Applied'), ValuesOf(type_register', mp'),
                           SeenOf(type_register', asked', answer')>>
  BY SameInConv DEF Promise!vars, UnderWay, After, ValuesOf, SeenOf, Shown, ShownUnder,
                    Conv!EffectiveType, KeyOf

(* The first post after the n-th, and the others.                           *)
LEMMA AfterOne ==
    ASSUME NEW S, NEW log \in Seq(S), NEW n \in Nat, n < Len(log)
    PROVE  /\ After(log, n) # <<>>
           /\ Head(After(log, n)) = log[n + 1]
           /\ Tail(After(log, n)) = After(log, n + 1)
  <1> DEFINE E(i) == log[i]
             T == {E(i) : i \in 1 .. Len(log)}
             d == Len(log) - (n + 1)
  <1>0. d \in Nat /\ Len(log) - n = d + 1
    OBVIOUS
  <1>1. After(log, n) = [i \in 1 .. d + 1 |-> E(n + i)]
    BY <1>0 DEF After
  <1>2. After(log, n + 1) = [i \in 1 .. d |-> E((n + 1) + i)]
    BY DEF After
  <1>3. \A i \in 1 .. d + 1 : E(n + i) \in T
    BY <1>0
  <1>4. \A i \in 1 .. d : E((n + 1) + i) \in T
    <2>1. \A i \in 1 .. d : (n + 1) + i \in 1 .. Len(log)
      BY <1>0
    <2> QED BY <2>1
  <1> HIDE DEF E, T, d
  <1>5. After(log, n) \in Seq(T) /\ Len(After(log, n)) = d + 1
    BY <1>0, <1>1, <1>3
  <1>6. After(log, n + 1) \in Seq(T) /\ Len(After(log, n + 1)) = d
    <2> DEFINE t == After(log, n + 1)
               F(i) == E((n + 1) + i)
    <2>1. t = [i \in 1 .. d |-> F(i)] /\ \A i \in 1 .. d : F(i) \in T
      BY <1>2, <1>4
    <2> HIDE DEF t, F
    <2>2. t \in Seq(T) /\ Len(t) = d
      BY <1>0, <2>1
    <2> QED BY <2>2 DEF t
  <1>7. Tail(After(log, n)) \in Seq(T) /\ Len(Tail(After(log, n))) = d
    BY <1>0, <1>5
  <1>8. ASSUME NEW i \in 1 .. d
        PROVE  Tail(After(log, n))[i] = After(log, n + 1)[i]
    <2>1. Tail(After(log, n))[i] = After(log, n)[i + 1]
      BY <1>0, <1>5
    <2>2. After(log, n)[i + 1] = E(n + (i + 1))
      BY <1>0, <1>1
    <2>3. After(log, n + 1)[i] = E((n + 1) + i)
      BY <1>2
    <2>4. n + (i + 1) = (n + 1) + i
      BY <1>0
    <2> QED BY <2>1, <2>2, <2>3, <2>4
  <1>9. Tail(After(log, n)) = After(log, n + 1)
    BY <1>6, <1>7, <1>8, SeqEqual
  <1>10. After(log, n) # <<>>
    BY <1>0, <1>5
  <1>11. Head(After(log, n)) = After(log, n)[1]
    BY <1>5, <1>10
  <1>12. After(log, n)[1] = E(n + 1)
    BY <1>0, <1>1
  <1> QED BY <1>9, <1>10, <1>11, <1>12 DEF E

(* A post joins the end.                                                    *)
LEMMA AfterAppend ==
    ASSUME NEW S, NEW log \in Seq(S), NEW n \in Nat, n <= Len(log), NEW e \in S
    PROVE  After(Append(log, e), n) = Append(After(log, n), e)
  <1> DEFINE l == Append(log, e)
             E(i) == l[i]
             T == {E(i) : i \in 1 .. Len(l)}
             x == e
             d == Len(log) - n
  <1>1. l \in Seq(S) /\ Len(l) = Len(log) + 1 /\ l[Len(l)] = e
        /\ \A i \in 1 .. Len(log) : l[i] = log[i]
    OBVIOUS
  <1>0. d \in Nat /\ Len(l) = n + (d + 1) /\ Len(l) - n = d + 1 /\ d = Len(log) - n
    OBVIOUS
  <1> HIDE DEF l, d
  <1>2. After(l, n) = [i \in 1 .. d + 1 |-> E(n + i)]
    BY <1>0 DEF After
  <1>3. After(log, n) = [i \in 1 .. d |-> E(n + i)]
    <2>1. \A i \in 1 .. d : l[n + i] = log[n + i]
      BY <1>0, <1>1
    <2> QED BY <1>0, <2>1 DEF After
  <1>4. E(Len(l)) = x /\ x \in T
    BY <1>1
  <1>5. \A i \in 1 .. d + 1 : E(n + i) \in T
    BY <1>0, <1>1
  <1> HIDE DEF E, T, x
  <1>6. After(l, n) \in Seq(T) /\ Len(After(l, n)) = d + 1
    BY <1>0, <1>2, <1>5
  <1>7. After(log, n) \in Seq(T) /\ Len(After(log, n)) = d
    <2>1. \A i \in 1 .. d : E(n + i) \in T
      BY <1>0, <1>5
    <2> QED BY <1>0, <1>3, <2>1
  <1>8. Append(After(log, n), x) \in Seq(T) /\ Len(Append(After(log, n), x)) = d + 1
    BY <1>0, <1>4, <1>7
  <1>9. ASSUME NEW i \in 1 .. d + 1 PROVE After(l, n)[i] = Append(After(log, n), x)[i]
    <2>1. CASE i \in 1 .. d
      <3>1. Append(After(log, n), x)[i] = After(log, n)[i]
        BY <1>0, <1>4, <1>7, <2>1
      <3> QED BY <1>2, <1>3, <2>1, <3>1
    <2>2. CASE i = d + 1
      <3>1. Append(After(log, n), x)[i] = x
        BY <1>0, <1>4, <1>7, <2>2
      <3>2. After(l, n)[i] = E(n + i) /\ n + i = Len(l)
        BY <1>0, <1>2, <2>2
      <3> QED BY <1>4, <3>1, <3>2
    <2>3. i \in 1 .. d \/ i = d + 1
      BY <1>0
    <2> QED BY <2>1, <2>2, <2>3
  <1>10. After(l, n) = Append(After(log, n), x)
    BY <1>6, <1>8, <1>9, SeqEqual
  <1> QED BY <1>10 DEF l, x

(* What is in the table or was answered keeps the value it is shown with:   *)
(* its id has its type for good, or is shown as RAW before and after its    *)
(* first conversion.                                                        *)
LEMMA ShownStays ==
    ASSUME IInv, [Next]_vars, NEW m, m = None \/ (KeyOf(m) \in Key /\ Entered(KeyOf(m)))
    PROVE  ShownUnder(type_register', m) = ShownUnder(type_register, m)
  <1>1. CASE m = None
    BY <1>1 DEF ShownUnder
  <1>2. CASE m # None
    <2>1. KeyOf(m) \in Key /\ Entered(KeyOf(m))
      BY <1>2
    <2>2. ~(main_pc = "send_register" /\ KeyOf(m) = KeyOf(msg))
      BY <2>1 DEF IInv, TypedInv, Entered, Receiving
    <2>3. \/ type_register'[KeyOf(m)] = type_register[KeyOf(m)]
          \/ type_register[KeyOf(m)] = None /\ type_register'[KeyOf(m)] = "NONE"
      BY <2>1, <2>2, TypeChanges
    <2> QED BY <2>3 DEF ShownUnder
  <1> QED BY <1>1, <1>2

(* A step that leaves the entries of the written keys alone leaves their    *)
(* values alone.                                                            *)
LEMMA ValuesStay ==
    ASSUME IInv, [Next]_vars, \A k \in Written : mp'[k] = mp[k]
    PROVE  ValuesOf(type_register', mp') = ValuesOf(type_register, mp)
  <1>1. ASSUME NEW k \in Written
        PROVE  ShownUnder(type_register', mp'[k]) = ShownUnder(type_register, mp[k])
    <2>1. k \in Key
      BY DEF Written, ClientKeys
    <2>2. mp[k] = None \/ (KeyOf(mp[k]) \in Key /\ Entered(KeyOf(mp[k])))
      BY <2>1 DEF IInv, TableInv, TypedInv
    <2> QED BY <2>2, ShownStays
  <1> QED BY <1>1 DEF ValuesOf

(* So do the values the clients saw, in a step that answers nobody.         *)
LEMMA SeenStays ==
    ASSUME IInv, [Next]_vars, UNCHANGED <<asked, answer>>
    PROVE  SeenOf(type_register', asked', answer') = SeenOf(type_register, asked, answer)
  <1>1. ASSUME NEW r \in Readers
        PROVE  ShownUnder(type_register', answer[r]) = ShownUnder(type_register, answer[r])
    <2>1. answer[r] \in Entry
      BY DEF IInv, TableInv
    <2>2. answer[r] # None => KeyOf(answer[r]) \in Key
      BY <2>1 DEF Entry, CAN_MESSAGE, CanFrame, KeyOf, Key
    <2>3. answer[r] # None => Entered(KeyOf(answer[r]))
      BY DEF IInv, TypedInv
    <2> QED BY <2>2, <2>3, ShownStays
  <1> QED BY <1>1 DEF SeenOf

(* Such a step is none of the store of values.                              *)
LEMMA NothingToTheStore ==
    ASSUME IInv, [Next]_vars, \A k \in Written : mp'[k] = mp[k],
           UNCHANGED <<asked, answer, posted>>, Applied' = Applied
    PROVE  UNCHANGED Promise!vars
  BY Mapping, ValuesStay, SeenStays

(* No more posts have been filed than accepted.                             *)
LEMMA AppliedWerePosted ==
    ASSUME IInv, LogInv
    PROVE  Applied \in Nat /\ Applied <= Len(posted) /\ Len(posted) \in Nat
  <1>1. taken \in Seq(Queued) /\ message_queue \in Seq(Queued) /\ Len(posted) = Len(accepted)
        /\ accepted = taken \o message_queue
    BY DEF IInv, QueueInv, LogInv
  <1>2. Len(taken) \in Nat /\ Len(taken) <= Len(posted) /\ Len(posted) \in Nat
    BY <1>1
  <1>3. main_pc \in Sending => Len(taken) > 0
    BY <1>1 DEF IInv, MainInv
  <1> QED BY <1>2, <1>3 DEF Applied, Sending

(* The step in which the put of a sent frame returns: the table shows the   *)
(* value of the post main took last, stored anew or skipped as a duplicate. *)
LEMMA PutApplies ==
    ASSUME IInv, RestInv, [Next]_vars, main_pc = "send_put", main_pc' = "send_store",
           put_pc # "idle", PutReturns, UNCHANGED <<taken, answer, asked, posted>>
    PROVE  Promise!Apply
  <1>1. PICK b \in PostedBodies : /\ posted[Len(taken)] = <<U16(b.id[2]), b.payload>>
                                  /\ Carries(msg, b)
    BY MsgWasPosted DEF RestInv, Sending
  <1> DEFINE n == Len(taken) - 1
             key == U16(b.id[2])
             P == After(posted, n)
  <1>2. n \in Nat /\ n < Len(posted) /\ n + 1 = Len(taken) /\ Len(posted) \in Nat
    <2>1. Len(taken) \in DOMAIN posted
      BY MsgWasPosted DEF RestInv, Sending
    <2>2. posted \in Seq(Key \X {c.payload : c \in PostedBodies})
      BY DEF RestInv, LogInv
    <2> QED BY <2>1, <2>2
  <1>3. Applied = n /\ Applied' = n + 1
    BY <1>2 DEF Applied
  <1>4. P # <<>> /\ Head(P) = <<key, b.payload>> /\ Tail(P) = After(posted, n + 1)
    <2>1. posted \in Seq(Key \X {c.payload : c \in PostedBodies})
      BY DEF RestInv, LogInv
    <2>2. /\ P # <<>>
          /\ Head(P) = posted[n + 1]
          /\ Tail(P) = After(posted, n + 1)
      BY <1>2, <2>1, AfterOne
    <2> QED BY <1>1, <1>2, <2>2
  <1> HIDE DEF n
  <1>5. /\ key \in Key /\ KeyOf(msg) = key /\ msg.type = CallOf(b).type
        /\ Payload(msg.frame) = Queue!Encode(CallOf(b))
    BY <1>1, BodyCalls DEF Carries
  <1>6. /\ put_msg \in CAN_MESSAGE /\ put_msg # None /\ put_msg.frame = msg.frame
        /\ put_msg.hash = Sha256(Payload(msg.frame)) /\ KeyOf(put_msg) = key
    <2>1. put_msg \in CAN_MESSAGE /\ put_msg # None
      BY PutInProgress DEF IInv
    <2>2. put_msg = Message(msg.frame, frame_sync_counter)
      BY <2>1 DEF IInv, MainInv
    <2> QED BY <1>5, <2>1, <2>2 DEF Message, KeyOf
  <1>7. \A k \in Key : k # key => mp'[k] = mp[k]
    BY <1>6 DEF PutReturns, IInv, TableInv
  <1>8. /\ mp'[key] \in CAN_MESSAGE /\ mp'[key] # None /\ KeyOf(mp'[key]) = key
        /\ Payload(mp'[key].frame) = Payload(msg.frame)
    <2>1. CASE mp' = mp /\ mp[key] # None /\ mp[key].hash = put_msg.hash
      <3>1. mp[key] \in CAN_MESSAGE /\ KeyOf(mp[key]) = key
        BY <1>5, <2>1 DEF IInv, TableInv, Entry
      <3>2. mp[key].hash = Sha256(Payload(mp[key].frame))
        BY <1>5, <2>1 DEF IInv, OriginInv, Genuine
      <3>3. Payload(mp[key].frame) = Payload(msg.frame)
        BY <1>6, <2>1, <3>2 DEF Sha256
      <3> QED BY <2>1, <3>1, <3>3
    <2>2. CASE mp' = [mp EXCEPT ![key] = put_msg]
      <3>1. mp'[key] = put_msg
        BY <1>5, <2>2 DEF IInv, TableInv
      <3> QED BY <1>6, <3>1
    <2> QED BY <1>6, <2>1, <2>2 DEF PutReturns
  <1>9. key \in Written => ShownUnder(type_register', mp'[key]) = b.payload
    <2> SUFFICES ASSUME key \in Written
                 PROVE  ShownUnder(type_register', mp'[key]) = b.payload
      OBVIOUS
    <2>1. type_register[key] = CallOf(b).type /\ type_register[key] # None
      BY <1>5 DEF RestInv, WrittenInv, IInv, TypedInv
    <2>2. type_register'[key] = type_register[key]
      BY <1>5, <2>1, EntriesKeepTheirType
    <2>3. b.payload[1] \in DOMAIN ScalarType /\ Showable(b.payload)
      BY OneType
    <2>4. CallOf(b).type # "NONE"
      BY <2>3 DEF CallOf, ScalarType
    <2>5. mp'[key].frame \in CanFrame
      BY <1>8 DEF CAN_MESSAGE
    <2>6. Conv!Decode(CallOf(b).type, mp'[key].frame) = b.payload
      BY <1>5, <1>8, <2>3, <2>5, RoundTrip
    <2> QED BY <1>8, <2>1, <2>2, <2>4, <2>6 DEF ShownUnder
  <1>10. ASSUME NEW k \in Written, k # key
         PROVE  ShownUnder(type_register', mp'[k]) = ShownUnder(type_register, mp[k])
    <2>1. k \in Key
      BY DEF Written, ClientKeys
    <2>2. mp[k] = None \/ (KeyOf(mp[k]) \in Key /\ Entered(KeyOf(mp[k])))
      BY <2>1 DEF IInv, TableInv, TypedInv
    <2> QED BY <1>7, <1>10, <2>1, <2>2, ShownStays
  <1>11. ValuesOf(type_register', mp')
            = [k \in Written |-> IF k = Head(P)[1] THEN Head(P)[2]
                                 ELSE ValuesOf(type_register, mp)[k]]
    <2> HIDE DEF P, key
    <2> QED BY <1>4, <1>9, <1>10 DEF ValuesOf
  <1>12. SeenOf(type_register', asked', answer') = SeenOf(type_register, asked, answer)
    BY SeenStays
  <1>13. After(posted', Applied') = Tail(P) /\ After(posted, Applied) = P
    BY <1>3, <1>4
  <1>14. P # <<>>
    BY <1>4
  <1> HIDE DEF P
  <1> QED BY <1>11, <1>12, <1>13, <1>14, Mapping DEF Promise!Apply, Promise!vars

(* The main loop applies the posts one after the other, each when the put   *)
(* of its frame returns; no frame of the bus reaches a written key.         *)
LEMMA MainApplies ==
    ASSUME IInv, RestInv, Read \/ MainStep, UNCHANGED restVars
    PROVE  Promise!Apply \/ UNCHANGED Promise!vars
  <1>1. [Next]_vars /\ UNCHANGED <<asked, posted>>
    BY DEF Next, restVars
  <1>2. ASSUME UNCHANGED <<mp, answer>>, Applied' = Applied PROVE UNCHANGED Promise!vars
    BY <1>1, <1>2, NothingToTheStore
  <1>3. UNCHANGED tableVars => UNCHANGED <<mp, answer>>
    BY DEF tableVars
  <1>4. UNCHANGED queueVars => UNCHANGED taken
    BY DEF queueVars
  <1>5. CASE ReadTimeout \/ GotStore \/ WriteSocket \/ SendCheck \/ SendRegister \/ SendStore
    <2>1. Applied' = Applied
      BY <1>4, <1>5 DEF ReadTimeout, GotStore, WriteSocket, SendCheck, SendRegister, SendStore,
                        Applied
    <2>2. UNCHANGED <<mp, answer>>
      BY <1>3, <1>5 DEF ReadTimeout, GotStore, WriteSocket, SendCheck, SendRegister, SendStore
    <2> QED BY <1>2, <2>1, <2>2
  <1>6. ASSUME NEW frame \in BusFrames, Receive(frame) PROVE UNCHANGED Promise!vars
    <2>1. Applied' = Applied
      BY <1>4, <1>6 DEF Receive, Applied
    <2>2. UNCHANGED <<mp, answer>>
      BY <1>6 DEF Receive, Table!PutCall, Table!getVars, tableVars
    <2> QED BY <1>2, <2>1, <2>2
  <1>7. CASE PollQueue
    <2>1. taken' = taken
      BY <1>4, <1>7, QueueMain DEF PollQueue, IInv
    <2>2. Applied' = Applied
      BY <1>7, <2>1 DEF PollQueue, Applied
    <2> QED BY <1>2, <1>3, <1>7, <2>2 DEF PollQueue
  <1>8. CASE Dequeue
    <2>1. Applied' = Applied
      <3>1. CASE Queue!DequeueCheck /\ main_pc' = IF deq_pc' = "pop" THEN "dequeue" ELSE "read"
        <4>1. taken' = taken
          BY <3>1, QueueMain DEF IInv
        <4> QED BY <1>8, <3>1, <4>1 DEF Dequeue, Applied
      <3>2. CASE Queue!DequeuePop /\ main_pc' = "write"
        <4>1. PICK m \in Queued : taken' = Append(taken, m)
          BY <3>2, QueueMain DEF IInv
        <4>2. Len(taken') = Len(taken) + 1 /\ Len(taken) \in Nat
          BY <4>1 DEF IInv, QueueInv
        <4> QED BY <1>8, <3>2, <4>2 DEF Dequeue, Applied
      <3> QED BY <1>8, <3>1, <3>2 DEF Dequeue
    <2> QED BY <1>2, <1>3, <1>8, <2>1 DEF Dequeue
  <1>9. CASE GotPut
    <2>1. /\ main_pc = "got_put" /\ PutUntil("got_store") /\ UNCHANGED taken
          /\ put_pc # "idle" /\ (PutGoesOn \/ PutReturns) /\ UNCHANGED answer
      BY <1>4, <1>9, PutEffects DEF GotPut, PutUntil, IInv
    <2>2. Applied' = Applied
      BY <2>1 DEF PutUntil, Applied
    <2>3. KeyOf(put_msg) \notin Written
      <3>1. put_msg = received[Len(received)] /\ Len(received) \in DOMAIN received
        BY <2>1 DEF IInv, MainInv, TickInv, Receiving
      <3> QED BY <3>1 DEF RestInv, WrittenInv
    <2>4. \A k \in Written : mp'[k] = mp[k]
      <3>1. mp \in [Key -> Entry] /\ \A k \in Written : k \in Key
        BY DEF IInv, TableInv, Written, ClientKeys
      <3> QED BY <2>1, <2>3, <3>1 DEF PutGoesOn, PutReturns
    <2> QED BY <1>1, <2>1, <2>2, <2>4, NothingToTheStore
  <1>10. CASE SendPut
    <2>1. main_pc = "send_put" /\ UNCHANGED taken
      BY <1>4, <1>10 DEF SendPut
    <2>2. CASE Table!PutCall(msg.frame, frame_sync_counter) /\ UNCHANGED main_pc
      <3>1. UNCHANGED <<mp, answer>> /\ Applied' = Applied
        BY <2>1, <2>2 DEF Table!PutCall, Table!getVars, Applied
      <3> QED BY <1>2, <3>1
    <2>3. CASE PutUntil("send_store")
      <3>1. put_pc # "idle" /\ (PutGoesOn \/ PutReturns) /\ UNCHANGED answer
        BY <2>3, PutEffects DEF PutUntil, IInv
      <3>2. CASE PutGoesOn
        <4>1. UNCHANGED <<mp, answer>> /\ Applied' = Applied
          BY <2>1, <2>3, <3>1, <3>2 DEF PutUntil, PutGoesOn, Applied
        <4> QED BY <1>2, <4>1
      <3>3. CASE PutReturns
        <4>1. main_pc' = "send_store"
          BY <2>3, <3>3 DEF PutUntil, PutReturns
        <4> QED BY <1>1, <2>1, <3>1, <3>3, <4>1, PutApplies
      <3> QED BY <3>1, <3>2, <3>3
    <2> QED BY <1>10, <2>2, <2>3 DEF SendPut
  <1> QED BY <1>5, <1>6, <1>7, <1>8, <1>9, <1>10 DEF Read, MainStep

(* A post that is accepted joins the end of the line.                       *)
LEMMA PushPosts ==
    ASSUME IInv, RestInv, NEW w \in Workers, Queue!Push(w), PostPush(w)
    PROVE  Promise!Next
  <1>1. PICK b \in PostedBodies : posted' = Append(posted, <<U16(b.id[2]), b.payload>>)
    BY PushKeepsLog DEF RestInv
  <1>2. UNCHANGED <<taken, asked>>
    BY PushKeepsLog DEF RestInv
  <1>3. UNCHANGED <<mp, answer, type_register, main_pc>>
    BY DEF PostPush, tableVars, convVars, mainVars
  <1>4. Applied' = Applied
    BY <1>2, <1>3 DEF Applied
  <1> DEFINE e == <<U16(b.id[2]), b.payload>>
  <1>5. After(posted', Applied')
           = Append(After(posted, Applied), <<U16(b.id[2]), b.payload>>)
    <2>1. e \in Key \X {c.payload : c \in PostedBodies}
      BY BodyCalls
    <2>2. posted \in Seq(Key \X {c.payload : c \in PostedBodies})
      BY DEF RestInv, LogInv
    <2>3. Applied \in Nat /\ Applied <= Len(posted)
      BY AppliedWerePosted DEF RestInv
    <2>4. After(Append(posted, e), Applied)
             = Append(After(posted, Applied), e)
      BY <2>1, <2>2, <2>3, AfterAppend
    <2> QED BY <1>1, <1>4, <2>4
  <1>6. Promise!Post(U16(b.id[2]), b.payload)
    BY <1>2, <1>3, <1>5, Mapping DEF Promise!Post, Promise!vars
  <1>7. U16(b.id[2]) \in Key /\ b.payload \in {c.payload : c \in PostedBodies}
    BY BodyCalls
  <1> QED BY <1>6, <1>7 DEF Promise!Next

(* GET shows the value of the moment in which get reads the table.          *)
LEMMA GetShows ==
    ASSUME IInv, RestInv, NEW r \in Readers, Get(r)
    PROVE  [Promise!Next]_(Promise!vars)
  <1>1. [Next]_vars
    BY DEF Get, Next
  <1>2. asked \in [Readers -> Key \cup {None}]
    BY DEF RestInv, PostInv
  <1>3. UNCHANGED <<mp, posted, taken, main_pc>>
    <2>1. CASE RestGet(r)
      BY <2>1, GetPlain, GetCallPlain DEF Get, RestGet, putVars, IInv, queueVars, mainVars
    <2>2. CASE RestConvert(r) \/ RestList(r)
      BY <2>2, ListPlain DEF Get, RestConvert, RestList, tableVars, putVars, queueVars, mainVars
    <2> QED BY <2>1, <2>2 DEF Get
  <1>4. Applied' = Applied
    BY <1>3 DEF Applied
  <1>5. ASSUME answer' = answer, get_pc[r] = "idle" \/ get_pc'[r] # "idle"
        PROVE  UNCHANGED Promise!vars
    <2>1. asked' = asked
      BY <1>2, <1>5 DEF Get
    <2> QED BY <1>1, <1>3, <1>4, <1>5, <2>1, NothingToTheStore
  <1>6. get_pc \in [Readers -> {"idle", "check", "read"}]
    BY DEF IInv, TableInv
  <1>7. CASE RestConvert(r)
    <2>1. UNCHANGED <<answer, get_pc>> /\ get_pc[r] = "idle"
      BY <1>6, <1>7 DEF RestConvert, tableVars, IInv, ReaderInv
    <2> QED BY <1>5, <2>1
  <1>8. CASE RestList(r)
    BY <1>5, <1>8, ListPlain DEF RestList, GetLists
  <1>9. CASE RestGet(r)
    <2>1. (GetCalls(r) \/ GetFinds(r) \/ GetReturns(r)) /\ UNCHANGED type_register
      BY <1>9, GetPlain, GetCallPlain DEF RestGet, IInv, convVars
    <2>2. CASE GetCalls(r) \/ GetFinds(r)
      <3>1. answer' = answer /\ get_pc'[r] # "idle"
        BY <1>6, <2>2 DEF GetCalls, GetFinds
      <3> QED BY <1>5, <3>1
    <2>3. CASE GetReturns(r)
      <3>1. PICK k \in Key : k = get_key[r]
        BY <2>3 DEF GetReturns, IInv, TableInv
      <3>2. asked' = [asked EXCEPT ![r] = k] /\ answer' = [answer EXCEPT ![r] = mp[k]]
        BY <1>6, <2>3, <3>1 DEF Get, GetReturns
      <3>3. /\ asked'[r] = k /\ answer'[r] = mp[k]
            /\ \A c \in Readers : c # r => asked'[c] = asked[c] /\ answer'[c] = answer[c]
        BY <1>2, <3>2 DEF IInv, TableInv
      <3>4. /\ After(posted', Applied') = After(posted, Applied)
            /\ ValuesOf(type_register', mp') = ValuesOf(type_register, mp)
        BY <1>3, <1>4, <2>1
      <3>5. CASE k \in Written
        <4>1. SeenOf(type_register', asked', answer') =
                 [SeenOf(type_register, asked, answer) EXCEPT
                     ![r] = <<k, ValuesOf(type_register, mp)[k]>>]
          BY <2>1, <3>3, <3>5 DEF SeenOf, ValuesOf
        <4>2. Promise!Get(r, k)
          BY <3>4, <4>1, Mapping DEF Promise!Get, Promise!vars
        <4> QED BY <3>5, <4>2 DEF Promise!Next
      <3>6. CASE k \notin Written
        <4>1. SeenOf(type_register', asked', answer') =
                 [SeenOf(type_register, asked, answer) EXCEPT ![r] = None]
          BY <2>1, <3>3, <3>6 DEF SeenOf
        <4>2. Promise!Leave(r)
          BY <3>4, <4>1, Mapping DEF Promise!Leave, Promise!vars
        <4> QED BY <4>2 DEF Promise!Next
      <3> QED BY <3>5, <3>6
    <2> QED BY <2>1, <2>2, <2>3
  <1> QED BY <1>7, <1>8, <1>9 DEF Get

(* Every step of the handlers and of the main loop is one of the store of   *)
(* values, or none.                                                         *)
LEMMA RestIsAValueStore ==
    IInv /\ RestInv /\ [RestNext]_<<vars, restVars>> => [Promise!Next]_(Promise!vars)
  <1> SUFFICES ASSUME IInv, RestInv, [RestNext]_<<vars, restVars>>
               PROVE  [Promise!Next]_(Promise!vars)
    OBVIOUS
  <1>1. [Next]_vars
    BY RestSteps
  <1>2. ASSUME UNCHANGED <<mp, answer, asked, posted, taken, main_pc>>
        PROVE  UNCHANGED Promise!vars
    <2>1. Applied' = Applied
      BY <1>2 DEF Applied
    <2> QED BY <1>1, <1>2, <2>1, NothingToTheStore
  <1>3. CASE (Read \/ MainStep) /\ UNCHANGED restVars
    BY <1>3, MainApplies DEF Promise!Next
  <1>4. ASSUME NEW w \in Workers, NEW b \in Bodies, PostRefused(w, b) \/ PostIgnored(w, b)
        PROVE  UNCHANGED Promise!vars
    <2>1. UNCHANGED <<mp, answer, asked, posted, taken, main_pc>>
      BY <1>4 DEF PostRefused, PostIgnored, vars, tableVars, queueVars, mainVars
    <2> QED BY <1>2, <2>1
  <1>5. ASSUME NEW w \in Workers, NEW b \in Bodies, PostEnqueue(w, b)
        PROVE  UNCHANGED Promise!vars
    <2>1. UNCHANGED <<mp, answer, asked, posted, main_pc>>
      BY <1>5 DEF PostEnqueue, tableVars, mainVars
    <2>2. UNCHANGED taken
      BY <1>5 DEF PostEnqueue, Queue!Enqueue, Queue!deqVars
    <2> QED BY <1>2, <2>1, <2>2
  <1>6. ASSUME NEW w \in Workers, PostPush(w) PROVE [Promise!Next]_(Promise!vars)
    <2>1. CASE Queue!HashDone(w) /\ UNCHANGED restVars
      <3>1. UNCHANGED <<mp, answer, asked, posted, taken, main_pc>>
        BY <1>6, <2>1 DEF PostPush, Queue!HashDone, Queue!deqVars, restVars, tableVars, mainVars
      <3> QED BY <1>2, <3>1
    <2>2. CASE Queue!Push(w)
      BY <1>6, <2>2, PushPosts
    <2> QED BY <1>6, <2>1, <2>2 DEF PostPush
  <1>7. ASSUME NEW r \in Readers, Get(r) PROVE [Promise!Next]_(Promise!vars)
    BY <1>7, GetShows
  <1>8. CASE UNCHANGED <<vars, restVars>>
    <2>1. UNCHANGED <<mp, answer, asked, posted, taken, main_pc>>
      BY <1>8 DEF vars, tableVars, queueVars, mainVars, restVars
    <2> QED BY <1>2, <2>1
  <1> QED BY <1>3, <1>4, <1>5, <1>6, <1>7, <1>8 DEF RestNext, Post

(* At first nothing is under way, no key has a value and nobody has asked.  *)
LEMMA StoreIsEmpty == RestInit => Promise!Init
  <1> SUFFICES ASSUME RestInit PROVE Promise!Init
    OBVIOUS
  <1>1. /\ mp = [k \in Key |-> None] /\ taken = <<>> /\ main_pc = "read" /\ posted = <<>>
        /\ asked = [r \in Readers |-> None]
    BY SameInTable DEF RestInit, Init, Table!Init, Queue!Init
  <1>2. \A k \in Written : k \in Key /\ mp[k] = None /\ Shown(mp[k]) = None
    BY <1>1 DEF Written, ClientKeys, Shown
  <1>3. UnderWay = <<>>
    BY <1>1 DEF UnderWay, Applied
  <1>4. None \notin Written
    BY NoneAssumption DEF Written, ClientKeys
  <1> QED BY <1>1, <1>2, <1>3, <1>4 DEF Promise!Init

(* For any bodies, frames on the bus, configuration, filter, workers and    *)
(* readers: of an id that only clients write, with scalars of one type that *)
(* a document can show (no negative numbers, no strings longer than a       *)
(* frame), what POST accepted is what GET shows, the same value, in order.  *)
THEOREM RestImplementsValueStore == RestSpec => PostedIsShown
  <1>1. RestInit => Promise!Init
    BY StoreIsEmpty
  <1>2. IInv /\ RestInv /\ [RestNext]_<<vars, restVars>> => [Promise!Next]_(Promise!vars)
    BY RestIsAValueStore
  <1> QED BY <1>1, <1>2, RestInvariance, PTL DEF RestSpec, PostedIsShown, Promise!Spec
===============================================================================
