-------------------------------- MODULE Gateway --------------------------------
(***************************************************************************)
(* can2rest as a whole, once it is set up: the main loop between the CAN   *)
(* socket, the frame table, the send queue and the type register, and the  *)
(* HTTP workers that use the same three objects at the same time.  The     *)
(* components keep their own modules; a step of the main loop is a step of *)
(* the component it calls together with the loop's own control.  What POST *)
(* /send does before it enqueues is RestApi, what store_frame does after   *)
(* its conversion RedisGateway.                                            *)
(***************************************************************************)
EXTENDS CanMessage

CONSTANTS
    Readers,      \* HTTP workers on GET /receive/<id> and GET /list
    Workers,      \* HTTP workers on POST /send
    Requests,     \* what they enqueue (FrameSendQueue)
    BusFrames,    \* <<id, payload>> of the frames other nodes put on the bus
    Config,       \* key -> type of its CAN_CONVERSION_<id> entry, or None
    filter_list,  \* key -> TRUE, FALSE or None: can_id_filter
    invert,       \* what can_id_filter answers for an id it does not list
    MainThread,   \* the main thread, as a caller of convert_frame
    None,
    MaxReceives,  \* bound on the frames that pass the filter
    MaxSends      \* bound on the frames enqueued

SYNC_FRAME_ID == <<0, 42>>

VARIABLES
    \* can_hashtable
    mp, put_pc, put_msg, get_pc, get_key, answer, listing, last,
    \* frame_send_queue
    message_queue, send_pc, send_msg, overlapped, deq_pc, accepted, taken,
    \* can_frame_to_json
    type_register, reg_pc, reg_send, json, shown, sent,
    \* main
    main_pc,             \* where the main loop is
    fr,                  \* the frame buffer every read goes into
    frame_sync_counter,
    \* the workers of GET /receive
    rest_pc,             \* "idle", "get" or "convert"
    \* history
    received             \* the messages of the frames that passed the filter

tableVars == <<mp, put_pc, put_msg, get_pc, get_key, answer, listing, last>>
queueVars == <<message_queue, send_pc, send_msg, overlapped, deq_pc, accepted, taken>>
convVars  == <<type_register, reg_pc, reg_send, json, shown, sent>>
mainVars  == <<main_pc, fr, frame_sync_counter, received>>
vars      == <<tableVars, queueVars, convVars, mainVars, rest_pc>>

Table == INSTANCE CanHashtable WITH Frames <- CanFrame, Tick <- Nat
Queue == INSTANCE FrameSendQueue
Conv  == INSTANCE FrameToJson
             WITH Callers  <- Readers \cup {MainThread},
                  Messages <- CAN_MESSAGE,
                  Sends    <- Key \X Queue!SendType

(* A frame on the bus fits the buffer; a call of enqueue_* is one, of an id *)
(* of 16 bits and of bytes; the configuration types what it names; None is  *)
(* none of the values, and no worker is the main thread.                    *)
ASSUME BusAssumption ==
    \A frame \in BusFrames :
        frame[1] \in Ids /\ frame[2] \in Seq(Byte) /\ Len(frame[2]) <= BufLen
ASSUME CallsAssumption ==
    /\ Requests \subseteq Queue!Request
    /\ \A req \in Requests : <<0, U16(req.id)>> \in Ids /\ Queue!Encode(req) \in Seq(Byte)
ASSUME ConfigAssumption ==
    Config \in [Key -> (CONVERSATION_TYPE \ {"NONE"}) \cup {None}]
ASSUME NoneAssumption ==
    /\ None \notin CAN_MESSAGE /\ None \notin Key /\ None \notin CONVERSATION_TYPE
    /\ None \notin Key \X Queue!SendType
ASSUME ThreadsAssumption == MainThread \notin Readers
ASSUME BoundsAssumption  == MaxReceives \in Nat /\ MaxSends \in Nat

(* scpp::CanFrame fr: id and len are 0, the bytes are not initialised. *)
NoFrame == [id : {<<0, 0>>}, len : {0}, data : Buffer]

Init == /\ Table!Init
        /\ Queue!Init
        /\ Conv!Init
        /\ main_pc = "read"
        /\ fr \in NoFrame
        /\ frame_sync_counter = 0
        /\ rest_pc  = [r \in Readers |-> "idle"]
        /\ received = <<>>

-------------------------------------------------------------------------------
(* can_id_filter *)
check_message(k) == IF filter_list[k] = None THEN invert ELSE filter_list[k]

(* SocketCan::read copies the len bytes of the frame over the old buffer. *)
ReadInto(f, frame) ==
    [id |-> frame[1], len |-> Len(frame[2]), data |-> Memcpy(f.data, frame[2])]

(* Faulty: a sync frame sets the counter, back as well as forward. *)
NextTickUnguarded(f, tick) ==
    IF f.id = SYNC_FRAME_ID THEN f.data[2] * 256 + f.data[1] + 1 ELSE tick + 1

(* A sync frame lifts the counter to the 16-bit number in its first two    *)
(* bytes, never lowers it; every accepted frame then counts one.           *)
NextTick(f, tick) ==
    LET i == f.data[2] * 256 + f.data[1] IN
    IF f.id = SYNC_FRAME_ID /\ i > tick THEN i + 1 ELSE tick + 1

(* The message of the frame last read, as put returns it. *)
conv_msg == Table!NewMessage(fr, frame_sync_counter)

Receive(frame) ==
    LET f == ReadInto(fr, frame) IN
    /\ main_pc = "read"
    /\ fr' = f
    /\ IF check_message(U16(f.id))
       THEN /\ Len(received) < MaxReceives
            /\ Table!PutCall(f, frame_sync_counter)
            /\ received' = Append(received, Table!NewMessage(f, frame_sync_counter))
            /\ main_pc' = "got_put"
       ELSE UNCHANGED <<tableVars, main_pc, received>>
    /\ UNCHANGED <<queueVars, convVars, frame_sync_counter, rest_pc>>

(* The steps of a put the main loop waits for before it goes on at next. *)
PutUntil(next) ==
    /\ Table!PutCheck \/ Table!PutCompare \/ Table!PutWrite
    /\ main_pc' = IF put_pc' = "idle" THEN next ELSE main_pc

GotPut == /\ main_pc = "got_put"
          /\ PutUntil("got_store")
          /\ UNCHANGED <<queueVars, convVars, fr, frame_sync_counter, received, rest_pc>>

GotStore == /\ main_pc = "got_store"
            /\ Conv!ConvertFrame(MainThread, conv_msg)
            /\ frame_sync_counter' = NextTick(fr, frame_sync_counter)
            /\ main_pc' = "read"
            /\ UNCHANGED <<tableVars, queueVars, fr, received, rest_pc>>

(* No frame within the 3 ms read timeout: the loop looks at the send queue. *)
ReadTimeout == /\ main_pc = "read"
               /\ main_pc' = "poll"
               /\ UNCHANGED <<tableVars, queueVars, convVars, fr, frame_sync_counter,
                              received, rest_pc>>

(* Faulty: off by one, a single message is left in the queue. *)
PollQueueOff ==
    /\ main_pc = "poll"
    /\ \/ Len(message_queue) > 1 /\ Queue!Poll /\ main_pc' = "dequeue"
       \/ Len(message_queue) <= 1 /\ main_pc' = "read" /\ UNCHANGED queueVars
    /\ UNCHANGED <<tableVars, convVars, fr, frame_sync_counter, received, rest_pc>>

PollQueue ==
    /\ main_pc = "poll"
    /\ \/ Queue!Poll /\ main_pc' = "dequeue"
       \/ Len(message_queue) = 0 /\ main_pc' = "read" /\ UNCHANGED queueVars
    /\ UNCHANGED <<tableVars, convVars, fr, frame_sync_counter, received, rest_pc>>

Dequeue ==
    /\ main_pc = "dequeue"
    /\ \/ Queue!DequeueCheck /\ main_pc' = IF deq_pc' = "pop" THEN "dequeue" ELSE "read"
       \/ Queue!DequeuePop /\ main_pc' = "write"
    /\ UNCHANGED <<tableVars, convVars, fr, frame_sync_counter, received, rest_pc>>

(* The message being sent. *)
msg == taken[Len(taken)]

(* The write succeeds or fails; its status is logged and nothing depends on it. *)
WriteSocket ==
    /\ main_pc = "write"
    /\ main_pc' = "send_check"
    /\ UNCHANGED <<tableVars, queueVars, convVars, fr, frame_sync_counter, received, rest_pc>>

(* Faulty: the loop files the frame before the type is registered. *)
SendCheckThenPut ==
    /\ main_pc = "send_check"
    /\ Conv!SendCheck(<<U16(msg.frame.id), msg.type>>)
    /\ main_pc' = "send_put"
    /\ UNCHANGED <<tableVars, queueVars, fr, frame_sync_counter, received, rest_pc>>

(* Faulty: no auto registration. *)
SendUnregistered ==
    /\ main_pc = "send_check"
    /\ main_pc' = "send_put"
    /\ UNCHANGED <<tableVars, queueVars, convVars, fr, frame_sync_counter, received,
                   rest_pc>>

SendCheck ==
    /\ main_pc = "send_check"
    /\ Conv!SendCheck(<<U16(msg.frame.id), msg.type>>)
    /\ main_pc' = IF reg_pc' = "register" THEN "send_register" ELSE "send_put"
    /\ UNCHANGED <<tableVars, queueVars, fr, frame_sync_counter, received, rest_pc>>

SendRegister ==
    /\ main_pc = "send_register"
    /\ Conv!SendRegister
    /\ main_pc' = "send_put"
    /\ UNCHANGED <<tableVars, queueVars, fr, frame_sync_counter, received, rest_pc>>

(* Faulty: a sent frame is filed with the tick 0 of its own message. *)
SendPutOwnTick ==
    /\ main_pc = "send_put"
    /\ \/ Table!PutCall(msg.frame, 0) /\ UNCHANGED main_pc
       \/ PutUntil("send_store")
    /\ UNCHANGED <<queueVars, convVars, fr, frame_sync_counter, received, rest_pc>>

(* Faulty: a sent frame keeps the digest it was queued with. *)
SendPutOwnHash ==
    /\ main_pc = "send_put"
    /\ \/ /\ put_pc = "idle" /\ put_pc' = "check"
          /\ put_msg' = [frame |-> msg.frame, sync_tick |-> frame_sync_counter, hash |-> msg.hash]
          /\ UNCHANGED <<mp, get_pc, get_key, answer, listing, last, main_pc>>
       \/ PutUntil("send_store")
    /\ UNCHANGED <<queueVars, convVars, fr, frame_sync_counter, received, rest_pc>>

(* Faulty: a sent frame goes to Redis and not into the table. *)
SendPutSkipped ==
    /\ main_pc = "send_put"
    /\ main_pc' = "send_store"
    /\ UNCHANGED <<tableVars, queueVars, convVars, fr, frame_sync_counter, received, rest_pc>>

SendPut ==
    /\ main_pc = "send_put"
    /\ \/ Table!PutCall(msg.frame, frame_sync_counter) /\ UNCHANGED main_pc
       \/ PutUntil("send_store")
    /\ UNCHANGED <<queueVars, convVars, fr, frame_sync_counter, received, rest_pc>>

(* store_frame gets the message of the queue: no tick, the queue's hash. *)
SendStore ==
    /\ main_pc = "send_store"
    /\ Conv!ConvertFrame(MainThread,
                         [frame |-> msg.frame, sync_tick |-> 0, hash |-> msg.hash])
    /\ main_pc' = "read"
    /\ UNCHANGED <<tableVars, queueVars, fr, frame_sync_counter, received, rest_pc>>

MainStep == \/ GotPut \/ GotStore
            \/ PollQueue \/ Dequeue \/ WriteSocket
            \/ SendCheck \/ SendRegister \/ SendPut \/ SendStore

Read == ReadTimeout \/ \E frame \in BusFrames : Receive(frame)

-------------------------------------------------------------------------------
(* GET /receive/<id>: get, and convert_frame of what it returned if valid. *)
RestGet(r) ==
    /\ \/ /\ rest_pc[r] = "idle"
          /\ \E k \in Key : Table!GetCall(r, k)
          /\ rest_pc' = [rest_pc EXCEPT ![r] = "get"]
       \/ /\ rest_pc[r] = "get"
          /\ Table!GetCheck(r) \/ Table!GetRead(r)
          /\ rest_pc' = [rest_pc EXCEPT ![r] =
                            IF get_pc'[r] # "idle" THEN "get"
                            ELSE IF answer'[r] # None THEN "convert" ELSE "idle"]
    /\ UNCHANGED <<queueVars, convVars, mainVars>>

RestConvert(r) ==
    /\ rest_pc[r] = "convert"
    /\ Conv!ConvertFrame(r, answer[r])
    /\ rest_pc' = [rest_pc EXCEPT ![r] = "idle"]
    /\ UNCHANGED <<tableVars, queueVars, mainVars>>

(* GET /list *)
RestList(r) == /\ rest_pc[r] = "idle"
               /\ Table!GetIdList(r)
               /\ UNCHANGED <<queueVars, convVars, mainVars, rest_pc>>

(* POST /send *)
RestSend(w) == /\ Queue!Worker(w)
               /\ UNCHANGED <<tableVars, convVars, mainVars, rest_pc>>

Next == \/ Read
        \/ MainStep
        \/ \E r \in Readers : RestGet(r) \/ RestConvert(r) \/ RestList(r)
        \/ \E w \in Workers : RestSend(w)

Spec == Init /\ [][Next]_vars

-------------------------------------------------------------------------------
(* Types of the components and of the main loop, and that the loop is       *)
(* inside a component exactly where its own control says so.                *)
TypeOK == /\ Table!TypeOK /\ Queue!TypeOK /\ Conv!TypeOK
          /\ main_pc \in {"read", "got_put", "got_store", "poll", "dequeue", "write",
                          "send_check", "send_register", "send_put", "send_store"}
          /\ fr \in CanFrame \cup NoFrame
          /\ frame_sync_counter \in Nat
          /\ rest_pc  \in [Readers -> {"idle", "get", "convert"}]
          /\ received \in Seq(CAN_MESSAGE)
          /\ put_pc # "idle" => main_pc \in {"got_put", "send_put"}
          /\ deq_pc # "poll" <=> main_pc = "dequeue"
          /\ reg_pc = "register" <=> main_pc = "send_register"

(* Two frames that passed the filter never carry the same sync tick, the    *)
(* later one carries the greater, and the next one will: neither a sync     *)
(* frame (whatever number it holds, stale bytes included) nor a send in     *)
(* between turns ticks back.                                                *)
TicksOrderFrames ==
    \A i \in DOMAIN received :
        /\ \A j \in 1 .. i - 1 : received[j].sync_tick < received[i].sync_tick
        /\ main_pc = "read" => received[i].sync_tick < frame_sync_counter

(* A client that polls GET /receive/<id> never gets an older frame after a  *)
(* newer one, across filtered frames, skipped duplicates, sends and sync    *)
(* jumps: an entry of the table is replaced by none with a smaller tick.    *)
ReadsNeverGoBack ==
    [][\A k \in Key : mp[k] # None =>
          /\ mp'[k] # None
          /\ mp[k].sync_tick <= mp'[k].sync_tick]_vars

(* What GET /receive shows is a frame that was received or sent, with the   *)
(* digest of its payload: put hashes anew, so a hash two workers garbled in *)
(* enqueue_int16 ends there, and a worker never needs the unguarded sha256  *)
(* of the converter.                                                        *)
HonestAnswers ==
    \A r \in Readers : answer[r] # None =>
        /\ answer[r].hash = Sha256(Payload(answer[r].frame))
        /\ \/ \E i \in DOMAIN received : received[i] = answer[r]
           \/ \E i \in DOMAIN taken : taken[i].frame = answer[r].frame

(* An id that clients send and nobody else uses is shown with a type from   *)
(* its very first appearance: the main loop registers the type before it    *)
(* files the frame, so no worker converts it as RAW in between.             *)
ShownAsSent ==
    \A r \in Readers :
        json[r] # None /\ json[r].type = "RAW" =>
            \/ Conv!Configured[U16(json[r].frame.id)] = "RAW"
            \/ \E i \in DOMAIN received :
                  U16(received[i].frame.id) = U16(json[r].frame.id)

(* If the bus is silent for a read timeout again and again, every frame     *)
(* accepted by POST /send is taken off the queue, and the loop gets through *)
(* with it.                                                                 *)
BusGapsRecur == []<><<ReadTimeout>>_vars
QueuedIsSent ==
    BusGapsRecur => \A n \in 1 .. MaxSends :
                       (Len(accepted) >= n) ~> (Len(taken) >= n /\ main_pc = "read")
===============================================================================
