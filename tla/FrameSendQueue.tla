---------------------------- MODULE FrameSendQueue ----------------------------
(***************************************************************************)
(* frame_send_queue: the frames clients of POST /send want on the bus.     *)
(* HTTP workers enqueue, the main thread polls and dequeues.  The member   *)
(* `lock' guards message_queue; the member `sha256', with which            *)
(* enqueue_int16 hashes, is shared by the workers and guarded by nothing.  *)
(***************************************************************************)
EXTENDS CanMessage

CONSTANTS
    Workers,   \* the HTTP workers that handle POST /send
    Requests,  \* the calls they make
    None,      \* no message in the making
    MaxSends   \* bound on the number of calls in a behaviour

(* A call of one of the enqueue_* functions.  The function is named by the *)
(* type it files the frame under; arg is <<value>> for a number or a bool, *)
(* the bytes for a string or an array.                                     *)
SendType == {"INT", "BOOL", "STR", "BYTE"}
Request  == [type : SendType, id : Ids, arg : Seq(Nat)]

VARIABLES
    message_queue,  \* std::queue<CAN_MESSAGE>
    send_pc,        \* where each worker is in enqueue_*
    send_msg,       \* tmp, the message it assembles
    overlapped,     \* workers whose use of sha256 overlapped another's
    deq_pc,         \* where the main thread is between polling and popping
    accepted,       \* history: every message pushed, in order
    taken           \* history: every message dequeued, in order

sendVars == <<send_pc, send_msg, overlapped, accepted>>
deqVars  == <<deq_pc, taken>>
vars     == <<message_queue, sendVars, deqVars>>

(* Faulty: the length is taken as it comes. *)
Unclamped(bytes) == bytes

(* sizeof data is the most enqueue_bytes and enqueue_array take. *)
Clamp(bytes) == SubSeq(bytes, 1, IF Len(bytes) > BufLen THEN BufLen ELSE Len(bytes))

(* The bytes of the frame: an int16 low byte first, a bool as 0 or 1. *)
Encode(req) ==
    CASE req.type = "INT"  -> <<req.arg[1] % 256, (req.arg[1] \div 256) % 256>>
      [] req.type = "BOOL" -> <<IF req.arg[1] = 0 THEN 0 ELSE 1>>
      [] OTHER             -> Clamp(req.arg)

(* cf_to_write is not initialised: what follows the payload is arbitrary.  *)
(* The parameter _id is an unsigned short.                                 *)
Assemble(req, stack) ==
    [id   |-> <<0, U16(req.id)>>,
     len  |-> Len(Encode(req)),
     data |-> Memcpy(stack, Encode(req))]

QueuedMessage == [frame : CanFrame, hash : Hash, type : SendType]

ASSUME RequestsAssumption ==
    /\ MaxSends \in Nat
    /\ Requests \subseteq Request
    /\ \A req \in Requests : <<0, U16(req.id)>> \in Ids
    /\ \A req \in Requests : Encode(req) \in Seq(Byte)

Init == /\ message_queue = <<>>
        /\ send_pc    = [w \in Workers |-> "idle"]
        /\ send_msg   = [w \in Workers |-> None]
        /\ overlapped = {}
        /\ deq_pc     = "poll"
        /\ accepted   = <<>>
        /\ taken      = <<>>

Hashing == {w \in Workers : send_pc[w] = "hashing"}

Busy == {w \in Workers : send_pc[w] # "idle"}

(* Assembles the frame.  enqueue_int16 then enters sha256(data, len), a    *)
(* reset, an add and a getHash on the shared object: if another worker is  *)
(* inside, both of them may read back a mixture.                           *)
Enqueue(w, req, stack) ==
    LET msg == [frame |-> Assemble(req, stack), hash |-> NoHash, type |-> req.type] IN
    /\ send_pc[w] = "idle"
    /\ Len(accepted) + Cardinality(Busy) < MaxSends
    /\ send_msg' = [send_msg EXCEPT ![w] = msg]
    /\ IF req.type = "INT"
       THEN /\ send_pc' = [send_pc EXCEPT ![w] = "hashing"]
            /\ overlapped' = IF Hashing = {} THEN overlapped
                             ELSE overlapped \cup Hashing \cup {w}
       ELSE /\ send_pc' = [send_pc EXCEPT ![w] = "push"]
            /\ UNCHANGED overlapped
    /\ UNCHANGED <<message_queue, accepted, deqVars>>

Digests(w) == {Sha256(Payload(send_msg[w].frame))}
                  \cup (IF w \in overlapped THEN {Garbled} ELSE {})

HashDone(w) ==
    /\ send_pc[w] = "hashing"
    /\ \E h \in Digests(w) : send_msg' = [send_msg EXCEPT ![w].hash = h]
    /\ overlapped' = overlapped \ {w}
    /\ send_pc' = [send_pc EXCEPT ![w] = "push"]
    /\ UNCHANGED <<message_queue, accepted, deqVars>>

Push(w) == /\ send_pc[w] = "push"
           /\ message_queue' = Append(message_queue, send_msg[w])
           /\ accepted' = Append(accepted, send_msg[w])
           /\ send_pc'  = [send_pc EXCEPT ![w] = "idle"]
           /\ send_msg' = [send_msg EXCEPT ![w] = None]
           /\ UNCHANGED <<overlapped, deqVars>>

(* Faulty: the loop dequeues without asking. *)
PollAlways == /\ deq_pc = "poll"
              /\ deq_pc' = "dequeue"
              /\ UNCHANGED <<message_queue, sendVars, taken>>

(* The main loop: if (frame_queue.message_queued() > 0) dequeue(). *)
Poll == /\ deq_pc = "poll"
        /\ Len(message_queue) > 0
        /\ deq_pc' = "dequeue"
        /\ UNCHANGED <<message_queue, sendVars, taken>>

(* Faulty: off by one, the last message is left. *)
DequeueCheckOff ==
    /\ deq_pc = "dequeue"
    /\ deq_pc' = IF Len(message_queue) > 1 THEN "pop" ELSE "poll"
    /\ UNCHANGED <<message_queue, sendVars, taken>>

(* dequeue counts again before it takes the lock a second time. *)
DequeueCheck ==
    /\ deq_pc = "dequeue"
    /\ deq_pc' = IF Len(message_queue) > 0 THEN "pop" ELSE "poll"
    /\ UNCHANGED <<message_queue, sendVars, taken>>

(* Faulty: front() without pop(). *)
DequeueFront ==
    /\ deq_pc = "pop"
    /\ taken' = Append(taken, Head(message_queue))
    /\ deq_pc' = "poll"
    /\ UNCHANGED <<message_queue, sendVars>>

DequeuePop ==
    /\ deq_pc = "pop"
    /\ taken' = Append(taken, Head(message_queue))
    /\ message_queue' = Tail(message_queue)
    /\ deq_pc' = "poll"
    /\ UNCHANGED sendVars

Main == Poll \/ DequeueCheck \/ DequeuePop

Worker(w) == \/ \E req \in Requests, stack \in Buffer : Enqueue(w, req, stack)
             \/ HashDone(w)
             \/ Push(w)

Next == Main \/ \E w \in Workers : Worker(w)

(* A worker that has entered enqueue_* runs it to the end, and so does the *)
(* main thread once it has seen the queue non-empty.  That it polls at all *)
(* is not assumed: it does so only when a read of the socket has timed out.*)
Fairness == /\ WF_vars(DequeueCheck) /\ WF_vars(DequeuePop)
            /\ \A w \in Workers : WF_vars(HashDone(w)) /\ WF_vars(Push(w))

Spec == Init /\ [][Next]_vars /\ Fairness

-------------------------------------------------------------------------------
(* Types; in particular every frame fits its buffer, whatever the length of *)
(* the string or array a client posted.                                     *)
TypeOK == /\ message_queue \in Seq(QueuedMessage)
          /\ send_pc    \in [Workers -> {"idle", "hashing", "push"}]
          /\ send_msg   \in [Workers -> QueuedMessage \cup {None}]
          /\ overlapped \in SUBSET Workers
          /\ deq_pc     \in {"poll", "dequeue", "pop"}
          /\ accepted   \in Seq(QueuedMessage)
          /\ taken      \in Seq(QueuedMessage)

(* The queue seen non-empty by message_queued is still non-empty when       *)
(* front() and pop() are called under another lock: front() on an empty     *)
(* std::queue is undefined, and the invalid message of dequeue's else       *)
(* branch is never produced.                                                *)
NeverPopsEmpty == deq_pc \in {"dequeue", "pop"} => message_queue # <<>>

(* Every accepted frame is handed to the main loop at most once, in the     *)
(* order in which the workers pushed, and none is lost or made up.          *)
AcceptedInOrder == accepted = taken \o message_queue

(* The bus falls silent again and again for a read timeout, so that the     *)
(* main loop gets to its poll while frames wait.                            *)
PollsRecur == WF_vars(Poll)

(* Every call of enqueue_* that a worker began reaches the main loop, on a  *)
(* bus with gaps: with n calls begun, n messages are eventually dequeued.   *)
EveryCallIsTaken ==
    PollsRecur => \A n \in 1 .. MaxSends :
        (Len(accepted) + Cardinality(Busy) >= n) ~> (Len(taken) >= n)
===============================================================================
