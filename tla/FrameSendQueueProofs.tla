------------------------- MODULE FrameSendQueueProofs -------------------------
(***************************************************************************)
(* For any number of workers and any calls: the queue is well typed (every *)
(* frame fits its buffer), the main loop never pops an empty queue, and    *)
(* accepted frames come out once and in order.                             *)
(***************************************************************************)
EXTENDS FrameSendQueue, SequenceTheorems, TLAPS

(* A worker past Enqueue holds the message it assembled. *)
WorkersHoldMessage ==
    \A w \in Workers : send_pc[w] # "idle" => send_msg[w] \in QueuedMessage

IInv == /\ TypeOK
        /\ WorkersHoldMessage
        /\ NeverPopsEmpty
        /\ AcceptedInOrder

-------------------------------------------------------------------------------
(* enqueue_*: whatever the client posted, the payload fits the buffer.      *)
LEMMA EncodeFits ==
    ASSUME NEW req \in Requests
    PROVE  Encode(req) \in Seq(Byte) /\ Len(Encode(req)) \in 0 .. BufLen
  <1>1. req \in Request /\ Encode(req) \in Seq(Byte)
    BY RequestsAssumption
  <1>2. CASE req.type = "INT"
    <2>1. Encode(req) = <<req.arg[1] % 256, (req.arg[1] \div 256) % 256>>
      BY <1>2 DEF Encode
    <2> QED BY <1>1, <2>1, BufLenAssumption
  <1>3. CASE req.type = "BOOL"
    <2>1. Encode(req) = <<IF req.arg[1] = 0 THEN 0 ELSE 1>>
      BY <1>3 DEF Encode
    <2> QED BY <1>1, <2>1, BufLenAssumption
  <1>4. CASE req.type \notin {"INT", "BOOL"}
    <2>1. Encode(req) = Clamp(req.arg)
      BY <1>4 DEF Encode
    <2>2. req.arg \in Seq(Nat) /\ Len(req.arg) \in Nat
      BY <1>1 DEF Request
    <2> DEFINE n == IF Len(req.arg) > BufLen THEN BufLen ELSE Len(req.arg)
    <2>3. n \in 0 .. BufLen /\ n <= Len(req.arg)
      BY <2>2, BufLenAssumption
    <2>4. Clamp(req.arg) = SubSeq(req.arg, 1, n)
      BY DEF Clamp
    <2>5. Len(SubSeq(req.arg, 1, n)) = n
      BY <2>2, <2>3
    <2> QED BY <1>1, <2>1, <2>3, <2>4, <2>5
  <1> QED BY <1>2, <1>3, <1>4

(* The frame a worker assembles is a CanFrame, whatever was on its stack.   *)
LEMMA AssembleType ==
    ASSUME NEW req \in Requests, NEW stack \in Buffer
    PROVE  Assemble(req, stack) \in CanFrame
  <1>1. /\ <<0, U16(req.id)>> \in Ids
        /\ Encode(req) \in Seq(Byte) /\ Len(Encode(req)) \in 0 .. BufLen
    BY RequestsAssumption, EncodeFits
  <1>2. Memcpy(stack, Encode(req)) \in Buffer
    BY <1>1, BufLenAssumption DEF Memcpy, Buffer
  <1> QED BY <1>1, <1>2 DEF Assemble, CanFrame

(* Appending to the second of two sequences appends to their concatenation. *)
LEMMA AppendConcat ==
    ASSUME NEW S, NEW s \in Seq(S), NEW t \in Seq(S), NEW e \in S
    PROVE  s \o Append(t, e) = Append(s \o t, e)
  <1>1. s \o Append(t, e) \in Seq(S) /\ Append(s \o t, e) \in Seq(S)
    OBVIOUS
  <1>2. Len(s \o Append(t, e)) = Len(Append(s \o t, e))
    OBVIOUS
  <1>3. ASSUME NEW i \in 1 .. Len(s \o Append(t, e))
        PROVE  (s \o Append(t, e))[i] = Append(s \o t, e)[i]
    OBVIOUS
  <1> QED BY <1>1, <1>2, <1>3, SeqEqual

(* The empty queue satisfies the invariant.                                 *)
LEMMA InitEstablishes == Init => IInv
  BY DEF Init, IInv, TypeOK, WorkersHoldMessage, NeverPopsEmpty, AcceptedInOrder

(* Every step of a worker and of the main loop preserves the invariant.     *)
LEMMA StepPreserves == IInv /\ [Next]_vars => IInv'
  <1> SUFFICES ASSUME IInv, [Next]_vars PROVE IInv'
    OBVIOUS
  <1> USE DEF IInv
  <1>1. ASSUME NEW w \in Workers, NEW req \in Requests, NEW stack \in Buffer,
               Enqueue(w, req, stack)
        PROVE  IInv'
    <2> DEFINE msg == [frame |-> Assemble(req, stack), hash |-> NoHash,
                       type |-> req.type]
    <2>1. msg \in QueuedMessage
      BY AssembleType, RequestsAssumption
         DEF QueuedMessage, Hash, Request
    <2>2. /\ send_msg' = [send_msg EXCEPT ![w] = msg]
          /\ send_pc' = [send_pc EXCEPT ![w] = "hashing"]
             \/ send_pc' = [send_pc EXCEPT ![w] = "push"]
          /\ overlapped' = overlapped \cup Hashing \cup {w}
             \/ overlapped' = overlapped
          /\ UNCHANGED <<message_queue, accepted, deqVars>>
      BY <1>1 DEF Enqueue
    <2> HIDE DEF msg
    <2>3. TypeOK' /\ WorkersHoldMessage'
      BY <2>1, <2>2 DEF deqVars, TypeOK, Hashing, WorkersHoldMessage
    <2>4. NeverPopsEmpty' /\ AcceptedInOrder'
      BY <2>2 DEF deqVars, NeverPopsEmpty, AcceptedInOrder
    <2> QED BY <2>3, <2>4
  <1>2. ASSUME NEW w \in Workers, HashDone(w) PROVE IInv'
    <2>1. PICK h \in Digests(w) : send_msg' = [send_msg EXCEPT ![w].hash = h]
      BY <1>2 DEF HashDone
    <2>2. send_msg[w] \in QueuedMessage
      BY <1>2 DEF HashDone, WorkersHoldMessage
    <2>3. h \in Hash
      BY <2>1, <2>2 DEF Digests, Hash, QueuedMessage
    <2>4. [send_msg[w] EXCEPT !.hash = h] \in QueuedMessage
      BY <2>2, <2>3 DEF QueuedMessage
    <2>5. TypeOK' /\ WorkersHoldMessage'
      BY <1>2, <2>1, <2>4 DEF HashDone, deqVars, TypeOK, WorkersHoldMessage
    <2>6. NeverPopsEmpty' /\ AcceptedInOrder'
      BY <1>2 DEF HashDone, deqVars, NeverPopsEmpty, AcceptedInOrder
    <2> QED BY <2>5, <2>6
  <1>3. ASSUME NEW w \in Workers, Push(w) PROVE IInv'
    <2>1. send_msg[w] \in QueuedMessage
      BY <1>3 DEF Push, WorkersHoldMessage
    <2>2. TypeOK' /\ WorkersHoldMessage'
      BY <1>3, <2>1 DEF Push, deqVars, TypeOK, WorkersHoldMessage
    <2>3. NeverPopsEmpty'
      BY <1>3, <2>1 DEF Push, deqVars, TypeOK, NeverPopsEmpty
    <2>4. AcceptedInOrder'
      <3>1. taken \in Seq(QueuedMessage) /\ message_queue \in Seq(QueuedMessage)
        BY DEF TypeOK
      <3>2. taken \o Append(message_queue, send_msg[w])
              = Append(taken \o message_queue, send_msg[w])
        BY <2>1, <3>1, AppendConcat
      <3> QED BY <1>3, <3>2, Zenon DEF Push, deqVars, AcceptedInOrder
    <2> QED BY <2>2, <2>3, <2>4
  <1>4. CASE Poll
    BY <1>4 DEF Poll, sendVars, TypeOK, WorkersHoldMessage, NeverPopsEmpty,
                AcceptedInOrder
  <1>5. CASE DequeueCheck
    BY <1>5 DEF DequeueCheck, sendVars, TypeOK, WorkersHoldMessage, NeverPopsEmpty,
                AcceptedInOrder
  <1>6. CASE DequeuePop
    <2>1. message_queue \in Seq(QueuedMessage) /\ message_queue # <<>>
      BY <1>6 DEF DequeuePop, TypeOK, NeverPopsEmpty
    <2>2. /\ Head(message_queue) \in QueuedMessage
          /\ Tail(message_queue) \in Seq(QueuedMessage)
      BY <2>1
    <2>3. TypeOK' /\ WorkersHoldMessage' /\ NeverPopsEmpty'
      BY <1>6, <2>2 DEF DequeuePop, sendVars, TypeOK, WorkersHoldMessage,
                        NeverPopsEmpty
    <2>4. AcceptedInOrder'
      BY <1>6, <2>1, <2>2 DEF DequeuePop, sendVars, TypeOK, AcceptedInOrder
    <2> QED BY <2>3, <2>4
  <1>7. CASE UNCHANGED vars
    BY <1>7 DEF vars, sendVars, deqVars, TypeOK, WorkersHoldMessage, NeverPopsEmpty,
                AcceptedInOrder
  <1> QED
    BY <1>1, <1>2, <1>3, <1>4, <1>5, <1>6, <1>7 DEF Next, Main, Worker

(* The invariant holds in every reachable state.                            *)
THEOREM Invariance == Spec => []IInv
  BY InitEstablishes, StepPreserves, PTL DEF Spec

(* Whatever is posted, every frame made of it fits its buffer.              *)
THEOREM TypeCorrect == Spec => []TypeOK
  BY Invariance, PTL DEF IInv

(* front() and pop() are never called on an empty queue, although the count *)
(* and the pop are two critical sections.                                   *)
THEOREM PopsAreSafe == Spec => []NeverPopsEmpty
  BY Invariance, PTL DEF IInv

(* Accepted frames reach the main loop once and in the order accepted.      *)
THEOREM ExactlyOnceInOrder == Spec => []AcceptedInOrder
  BY Invariance, PTL DEF IInv
===============================================================================
