---------------------------- MODULE ServicesProofs ----------------------------
(***************************************************************************)
(* With or without the web server, wherever and however often SIGINT       *)
(* arrives: the pointer of rest_api is set when its flag is, the main loop *)
(* never turns over a closed socket, and a stop that was asked for while   *)
(* main_loop_running was set is never forgotten.                           *)
(***************************************************************************)
EXTENDS Services, TLAPS

(* main calls cleanup only from its error path, where it stays. *)
MainCleansUpOnce == cleanup_pc["main"] # "none" => main_pc = "cleanup"

(* enable_service sets the pointer after there is a thread, and the flag    *)
(* after the pointer.                                                       *)
StartedInOrder == /\ main_pc = "set_pointer" => server_pc # "none"
                  /\ main_pc = "set_flag" => update_thread # "null"

(* Until the handler has got to close, whoever loops with the flag set has  *)
(* a bound socket.                                                          *)
OpenUntilClose ==
    /\ main_pc \in {"loop", "read", "file"}
    /\ main_loop_running
    /\ cleanup_pc["handler"] \in {"none", "close"}
    => socket = "bound"

(* The steps of main that precede main_loop_running = true. *)
Starting == {"setup", "set_pointer", "set_flag", "mark_running"}

(* main sets the flag once: it is not set before, and no stop that counts   *)
(* was asked for before.                                                    *)
FlagIsSetOnce == main_pc \in Starting => ~main_loop_running /\ ~stop_asked

(* A SIGINT that came while the flag was set leaves it cleared, as soon as  *)
(* its handler has returned.                                                *)
StopIsKept == stop_asked /\ cleanup_pc["handler"] = "none" => ~main_loop_running

IInv == /\ TypeOK
        /\ MainCleansUpOnce
        /\ StartedInOrder
        /\ OpenUntilClose
        /\ FlagIsSetOnce
        /\ StopIsKept

-------------------------------------------------------------------------------
(* The process starts without a thread, a socket or a flag.                 *)
LEMMA InitEstablishes == Init => IInv
  <1> SUFFICES ASSUME Init PROVE IInv
    OBVIOUS
  <1>1. rest_enable \in BOOLEAN
    BY ServicesAssumption, Zenon DEF Init
  <1>2. /\ cleanup_pc \in [Callers -> {"none", "close", "stop", "clear", "blocked"}]
        /\ cleanup_pc["main"] = "none"
    BY DEF Init, Callers
  <1>3. TypeOK
    BY <1>1, <1>2 DEF Init, TypeOK
  <1>4. MainCleansUpOnce /\ StartedInOrder /\ OpenUntilClose /\ FlagIsSetOnce /\ StopIsKept
    BY <1>2 DEF Init, MainCleansUpOnce, StartedInOrder, OpenUntilClose, FlagIsSetOnce,
                StopIsKept
  <1> QED BY <1>3, <1>4 DEF IInv

(* enable_service(false) changes the flag and may end the process.          *)
LEMMA StopServiceEffect ==
    ASSUME TypeOK, NEW o, StopService(o)
    PROVE  /\ proc' \in {proc, "aborted"}
           /\ thread_running' \in BOOLEAN
           /\ thread_running' => thread_running
  BY DEF StopService, TypeOK

(* Every step of main, of cleanup, of the signal and of the server preserves *)
(* the invariant.                                                           *)
LEMMA StepPreserves == IInv /\ [Next]_vars => IInv'
  <1> SUFFICES ASSUME IInv, [Next]_vars PROVE IInv'
    OBVIOUS
  <1> USE DEF IInv, Callers, MainCleansUpOnce, StartedInOrder, OpenUntilClose, Starting,
              FlagIsSetOnce, StopIsKept
  <1>1. CASE EnableService
    BY <1>1 DEF EnableService, MainAt, TypeOK
  <1>2. CASE SetPointer
    BY <1>2 DEF SetPointer, MainAt, TypeOK
  <1>3. CASE SetFlag
    BY <1>3 DEF SetFlag, MainAt, TypeOK
  <1>4. CASE MarkRunning
    BY <1>4 DEF MarkRunning, MainAt, restVars, TypeOK
  <1>5. CASE OpenSocket
    <2>1. CASE OpenSucceeds
      BY <1>5, <2>1 DEF OpenSocket, OpenSucceeds, MainAt, restVars, TypeOK
    <2>2. CASE OpenFails
      BY <1>5, <2>2 DEF OpenSocket, OpenFails, MainAt, restVars, TypeOK
    <2> QED BY <1>5, <2>1, <2>2 DEF OpenSocket
  <1>6. CASE LoopTest
    BY <1>6 DEF LoopTest, MainAt, restVars, TypeOK
  <1>7. CASE ReadFrame \/ FileFrame \/ ReadFails
    BY <1>7 DEF ReadFrame, FileFrame, ReadFails, MainAt, restVars, TypeOK
  <1>8. ASSUME NEW c \in Callers, CleanupClose(c) PROVE IInv'
    BY <1>8 DEF CleanupClose, CleanupAt, restVars, TypeOK
  <1>9. ASSUME NEW c \in Callers, CleanupStop(c) PROVE IInv'
    <2>1. /\ \E pc \in {"clear", "blocked"} : cleanup_pc' = [cleanup_pc EXCEPT ![c] = pc]
          /\ \E o : StopService(o)
          /\ cleanup_pc[c] = "stop"
          /\ UNCHANGED <<rest_enable, main_pc, main_loop_running, socket, update_thread,
                         server_pc, signals, stop_asked>>
      BY <1>9 DEF CleanupStop, CleanupAt
    <2>2. /\ proc' \in {proc, "aborted"}
          /\ thread_running' \in BOOLEAN
          /\ thread_running' => thread_running
      BY <2>1, StopServiceEffect
    <2> QED BY <2>1, <2>2 DEF TypeOK
  <1>10. ASSUME NEW c \in Callers, CleanupClear(c) PROVE IInv'
    <2>1. /\ ~main_loop_running' /\ main_loop_running' \in BOOLEAN
          /\ cleanup_pc' = [cleanup_pc EXCEPT ![c] = "none"]
          /\ proc' \in {"exited", proc}
          /\ UNCHANGED <<rest_enable, main_pc, socket, thread_running, update_thread,
                         server_pc, signals, stop_asked>>
      BY <1>10, Zenon DEF CleanupClear, restVars
    <2>2. TypeOK'
      BY <2>1 DEF TypeOK
    <2>3. MainCleansUpOnce'
      BY <2>1 DEF TypeOK
    <2>4. StartedInOrder' /\ OpenUntilClose' /\ FlagIsSetOnce' /\ StopIsKept'
      BY <2>1
    <2> QED BY <2>2, <2>3, <2>4
  <1>11. CASE Sigint
    BY <1>11 DEF Sigint, restVars, TypeOK
  <1>12. CASE ServerListens \/ ServerFails
    BY <1>12 DEF ServerListens, ServerFails, TypeOK
  <1>13. CASE ServerStops
    <2>1. /\ server_pc' \in {"ended", "blocked"}
          /\ \E o : StopService(o)
          /\ UNCHANGED <<rest_enable, main_pc, cleanup_pc, main_loop_running, socket,
                         update_thread, signals, stop_asked>>
      BY <1>13 DEF ServerStops
    <2>2. /\ proc' \in {proc, "aborted"}
          /\ thread_running' \in BOOLEAN
          /\ thread_running' => thread_running
      BY <2>1, StopServiceEffect
    <2> QED BY <2>1, <2>2 DEF TypeOK
  <1>14. CASE UNCHANGED vars
    BY <1>14 DEF vars, restVars, TypeOK
  <1> QED
    BY <1>1, <1>2, <1>3, <1>4, <1>5, <1>6, <1>7, <1>8, <1>9, <1>10, <1>11, <1>12, <1>13,
       <1>14 DEF Next, MainStep, Cleanup, Server

(* The invariant holds in every reachable state.                            *)
THEOREM Invariance == Spec => []IInv
  BY InitEstablishes, StepPreserves, PTL DEF Spec

(* The flag of rest_api is never set while its pointer is null, nor the     *)
(* pointer without a thread, whichever of main, the handler and the server  *)
(* thread stops the service, and when.                                      *)
THEOREM TypeCorrect == Spec => []TypeOK
  BY Invariance, PTL DEF IInv

(* A loop that goes on has a bound socket, wherever SIGINT hit main, also   *)
(* between socket() and bind().                                             *)
THEOREM LoopsOverOpenSocket == Spec => []LoopHasSocket
  <1>1. IInv => LoopHasSocket
    BY DEF IInv, OpenUntilClose, LoopHasSocket
  <1> QED BY <1>1, Invariance, PTL

(* The safety half of StopEndsProcess: once the handler of a SIGINT that    *)
(* came with main_loop_running set has returned, the flag stays cleared,    *)
(* and the next test of the loop ends the process.                          *)
THEOREM StopsAreKept == Spec => []StopIsKept
  BY Invariance, PTL DEF IInv
===============================================================================
