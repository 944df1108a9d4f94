------------------------------- MODULE Services -------------------------------
(***************************************************************************)
(* The life of a can2rest process: main starts the thread of the web       *)
(* server, opens the CAN socket and loops; SIGINT runs cleanup on top of   *)
(* main wherever main is; a server that cannot listen stops its own        *)
(* service.  RedisInterface has the start of the other service, which is   *)
(* never stopped.                                                          *)
(*                                                                         *)
(* rest_api keeps in update_thread the address of a std::thread that was   *)
(* detached and lives on the stack of enable_service(true).  Joining it    *)
(* throws while enable_service is still running, which ends the process;   *)
(* afterwards the pointer dangles and join reads whatever is there.        *)
(***************************************************************************)
EXTENDS Naturals

CONSTANTS
    RestEnabled,  \* REST_WEBSERVER_ENABLE: the values to be looked at
    MaxSignals    \* bound on the number of SIGINTs

ASSUME ServicesAssumption == RestEnabled \subseteq BOOLEAN /\ MaxSignals \in Nat

VARIABLES
    proc,               \* "running", "exited" (main returned) or "aborted"
    rest_enable,        \* the setting of this process
    main_pc,            \* where main is
    cleanup_pc,         \* where main and the signal handler are in cleanup
    main_loop_running,
    socket,             \* what m_socket names: "none", "created", "bound", "closed"
    thread_running,     \* of rest_api
    update_thread,      \* "null", "alive" or "dangling"
    server_pc,          \* the thread of the web server
    signals,            \* number of SIGINTs so far
    stop_asked          \* history: one came while main_loop_running was set

restVars == <<thread_running, update_thread, server_pc>>
vars == <<proc, rest_enable, main_pc, cleanup_pc, main_loop_running, socket, restVars,
          signals, stop_asked>>

Callers == {"main", "handler"}

Init == /\ proc = "running"
        /\ rest_enable \in RestEnabled
        /\ main_pc = "setup"
        /\ cleanup_pc = [c \in Callers |-> "none"]
        /\ main_loop_running = FALSE
        /\ socket = "none"
        /\ thread_running = FALSE
        /\ update_thread = "null"
        /\ server_pc = "none"
        /\ signals = 0
        /\ stop_asked = FALSE

-------------------------------------------------------------------------------
(* main runs unless the process ended or the handler runs on its stack. *)
MainAt(pc) == /\ proc = "running"
              /\ cleanup_pc["handler"] = "none"
              /\ main_pc = pc

(* api_server.enable_service(REST_WEBSERVER_ENABLE).  FALSE finds no thread *)
(* to stop.  TRUE creates and detaches the thread, takes its address and    *)
(* only then sets thread_running.                                           *)
EnableService ==
    /\ MainAt("setup")
    /\ IF rest_enable /\ ~thread_running
       THEN main_pc' = "set_pointer" /\ server_pc' = "bind"
       ELSE main_pc' = "mark_running" /\ UNCHANGED server_pc
    /\ UNCHANGED <<proc, rest_enable, cleanup_pc, main_loop_running, socket, thread_running,
                   update_thread, signals, stop_asked>>

(* Faulty: the address is not kept. *)
SetPointerForgotten ==
    /\ MainAt("set_pointer")
    /\ main_pc' = "set_flag"
    /\ UNCHANGED <<proc, rest_enable, cleanup_pc, main_loop_running, socket, restVars, signals,
                   stop_asked>>

SetPointer == /\ MainAt("set_pointer")
              /\ update_thread' = "alive"
              /\ main_pc' = "set_flag"
              /\ UNCHANGED <<proc, rest_enable, cleanup_pc, main_loop_running, socket,
                             thread_running, server_pc, signals, stop_asked>>

(* ...and returns. *)
SetFlag == /\ MainAt("set_flag")
           /\ thread_running' = TRUE
           /\ update_thread' = IF update_thread = "alive" THEN "dangling" ELSE update_thread
           /\ main_pc' = "mark_running"
           /\ UNCHANGED <<proc, rest_enable, cleanup_pc, main_loop_running, socket, server_pc,
                          signals, stop_asked>>

MarkRunning == /\ MainAt("mark_running")
               /\ main_loop_running' = TRUE
               /\ main_pc' = "open"
               /\ UNCHANGED <<proc, rest_enable, cleanup_pc, socket, restVars, signals,
                              stop_asked>>

(* SocketCan::open.  A failure leaves the descriptor to main's cleanup. *)
OpenSucceeds == /\ \/ main_pc = "open" /\ socket' = "created" /\ main_pc' = "bind"
                   \/ main_pc = "bind" /\ socket = "created" /\ socket' = "bound"
                      /\ main_pc' = "loop"
                /\ UNCHANGED cleanup_pc

OpenFails == /\ main_pc' = "cleanup"
             /\ cleanup_pc' = [cleanup_pc EXCEPT !["main"] = "close"]
             /\ UNCHANGED socket

OpenSocket == /\ MainAt("open") \/ MainAt("bind")
              /\ OpenSucceeds \/ OpenFails
              /\ UNCHANGED <<proc, rest_enable, main_loop_running, restVars, signals,
                             stop_asked>>

(* while (main_loop_running); main returns 0 behind it. *)
LoopTest == /\ MainAt("loop")
            /\ IF main_loop_running
               THEN main_pc' = "read" /\ UNCHANGED proc
               ELSE main_pc' = "end" /\ proc' = "exited"
            /\ UNCHANGED <<rest_enable, cleanup_pc, main_loop_running, socket, restVars,
                           signals, stop_asked>>

(* while (read(fr) == STATUS_OK): a frame keeps main in the inner loop, and *)
(* main_loop_running is not looked at there...                              *)
ReadFrame == /\ MainAt("read")
             /\ socket = "bound"
             /\ main_pc' = "file"
             /\ UNCHANGED <<proc, rest_enable, cleanup_pc, main_loop_running, socket, restVars,
                            signals, stop_asked>>

FileFrame == /\ MainAt("file")
             /\ main_pc' = "read"
             /\ UNCHANGED <<proc, rest_enable, cleanup_pc, main_loop_running, socket, restVars,
                            signals, stop_asked>>

(* ...which it leaves when none comes in time or the socket is closed.  The *)
(* send queue is looked at on the way to the next test.                     *)
ReadFails == /\ MainAt("read")
             /\ main_pc' = "loop"
             /\ UNCHANGED <<proc, rest_enable, cleanup_pc, main_loop_running, socket, restVars,
                            signals, stop_asked>>

-------------------------------------------------------------------------------
(* update_thread->join(): a thread object that is not joinable throws, and  *)
(* nothing catches it.  What is read through a dangling pointer may throw or *)
(* fault as well, name something that never ends, or look joined.           *)
JoinOutcomes == IF update_thread = "alive" THEN {"aborts"}
                ELSE {"aborts", "blocks", "returns"}

(* enable_service(false), called by a thread that goes on as o says. *)
StopService(o) ==
    IF update_thread = "null"
    THEN o = "returns" /\ UNCHANGED <<proc, thread_running>>
    ELSE /\ o \in JoinOutcomes
         /\ thread_running' = FALSE
         /\ proc' = IF o = "aborts" THEN "aborted" ELSE proc

(* A caller of cleanup is at a line of it; the handler goes first. *)
CleanupAt(c, pc) == /\ proc = "running"
                    /\ c = "main" => cleanup_pc["handler"] = "none"
                    /\ cleanup_pc[c] = pc

(* Faulty: the socket is left to the destructor. *)
CleanupLeaveOpen(c) ==
    /\ CleanupAt(c, "close")
    /\ cleanup_pc' = [cleanup_pc EXCEPT ![c] = "stop"]
    /\ UNCHANGED <<proc, rest_enable, main_pc, main_loop_running, socket, restVars, signals,
                   stop_asked>>

CleanupClose(c) ==
    /\ CleanupAt(c, "close")
    /\ socket' = IF socket = "none" THEN "none" ELSE "closed"
    /\ cleanup_pc' = [cleanup_pc EXCEPT ![c] = "stop"]
    /\ UNCHANGED <<proc, rest_enable, main_pc, main_loop_running, restVars, signals, stop_asked>>

CleanupStop(c) ==
    /\ CleanupAt(c, "stop")
    /\ \E o \in {"aborts", "blocks", "returns"} :
          /\ StopService(o)
          /\ cleanup_pc' = [cleanup_pc EXCEPT ![c] = IF o = "returns" THEN "clear" ELSE "blocked"]
    /\ UNCHANGED <<rest_enable, main_pc, main_loop_running, socket, update_thread, server_pc,
                   signals, stop_asked>>

(* Faulty: the main loop is not told. *)
CleanupKeepRunning(c) ==
    /\ CleanupAt(c, "clear")
    /\ cleanup_pc' = [cleanup_pc EXCEPT ![c] = "none"]
    /\ proc' = IF c = "main" THEN "exited" ELSE proc
    /\ UNCHANGED <<rest_enable, main_pc, main_loop_running, socket, restVars, signals, stop_asked>>

(* main_loop_running = false; main returns 1, the handler to where main was. *)
CleanupClear(c) ==
    /\ CleanupAt(c, "clear")
    /\ main_loop_running' = FALSE
    /\ cleanup_pc' = [cleanup_pc EXCEPT ![c] = "none"]
    /\ proc' = IF c = "main" THEN "exited" ELSE proc
    /\ UNCHANGED <<rest_enable, main_pc, socket, restVars, signals, stop_asked>>

(* SIGINT is delivered to the main thread, and blocked while it is handled. *)
Sigint == /\ proc = "running"
          /\ cleanup_pc["handler"] = "none"
          /\ signals < MaxSignals
          /\ signals' = signals + 1
          /\ stop_asked' = (stop_asked \/ main_loop_running)
          /\ cleanup_pc' = [cleanup_pc EXCEPT !["handler"] = "close"]
          /\ UNCHANGED <<proc, rest_enable, main_pc, main_loop_running, socket, restVars>>

-------------------------------------------------------------------------------
(* svr.listen binds and then accepts until an accept fails.  It returns     *)
(* true only after svr.stop(), which nobody but the lines behind it calls.  *)
ServerListens == /\ proc = "running"
                 /\ server_pc = "bind"
                 /\ server_pc' = "accept"
                 /\ UNCHANGED <<proc, rest_enable, main_pc, cleanup_pc, main_loop_running,
                                socket, thread_running, update_thread, signals, stop_asked>>

ServerFails == /\ proc = "running"
               /\ server_pc \in {"bind", "accept"}
               /\ server_pc' = "failed"
               /\ UNCHANGED <<proc, rest_enable, main_pc, cleanup_pc, main_loop_running,
                              socket, thread_running, update_thread, signals, stop_asked>>

(* "WEBSERVER BIND FAILED": the thread stops its own service and ends. *)
ServerStops ==
    /\ proc = "running"
    /\ server_pc = "failed"
    /\ \E o \in {"aborts", "blocks", "returns"} :
          /\ StopService(o)
          /\ server_pc' = IF o = "returns" THEN "ended" ELSE "blocked"
    /\ UNCHANGED <<rest_enable, main_pc, cleanup_pc, main_loop_running, socket, update_thread,
                   signals, stop_asked>>

MainStep == \/ EnableService \/ SetPointer \/ SetFlag \/ MarkRunning \/ OpenSocket
            \/ LoopTest \/ ReadFrame \/ FileFrame \/ ReadFails

Cleanup(c) == CleanupClose(c) \/ CleanupStop(c) \/ CleanupClear(c)

Server == ServerListens \/ ServerFails \/ ServerStops

Next == MainStep \/ (\E c \in Callers : Cleanup(c)) \/ Sigint \/ Server

(* main and what runs on its stack go on; a read returns, with a frame or   *)
(* without.  Nothing is assumed of the server, of signals or of the bus.    *)
Fairness == WF_vars(MainStep) /\ \A c \in Callers : WF_vars(Cleanup(c))

Spec == Init /\ [][Next]_vars /\ Fairness

-------------------------------------------------------------------------------
(* Types, and that the pointer of rest_api is set only once there is a      *)
(* thread, and is not the null that stops nothing once the flag is set.     *)
TypeOK == /\ proc \in {"running", "exited", "aborted"}
          /\ rest_enable \in BOOLEAN
          /\ main_pc \in {"setup", "set_pointer", "set_flag", "mark_running", "open", "bind",
                          "loop", "read", "file", "cleanup", "end"}
          /\ cleanup_pc \in [Callers -> {"none", "close", "stop", "clear", "blocked"}]
          /\ main_loop_running \in BOOLEAN
          /\ socket \in {"none", "created", "bound", "closed"}
          /\ thread_running \in BOOLEAN
          /\ update_thread \in {"null", "alive", "dangling"}
          /\ server_pc \in {"none", "bind", "accept", "failed", "ended", "blocked"}
          /\ signals \in Nat
          /\ stop_asked \in BOOLEAN
          /\ thread_running => update_thread # "null"
          /\ update_thread # "null" => server_pc # "none"

(* The main loop never turns over a closed socket: wherever SIGINT hits,    *)
(* also inside open, a loop that goes on has a bound socket, since          *)
(* main_loop_running is set before the socket is opened and cleared by      *)
(* whoever closes it.  Otherwise every read would fail at once, for ever.   *)
LoopHasSocket ==
    /\ proc = "running" /\ cleanup_pc["handler"] = "none"
    /\ main_pc \in {"loop", "read", "file"} /\ main_loop_running
    => socket = "bound"

(* A SIGINT that comes when main_loop_running is set ends the process, on a *)
(* bus that is never silent too, unless join on the dangling pointer never  *)
(* returns.  Of an earlier one this is false: main sets the flag after it.  *)
StopEndsProcess ==
    stop_asked ~> \/ proc # "running"
                  \/ \E c \in Callers : cleanup_pc[c] = "blocked"
===============================================================================
