------------------------------ MODULE Lifecycle ------------------------------
(***************************************************************************)
(* The life of the process (src/main.rs): main spawns the log, Ctrl-C,     *)
(* SIGHUP, server and DNS tasks, meets them at a start-up barrier,         *)
(* broadcasts the settings and, told to stop, meets them at a shutdown     *)
(* barrier.  Two more things are shared: the control broadcast and the     *)
(* RwLock of the static LOGGER (src/logging.rs), which the log task holds  *)
(* for reading for as long as it lives.                                    *)
(***************************************************************************)
EXTENDS Integers, Sequences

CONSTANT CtlCap         \* capacity of the control broadcast (4 in the code)
ASSUME CtlCapAssumption == CtlCap \in Nat /\ CtlCap >= 3

Task  == {"log", "sighup", "server", "dns"}     \* tasks that meet main
Party == Task \cup {"main"}

(* A definition named X_mutation is X with a bug one could write; the       *)
(* properties must notice it (README, "Mutants").                           *)
ThreadCount_counted == 5
ThreadCount  == 6
StartParties_mainForgotten == ThreadCount - 2
StartParties_ctrlcCounted  == ThreadCount
StartParties == ThreadCount - 1

(* Handles in task_handle_list, in the order main spawns the tasks. *)
Spawned == <<"log", "ctrlc", "sighup", "server", "dns">>

Shutdown == "Shutdown"                  \* ControlSignal
Reconf   == "Reconfigure"
Unsub == -1             \* not subscribed to the broadcast

VARIABLES
  process,      \* "up", "killed" by a signal, or "exited"
  pc,           \* of every party
  nth,          \* handles main has spawned, then handles it has accounted for
  ready,        \* arrivals at the start-up barrier
  shut,         \* arrivals at the shutdown barrier since it last opened
  opened,       \* has the shutdown barrier ever opened?
  ctl, pos,     \* signals broadcast; how many of them each receiver has passed
  configured,   \* has the server task seen its first settings?
  stopping,     \* has it seen Shutdown before them?
  ctrlc,        \* the Ctrl-C task
  hup           \* a SIGHUP is pending in the SIGHUP task's stream

server == <<configured, stopping>>
vars   == <<process, pc, nth, ready, shut, opened, ctl, pos, server, ctrlc, hup>>

Init ==
  /\ process = "up"
  /\ pc = [p \in Party |-> IF p = "main" THEN "spawn" ELSE "none"]
  /\ nth = 0 /\ ready = 0 /\ shut = 0 /\ opened = FALSE
  /\ ctl = <<>> /\ pos = [p \in Party |-> IF p = "main" THEN 0 ELSE Unsub]
  /\ configured = FALSE /\ stopping = FALSE
  /\ ctrlc = "none" /\ hup = FALSE

-----------------------------------------------------------------------------
(* Start-up.                                                                *)

(* main's own receiver exists from the start, and main subscribes for the   *)
(* SIGHUP task; the other tasks subscribe when they run.                    *)
MainSpawn ==
  /\ pc["main"] = "spawn" /\ nth < Len(Spawned)
  /\ nth' = nth + 1
  /\ LET t == Spawned[nth + 1] IN
       IF t = "ctrlc"
       THEN ctrlc' = "spawned" /\ UNCHANGED <<pc, pos>>
       ELSE /\ pc' = [pc EXCEPT ![t] = "spawned"]
            /\ pos' = [pos EXCEPT ![t] = IF t = "sighup" THEN Len(ctl) ELSE @]
            /\ UNCHANGED ctrlc
  /\ UNCHANGED <<process, ready, shut, opened, ctl, server, hup>>

TaskSubscribe(t) ==
  /\ pc[t] = "spawned" /\ t # "sighup"
  /\ pc' = [pc EXCEPT ![t] = "start"]
  /\ pos' = [pos EXCEPT ![t] = Len(ctl)]
  /\ UNCHANGED <<process, nth, ready, shut, opened, ctl, server, ctrlc, hup>>

AtStartBarrier(p) ==
  IF p = "main" THEN pc[p] = "spawn" /\ nth = Len(Spawned)
  ELSE pc[p] = (IF p = "sighup" THEN "spawned" ELSE "start")

AfterStart(p) == CASE p = "main"   -> "config"
                   [] p = "sighup" -> "install"
                   [] OTHER        -> "run"

(* barrier.wait(): the last to arrive lets everyone go on.                  *)
StartWait(p) ==
  /\ AtStartBarrier(p)
  /\ ready' = ready + 1
  /\ pc' = IF ready + 1 < StartParties
           THEN [pc EXCEPT ![p] = "barrier"]
           ELSE [q \in Party |-> IF q = p \/ pc[q] = "barrier"
                                 THEN AfterStart(q) ELSE pc[q]]
  /\ UNCHANGED <<process, nth, shut, opened, ctl, pos, server, ctrlc, hup>>

MainConfigure ==
  /\ pc["main"] = "config"
  /\ ctl' = Append(ctl, Reconf)
  /\ pc' = [pc EXCEPT !["main"] = "run"]
  /\ UNCHANGED <<process, nth, ready, shut, opened, pos, server, ctrlc, hup>>

-----------------------------------------------------------------------------
(* Signals from outside.  One that arrives before its handler is installed  *)
(* kills the process.                                                       *)

CtrlCListen ==
  /\ \/ ctrlc = "spawned" /\ ctrlc' = "listening"
     \/ ctrlc = "ended"   /\ ctrlc' = "again"
  /\ UNCHANGED <<process, pc, nth, ready, shut, opened, ctl, pos, server, hup>>

(* Between the first SIGINT and the second ctrl_c() a SIGINT is lost.       *)
Sigint ==
  /\ process' = CASE ctrlc \in {"none", "spawned"} -> "killed"
                  [] ctrlc = "again"               -> "exited"
                  [] OTHER                         -> process
  /\ ctrlc' = IF ctrlc = "listening" THEN "caught" ELSE ctrlc
  /\ UNCHANGED <<pc, nth, ready, shut, opened, ctl, pos, server, hup>>

CtrlCSend ==
  /\ ctrlc = "caught"
  /\ ctl' = Append(ctl, Shutdown)
  /\ ctrlc' = "sent"
  /\ UNCHANGED <<process, pc, nth, ready, shut, opened, pos, server, hup>>

CtrlCEnd ==             \* the task ends, leaving one that waits for the next
  /\ ctrlc = "sent"
  /\ ctrlc' = "ended"
  /\ UNCHANGED <<process, pc, nth, ready, shut, opened, ctl, pos, server, hup>>

HupInstall ==           \* signal(SignalKind::hangup())
  /\ pc["sighup"] = "install"
  /\ pc' = [pc EXCEPT !["sighup"] = "run"]
  /\ UNCHANGED <<process, nth, ready, shut, opened, ctl, pos, server, ctrlc, hup>>

HupInstalled == pc["sighup"] \notin {"none", "spawned", "barrier", "install"}

Sighup ==
  /\ process' = IF HupInstalled THEN process ELSE "killed"
  /\ hup' = (HupInstalled /\ pc["sighup"] # "dead")
  /\ UNCHANGED <<pc, nth, ready, shut, opened, ctl, pos, server, ctrlc>>

(* The settings are broadcast, then Logging::set_debug wants LOGGER.write().*)
HupReload ==
  /\ pc["sighup"] = "run" /\ hup
  /\ hup' = FALSE
  /\ ctl' = Append(ctl, Reconf)
  /\ pc' = [pc EXCEPT !["sighup"] = "write"]
  /\ UNCHANGED <<process, nth, ready, shut, opened, pos, server, ctrlc>>

HupReloadFails ==       \* Settings::new(..).unwrap() panics: the file is not valid
  /\ pc["sighup"] = "run" /\ hup
  /\ hup' = FALSE
  /\ pc' = [pc EXCEPT !["sighup"] = "dead"]
  /\ UNCHANGED <<process, nth, ready, shut, opened, ctl, pos, server, ctrlc>>

(* The guard of do_log_thread lives until log_thread returns.               *)
LoggerHeld_released == FALSE
LoggerHeld == pc["log"] \notin {"none", "spawned", "done"}

HupWrite ==             \* the lock is tried, and waited for while it is held
  /\ pc["sighup"] = "write"
  /\ pc' = [pc EXCEPT !["sighup"] = IF LoggerHeld THEN "write" ELSE "run"]
  /\ UNCHANGED <<process, nth, ready, shut, opened, ctl, pos, server, ctrlc, hup>>

-----------------------------------------------------------------------------
(* Control signals and shutdown.                                            *)

Take_newest(p, s) ==
  /\ pc[p] = "run" /\ pos[p] < Len(ctl)
  /\ ctl[Len(ctl)] = s
  /\ pos' = [pos EXCEPT ![p] = Len(ctl)]

Take(p, s) ==
  /\ pc[p] = "run" /\ pos[p] < Len(ctl)
  /\ ctl[pos[p] + 1] = s
  /\ pos' = [pos EXCEPT ![p] = @ + 1]

(* The loops of main and of the log, SIGHUP and DNS tasks.                  *)
Control(p) ==
  /\ p # "server"
  /\ \/ Take(p, Reconf) /\ UNCHANGED pc
     \/ Take(p, Shutdown) /\ pc' = [pc EXCEPT ![p] = "bye"]
  /\ nth' = IF p = "main" /\ pc'[p] = "bye" THEN 0 ELSE nth
  /\ UNCHANGED <<process, ready, shut, opened, ctl, server, ctrlc, hup>>

(* The server task stops only after its first settings.                     *)
ServerControl ==
  /\ \/ Take("server", Reconf) /\ configured' = TRUE /\ UNCHANGED stopping
     \/ Take("server", Shutdown) /\ stopping' = TRUE /\ UNCHANGED configured
  /\ pc' = [pc EXCEPT !["server"] =
              IF configured' /\ stopping' THEN "bye" ELSE "run"]
  /\ UNCHANGED <<process, nth, ready, shut, opened, ctl, ctrlc, hup>>

(* Module Server: SrvAcceptError, and SrvStartError while settings are      *)
(* applied.                                                                 *)
ServerPanic ==
  /\ \/ pc["server"] = "run" /\ configured /\ UNCHANGED <<pos, configured>>
     \/ Take("server", Reconf) /\ configured' = TRUE
  /\ pc' = [pc EXCEPT !["server"] = "dead"]
  /\ UNCHANGED <<process, nth, ready, shut, opened, ctl, stopping, ctrlc, hup>>

(* What JoinHandle::is_finished() may answer.  The handle of the log task is *)
(* that of do_log_thread, which spawns the real log task and returns; main  *)
(* may look before it has returned.                                         *)
Finished(h) ==
  CASE h = "log"   -> BOOLEAN
    [] h = "ctrlc" -> {ctrlc \in {"ended", "again"}}
    [] OTHER       -> {pc[h] \in {"done", "dead"}}

(* shutdown_barrier.wait().  A task has nothing but clean-up left after it; *)
(* main goes on to handle number nth', or joins the tasks after the last.   *)
ShutWait(p) ==
  IF shut + 1 < ThreadCount
  THEN /\ shut' = shut + 1
       /\ pc' = [pc EXCEPT ![p] = "wait"]
       /\ UNCHANGED opened
  ELSE /\ shut' = 0 /\ opened' = TRUE
       /\ pc' = [q \in Party |-> IF q = p \/ pc[q] = "wait"
                                 THEN IF q = "main" /\ nth' <= Len(Spawned)
                                      THEN "bye" ELSE "done"
                                 ELSE pc[q]]

TaskBye(t) ==
  /\ pc[t] = "bye"
  /\ UNCHANGED <<process, nth, ready, ctl, pos, server, ctrlc, hup>>
  /\ ShutWait(t)

(* main waits once for every finished handle, then once for itself.         *)
MainBye ==
  /\ pc["main"] = "bye"
  /\ nth' = nth + 1
  /\ \/ nth = Len(Spawned) /\ ShutWait("main")
     \/ nth < Len(Spawned) /\ TRUE \in Finished(Spawned[nth + 1]) /\ ShutWait("main")
     \/ nth < Len(Spawned) /\ FALSE \in Finished(Spawned[nth + 1])
        /\ UNCHANGED <<pc, shut, opened>>
  /\ UNCHANGED <<process, ready, ctl, pos, server, ctrlc, hup>>

-----------------------------------------------------------------------------
TaskStep(t) == TaskSubscribe(t) \/ StartWait(t) \/ Control(t) \/ TaskBye(t)

MainStep ==
  MainSpawn \/ StartWait("main") \/ MainConfigure \/ Control("main") \/ MainBye

SighupStep == HupInstall \/ HupReload \/ HupReloadFails \/ HupWrite
CtrlCStep  == CtrlCListen \/ CtrlCSend \/ CtrlCEnd

Next ==
  /\ process = "up"
  /\ \/ MainStep \/ \E t \in Task : TaskStep(t)
     \/ SighupStep \/ CtrlCStep \/ ServerControl \/ ServerPanic
     \/ Sigint \/ Sighup

Spec == Init /\ [][Next]_vars

(* Every task that can run is run, and select! is fair to its branches;     *)
(* signals from outside and panics may or may not come.                     *)
Running(A) == process = "up" /\ A

Fairness ==
  /\ WF_vars(Running(MainStep))
  /\ \A t \in Task : WF_vars(Running(TaskStep(t)))
  /\ WF_vars(Running(HupInstall))
  /\ WF_vars(Running(HupReload \/ HupReloadFails))
  /\ WF_vars(Running(HupWrite))
  /\ WF_vars(Running(CtrlCStep)) /\ WF_vars(Running(ServerControl))

FairSpec == Spec /\ Fairness

-----------------------------------------------------------------------------
(* Properties.                                                              *)

Stage == {"none", "spawn", "spawned", "start", "barrier", "config",
          "install", "run", "write", "bye", "wait", "done", "dead"}

(* Every variable has its type.                                             *)
TypeOK ==
  /\ process \in {"up", "killed", "exited"}
  /\ pc \in [Party -> Stage]
  /\ nth \in 0 .. Len(Spawned) + 1
  /\ ready \in 0 .. StartParties /\ shut \in 0 .. ThreadCount - 1
  /\ opened \in BOOLEAN
  /\ ctl \in Seq({Shutdown, Reconf}) /\ pos \in [Party -> Nat \cup {Unsub}]
  /\ configured \in BOOLEAN /\ stopping \in BOOLEAN /\ hup \in BOOLEAN
  /\ ctrlc \in {"none", "spawned", "listening", "caught", "sent", "ended",
                "again"}

(* When main broadcasts the settings (main.rs:148, "Send the settings to    *)
(* all threads that care") every task has its receiver and is past the      *)
(* start-up barrier, so none of them misses the settings.                   *)
SubscribedBeforeConfig ==
  pc["main"] = "config" =>
    \A t \in Task : pos[t] # Unsub /\ pc[t] \notin {"none", "spawned", "start", "barrier"}

(* No receiver is ever more than CtlCap signals behind, so no               *)
(* recv().await.unwrap() fails with Lagged: a process broadcasts at most    *)
(* three signals, because the SIGHUP task does not survive its first one.   *)
NoLag == \A p \in Party : pos[p] # Unsub => Len(ctl) - pos[p] <= CtlCap

(* The shutdown barrier never opens: besides the log, SIGHUP, server and    *)
(* DNS tasks only main arrives, and main waits there at the first finished  *)
(* handle and never comes to arrive a second time, while thread_count counts the    *)
(* Ctrl-C task as well.  Everything after that barrier is dead code.        *)
ShutdownBarrierStarves == ~opened /\ shut < ThreadCount

Ended == process # "up"

(* A Shutdown waiting in the receiver of the log, server or DNS task makes  *)
(* that task arrive at the shutdown barrier, even if it came before the     *)
(* first settings.  (The SIGHUP task may hang first, see ReloadFinishes.)   *)
ShutdownHeard ==
  \A t \in Task \ {"sighup"} :
    (pos[t] # Unsub /\ \E i \in DOMAIN ctl : i > pos[t] /\ ctl[i] = Shutdown)
      ~> pc[t] \in {"wait", "dead"} \/ Ended

(* Start-up ends: the barrier is met and the server task gets its settings. *)
StartupCompletes == <>(configured \/ Ended)

(* Once the four tasks are at the shutdown barrier main gets past it: "Shut *)
(* down after all threads are done" (main.rs:177).                          *)
ShutdownCompletes ==
  (\A t \in Task : pc[t] = "wait") ~> pc["main"] = "done" \/ Ended

(* The reload that a SIGHUP starts ("Recieved SIGHUP, reloading config",    *)
(* main.rs:110) is finished and the SIGHUP task is back in its loop.        *)
ReloadFinishes == pc["sighup"] = "write" ~> pc["sighup"] = "run" \/ Ended
=============================================================================
