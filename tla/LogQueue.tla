------------------------------ MODULE LogQueue ------------------------------
(***************************************************************************)
(* src/logging.rs: what becomes of a log message.  Every log call spawns a *)
(* task that takes the RwLock of the static LOGGER for reading and puts    *)
(* the message in a bounded queue; the log task writes what it finds there, *)
(* and holds the same lock for reading as long as it lives.  main sets     *)
(* the Logging up, and a SIGHUP changes its level, under the write lock.   *)
(***************************************************************************)
EXTENDS Integers, Sequences, FiniteSets

CONSTANTS
  QueueCap,     \* capacity of the log queue (256 in the code)
  MaxCalls      \* log calls made (bound)

ASSUME CapAssumption == QueueCap \in Nat \ {0} /\ MaxCalls \in Nat

Level == {"Info", "Debug"}

VARIABLES
  main,         \* what main does next: "file", "debug", "spawn", then "up"
  debug,        \* settings.debug, as main has read it
  level,        \* LOGGER.level
  logpc,        \* the log task
  hup,          \* a reload's set_debug: "idle", "wait"ing for the lock, "done"
  told,         \* Shutdown has been broadcast
  calls,        \* log calls made so far
  spawned,      \* messages whose task has not run yet
  waiters,      \* requests for the lock, in the order they were made
  queue,        \* logtx / logrx
  taken,        \* messages the log task has received
  lost,         \* messages whose task panicked: queue full or closed
  late          \* messages that asked for the lock after the reload had

vars == <<main, debug, level, logpc, hup, told, calls, spawned, waiters, queue,
          taken, lost, late>>

(* A definition named X_mutation is X with a bug one could write; the       *)
(* properties must notice it (README, "Mutants").                           *)

Message(k, l) == [n |-> k, level |-> l]
Nobody        == Message(0, "Info")

(* Requests: main and the reload want to write, the others to read.         *)
Request(who, m) == [who |-> who, m |-> m]
Wants(who)      == \E i \in DOMAIN waiters : waiters[i].who = who
First(who)      == waiters # <<>> /\ Head(waiters).who = who

(* set_logqueue has returned; debug is whatever the settings say.           *)
Init ==
  /\ main = "file" /\ debug \in BOOLEAN /\ level = "Info"
  /\ logpc = "none" /\ hup = "idle" /\ told = FALSE
  /\ calls = 0 /\ spawned = {} /\ waiters = <<>>
  /\ queue = <<>> /\ taken = <<>> /\ lost = {} /\ late = {}

-----------------------------------------------------------------------------
(* LOGGER's lock: tokio's RwLock is fair, so requests are granted in order.  *)
(* Writers and log calls keep it for a moment only, the log task for good.  *)

LogHolds_released == FALSE
LogHolds == logpc \in {"start", "run", "shut", "drain"}

Ask(who, m) == waiters' = Append(waiters, Request(who, m))
Grant(who)  == First(who) /\ waiters' = Tail(waiters)
GrantWrite(who) == Grant(who) /\ ~LogHolds

-----------------------------------------------------------------------------
(* main's set-up: set_logfile, set_debug, then the log task.                *)

StepAfter_spawnFirst(step) ==
  CASE step = "file" -> "spawn" [] step = "spawn" -> "debug" [] OTHER -> "up"

StepAfter(step) ==
  CASE step = "file" -> "debug" [] step = "debug" -> "spawn" [] OTHER -> "up"

MainAsk ==
  /\ main \in {"file", "debug"} /\ ~Wants("main")
  /\ Ask("main", Nobody)
  /\ UNCHANGED <<main, debug, level, logpc, hup, told, calls, spawned, queue,
                 taken, lost, late>>

LevelOf(d) == IF d THEN "Debug" ELSE "Info"

(* initialize() sets the level to Info.                                     *)
MainSet ==
  /\ GrantWrite("main")
  /\ level' = IF main = "file" THEN "Info" ELSE LevelOf(debug)
  /\ main' = StepAfter(main)
  /\ UNCHANGED <<debug, logpc, hup, told, calls, spawned, queue, taken, lost, late>>

MainSpawn ==
  /\ main = "spawn" /\ main' = StepAfter(main)
  /\ logpc' = "spawned"
  /\ UNCHANGED <<debug, level, hup, told, calls, spawned, waiters, queue, taken,
                 lost, late>>

-----------------------------------------------------------------------------
(* Log calls.                                                               *)

LogCall(l) ==
  /\ calls < MaxCalls
  /\ calls' = calls + 1
  /\ spawned' = spawned \cup {Message(calls + 1, l)}
  /\ UNCHANGED <<main, debug, level, logpc, hup, told, waiters, queue, taken, lost,
                 late>>

CallAsk(m) ==
  /\ m \in spawned /\ spawned' = spawned \ {m}
  /\ Ask("call", m)
  /\ late' = IF hup = "idle" THEN late ELSE late \cup {m}
  /\ UNCHANGED <<main, debug, level, logpc, hup, told, calls, queue, taken, lost>>

Closed == logpc \in {"drain", "end", "dead"}

TrySend_overwrites(m) ==
  /\ queue' = IF Len(queue) < QueueCap THEN Append(queue, m) ELSE Append(Tail(queue), m)
  /\ UNCHANGED lost

TrySend_unbounded(m) == queue' = Append(queue, m) /\ UNCHANGED lost

(* try_send(..).unwrap(), in a task of its own.                             *)
TrySend(m) ==
  IF Len(queue) < QueueCap /\ ~Closed
  THEN queue' = Append(queue, m) /\ UNCHANGED lost
  ELSE lost' = lost \cup {m} /\ UNCHANGED queue

CallSend ==
  /\ Grant("call")
  /\ TrySend(Head(waiters).m)
  /\ UNCHANGED <<main, debug, level, logpc, hup, told, calls, spawned, taken, late>>

-----------------------------------------------------------------------------
(* The log task.                                                            *)

LogAsk ==
  /\ logpc = "spawned" /\ logpc' = "ask"
  /\ Ask("log", Nobody)
  /\ UNCHANGED <<main, debug, level, hup, told, calls, spawned, queue, taken, lost,
                 late>>

(* It logs that it starts, directly: with its own queue full it panics.     *)
LogStart ==
  /\ Grant("log")
  /\ IF Len(queue) < QueueCap
     THEN logpc' = "start" /\ queue' = Append(queue, Nobody)
     ELSE logpc' = "dead" /\ queue' = <<>>
  /\ lost' = IF logpc' = "dead" THEN lost \cup {queue[i] : i \in DOMAIN queue} ELSE lost
  /\ UNCHANGED <<main, debug, level, hup, told, calls, spawned, taken, late>>

StartBarrier ==                 \* the other parties are in Lifecycle
  /\ logpc = "start" /\ logpc' = "run"
  /\ UNCHANGED <<main, debug, level, hup, told, calls, spawned, waiters, queue,
                 taken, lost, late>>

(* Shown if its level is enabled when it is written.                        *)
LogTake ==
  /\ logpc \in {"run", "drain"} /\ queue # <<>>
  /\ taken' = Append(taken, Head(queue)) /\ queue' = Tail(queue)
  /\ UNCHANGED <<main, debug, level, logpc, hup, told, calls, spawned, waiters,
                 lost, late>>

LogShutdown ==
  /\ logpc = "run" /\ told /\ logpc' = "shut"
  /\ UNCHANGED <<main, debug, level, hup, told, calls, spawned, waiters, queue,
                 taken, lost, late>>

(* Should the shutdown barrier open (see Lifecycle), the queue is closed.   *)
ShutBarrier ==
  /\ logpc = "shut" /\ logpc' = "drain"
  /\ UNCHANGED <<main, debug, level, hup, told, calls, spawned, waiters, queue,
                 taken, lost, late>>

LogEnd_undrained ==
  /\ logpc = "drain" /\ logpc' = "end"
  /\ UNCHANGED <<main, debug, level, hup, told, calls, spawned, waiters, queue,
                 taken, lost, late>>

LogEnd ==                       \* recv() is None: closed and empty
  /\ logpc = "drain" /\ queue = <<>> /\ logpc' = "end"
  /\ UNCHANGED <<main, debug, level, hup, told, calls, spawned, waiters, queue,
                 taken, lost, late>>

-----------------------------------------------------------------------------
(* Signals.  The SIGHUP task is past the start barrier.                     *)

SendShutdown ==
  /\ main = "up" /\ ~told /\ told' = TRUE
  /\ UNCHANGED <<main, debug, level, logpc, hup, calls, spawned, waiters, queue,
                 taken, lost, late>>

HupAsk ==
  /\ hup = "idle" /\ logpc \in {"run", "shut", "drain", "end"}
  /\ hup' = "wait" /\ Ask("hup", Nobody)
  /\ UNCHANGED <<main, debug, level, logpc, told, calls, spawned, queue, taken, lost,
                 late>>

HupSet(d) ==
  /\ GrantWrite("hup")
  /\ level' = LevelOf(d) /\ hup' = "done"
  /\ UNCHANGED <<main, debug, logpc, told, calls, spawned, queue, taken, lost, late>>

-----------------------------------------------------------------------------
Main    == MainAsk \/ MainSet \/ MainSpawn
Calls   == CallSend \/ \E m \in spawned : CallAsk(m)
LogTask == LogAsk \/ LogStart \/ StartBarrier \/ LogShutdown \/ LogEnd
Hup     == HupAsk \/ \E d \in BOOLEAN : HupSet(d)

Next ==
  \/ Main \/ Calls \/ LogTask \/ LogTake \/ ShutBarrier \/ Hup
  \/ SendShutdown
  \/ \E l \in Level : LogCall(l)

Spec == Init /\ [][Next]_vars

(* Tasks that can run are run, a lock that is free is granted, and select!  *)
(* takes a branch that is ready again and again.  The shutdown barrier need *)
(* not open.                                                                *)
Fairness ==
  /\ WF_vars(Main) /\ WF_vars(LogTask) /\ SF_vars(LogTake)
  /\ WF_vars(CallSend) /\ WF_vars(\E d \in BOOLEAN : HupSet(d))
  /\ \A k \in 1 .. MaxCalls, l \in Level : WF_vars(CallAsk(Message(k, l)))

FairSpec == Spec /\ Fairness

-----------------------------------------------------------------------------
(* Properties.                                                              *)

Msg     == [n : 0 .. MaxCalls, level : Level]
Waiting == {waiters[i].m : i \in {j \in DOMAIN waiters : waiters[j].who = "call"}}
Taken   == {taken[i] : i \in DOMAIN taken}
Queued  == {queue[i] : i \in DOMAIN queue}

(* Every variable has its type.                                             *)
TypeOK ==
  /\ main \in {"file", "debug", "spawn", "up"} /\ debug \in BOOLEAN
  /\ level \in Level /\ hup \in {"idle", "wait", "done"} /\ told \in BOOLEAN
  /\ logpc \in {"none", "spawned", "ask", "start", "run", "shut", "drain", "end", "dead"}
  /\ calls \in 0 .. MaxCalls
  /\ spawned \subseteq Msg /\ lost \subseteq Msg /\ late \subseteq Msg
  /\ waiters \in Seq([who : {"main", "call", "log", "hup"}, m : Msg])
  /\ queue \in Seq(Msg) /\ taken \in Seq(Msg) /\ Len(queue) <= QueueCap

(* The message of every call is in exactly one place, once: with its task,  *)
(* waiting for the lock, queued, received by the log task, or lost in a     *)
(* panic.  In particular nothing that was queued is dropped, whenever       *)
(* Shutdown comes and however the task ends.                                *)
Places == <<spawned, Waiting, Queued, Taken, lost>>
Accounted ==
  /\ \A k \in 1 .. calls : \E p \in 1 .. 5 : \E m \in Places[p] : m.n = k
  /\ \A p, q \in 1 .. 5 : p # q => Places[p] \cap Places[q] \subseteq {Nobody}
  /\ Len(taken \o queue) = Cardinality(Queued \cup Taken)
  /\ logpc = "end" => queue = <<>>

(* The log task works with the level main set from the settings, as long    *)
(* as it lives: a reload cannot change it (set_debug, logging.rs:50).       *)
LevelAsStarted ==
  logpc \in {"start", "run", "shut", "drain"} => level = LevelOf(debug)

(* Once a reload waits for the lock, no later log call gets past it before  *)
(* the log task ends, although all of them only want to read.               *)
SilentAfterReload ==
  logpc \notin {"end", "dead"} => late \cap (Queued \cup Taken \cup lost) = {}

(* A message in the queue is received, unless the log task waits at the     *)
(* shutdown barrier ("Allow all other tasks to log dying gasps",            *)
(* logging.rs:155) or has died at its start.                                *)
QueuedIsReceived ==
  \A k \in 1 .. MaxCalls :
    (\E m \in Queued : m.n = k) ~>
      (\E m \in Taken \cup lost : m.n = k) \/ logpc = "shut"

(* A log call gets its message into the queue, or loses it, unless a reload *)
(* waits for the lock.                                                      *)
CallsGetThrough ==
  \A k \in 1 .. MaxCalls :
    calls >= k ~> (\E m \in Queued \cup Taken \cup lost : m.n = k) \/ hup = "wait"

(* main's set-up ends and the log task starts: nobody holds the lock yet    *)
(* when main asks for it, and calls made meanwhile do not keep it away.     *)
SetupEnds == <>(main = "up" /\ logpc \notin {"none", "spawned", "ask"})
=============================================================================
