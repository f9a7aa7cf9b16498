--------------------------- MODULE LifecycleProofs ---------------------------
(***************************************************************************)
(* Proofs about Lifecycle: the start-up barrier really precedes the first  *)
(* broadcast, the control broadcast never overflows, and the shutdown      *)
(* barrier never opens.                                                    *)
(***************************************************************************)
EXTENDS Lifecycle, TLAPS

(* How many signals have been sent: one by the Ctrl-C task, one by main,    *)
(* one by the SIGHUP task before it waits for the LOGGER lock.              *)
FromCtrlC  == IF ctrlc \in {"sent", "ended", "again"} THEN 1 ELSE 0
FromMain   == IF pc["main"] \in {"spawn", "barrier", "config"} THEN 0 ELSE 1
FromSighup == IF pc["sighup"] = "write" THEN 1 ELSE 0

Early == {"none", "spawn", "spawned", "start", "barrier"}

At(p, stage) == IF pc[p] = stage THEN 1 ELSE 0
Count(stage) == At("log", stage) + At("sighup", stage) + At("server", stage)
                  + At("dns", stage) + At("main", stage)

(* Tasks main has not come to yet.                                          *)
SpawnInOrder ==
  pc["main"] = "spawn" =>
    /\ nth < 1 => pc["log"] = "none"
    /\ nth < 2 => ctrlc = "none"
    /\ nth < 3 => pc["sighup"] = "none"
    /\ nth < 4 => pc["server"] = "none"
    /\ nth < 5 => pc["dns"] = "none"

StartBarrierCounts ==
  \/ ready < StartParties /\ ready = Count("barrier") /\ \A p \in Party : pc[p] \in Early
  \/ ready = StartParties /\ \A p \in Party : pc[p] \notin Early

(* main subscribes for the SIGHUP task, the others for themselves.          *)
Subscribed ==
  \A t \in Task : \/ pc[t] = "none" \/ (pc[t] = "spawned" /\ t # "sighup")
                  \/ pos[t] # Unsub

ShutBarrierCounts ==
  /\ shut = Count("wait")
  /\ ~opened
  /\ \A p \in Party : pc[p] # "done"
  /\ pc["main"] = "bye" => nth <= Len(Spawned)

FewSignals == Len(ctl) <= FromCtrlC + FromMain + FromSighup

IInv == /\ TypeOK /\ SpawnInOrder /\ StartBarrierCounts /\ Subscribed
        /\ ShutBarrierCounts /\ FewSignals

USE DEF Party, Task, Unsub, Shutdown, Reconf, ThreadCount, StartParties, Stage

LEMMA SpawnedList ==
  /\ Len(Spawned) = 5
  /\ Spawned[1] = "log" /\ Spawned[2] = "ctrlc" /\ Spawned[3] = "sighup"
  /\ Spawned[4] = "server" /\ Spawned[5] = "dns"
BY DEF Spawned

LEMMA InitInv == Init => IInv
<1> SUFFICES ASSUME Init PROVE IInv
  OBVIOUS
<1> USE DEF Init, server
<1>1. TypeOK
  <2>1. ctl \in Seq({Shutdown, Reconf})
    OBVIOUS
  <2>2. nth \in 0 .. Len(Spawned) + 1
    BY SpawnedList
  <2>3. pc \in [Party -> Stage]
    OBVIOUS
  <2>4. pos \in [Party -> Nat \cup {Unsub}]
    OBVIOUS
  <2>5. /\ opened \in BOOLEAN
        /\ configured \in BOOLEAN /\ stopping \in BOOLEAN /\ hup \in BOOLEAN
    OBVIOUS
  <2>6. /\ process \in {"up", "killed", "exited"}
        /\ ctrlc \in {"none", "spawned", "listening", "caught", "sent", "ended",
                      "again"}
    OBVIOUS
  <2>7. ready \in 0 .. StartParties /\ shut \in 0 .. ThreadCount - 1
    OBVIOUS
  <2>8. QED
    BY <2>1, <2>2, <2>3, <2>4, <2>5, <2>6, <2>7 DEF TypeOK
<1>2. SpawnInOrder /\ Subscribed
  BY DEF SpawnInOrder, Subscribed
<1>3. StartBarrierCounts
  BY DEF StartBarrierCounts, Early, At, Count
<1>4. ShutBarrierCounts
  BY DEF ShutBarrierCounts, At, Count
<1>5. FewSignals
  BY DEF FewSignals, FromCtrlC, FromMain, FromSighup
<1>6. QED
  BY <1>1, <1>2, <1>3, <1>4, <1>5 DEF IInv

LEMMA SpawnStep == IInv /\ MainSpawn => IInv'
<1> SUFFICES ASSUME IInv, MainSpawn PROVE IInv'
  OBVIOUS
<1> USE DEF IInv, TypeOK, MainSpawn, server
<1>0. nth \in 0 .. 4
  BY SpawnedList
<1>1. /\ pc' \in [Party -> Stage] /\ pc'["main"] = "spawn"
      /\ \A t \in Task : \/ pc'[t] = pc[t]
                         \/ pc[t] = "none" /\ pc'[t] = "spawned"
  BY <1>0, SpawnedList DEF SpawnInOrder
<1>2. TypeOK'
  BY <1>0, <1>1, SpawnedList
<1>3. SpawnInOrder'
  BY <1>0, SpawnedList DEF SpawnInOrder
<1>4. StartBarrierCounts'
  BY <1>1 DEF StartBarrierCounts, Early, At, Count
<1>5. Subscribed'
  BY <1>0, SpawnedList DEF Subscribed
<1>6. ShutBarrierCounts'
  BY <1>1 DEF ShutBarrierCounts, At, Count
<1>7. FewSignals'
  BY <1>0, <1>1, SpawnedList DEF SpawnInOrder, FewSignals, FromCtrlC, FromMain, FromSighup
<1>8. QED
  BY <1>2, <1>3, <1>4, <1>5, <1>6, <1>7

LEMMA SubscribeStep ==
  ASSUME IInv, NEW t \in Task, TaskSubscribe(t)
  PROVE  IInv'
<1> USE DEF IInv, TypeOK, TaskSubscribe, server
<1>1. TypeOK'
  OBVIOUS
<1>2. SpawnInOrder' /\ Subscribed'
  BY DEF SpawnInOrder, Subscribed
<1>3. StartBarrierCounts'
  BY DEF StartBarrierCounts, Early, At, Count
<1>4. ShutBarrierCounts'
  BY DEF ShutBarrierCounts, At, Count
<1>5. FewSignals'
  BY DEF FewSignals, FromCtrlC, FromMain, FromSighup
<1>6. QED
  BY <1>1, <1>2, <1>3, <1>4, <1>5

LEMMA StartStep ==
  ASSUME IInv, NEW p \in Party, StartWait(p)
  PROVE  IInv'
<1> USE DEF IInv, TypeOK, server
<1>1. pc[p] \in Early \ {"barrier"} /\ ready < StartParties
  BY DEF StartWait, AtStartBarrier, StartBarrierCounts, Early
<1>2. CASE ready + 1 < StartParties
  <2>1. pc' = [pc EXCEPT ![p] = "barrier"] /\ ready' = ready + 1
    BY <1>2 DEF StartWait
  <2>2. TypeOK'
    BY <1>1, <1>2, <2>1 DEF StartWait
  <2>3. SpawnInOrder' /\ Subscribed'
    BY <2>1 DEF StartWait, AtStartBarrier, SpawnInOrder, Subscribed
  <2>4. StartBarrierCounts'
    BY <1>1, <1>2, <2>1 DEF StartBarrierCounts, Early, At, Count
  <2>5. ShutBarrierCounts'
    BY <1>1, <2>1 DEF StartWait, ShutBarrierCounts, Early, At, Count
  <2>6. FewSignals'
    BY <2>1 DEF StartWait, AtStartBarrier, FewSignals, FromCtrlC, FromMain, FromSighup
  <2>7. QED
    BY <2>2, <2>3, <2>4, <2>5, <2>6
<1>3. CASE ~(ready + 1 < StartParties)
  <2>1. ready = 4 /\ \A q \in Party : q = p \/ pc[q] = "barrier"
    <3>1. ready = Count("barrier") /\ ready = 4 /\ pc[p] # "barrier"
      BY <1>1, <1>3 DEF StartBarrierCounts
    <3>2. At(p, "barrier") = 0 /\ \A q \in Party : At(q, "barrier") \in {0, 1}
      BY <3>1 DEF At
    <3>3. \A q \in Party : q = p \/ At(q, "barrier") = 1
      BY <3>1, <3>2 DEF Count
    <3>4. QED
      BY <3>1, <3>3 DEF At
  <2>2. ready' = 5 /\ pc' = [q \in Party |-> AfterStart(q)]
    BY <1>3, <2>1 DEF StartWait
  <2>3. TypeOK'
    BY <1>3, <2>2 DEF StartWait, AfterStart
  <2>4. SpawnInOrder' /\ StartBarrierCounts'
    BY <2>2 DEF AfterStart, SpawnInOrder, StartBarrierCounts, Early
  <2>5. Subscribed'
    BY <2>1, <2>2 DEF StartWait, AtStartBarrier, Subscribed
  <2>6. ShutBarrierCounts'
    BY <1>1, <2>1, <2>2 DEF StartWait, AfterStart, ShutBarrierCounts, Early, At, Count
  <2>7. FewSignals'
    <3>1. /\ pc["main"] \in {"spawn", "barrier"} /\ pc'["main"] = "config"
          /\ pc["sighup"] # "write" /\ pc'["sighup"] = "install"
      BY <2>1, <2>2 DEF StartWait, AtStartBarrier, AfterStart
    <3>2. QED
      BY <3>1 DEF StartWait, FewSignals, FromCtrlC, FromMain, FromSighup
  <2>8. QED
    BY <2>3, <2>4, <2>5, <2>6, <2>7
<1>4. QED
  BY <1>2, <1>3

LEMMA ControlStep ==
  ASSUME IInv, NEW p \in Party, Control(p)
  PROVE  IInv'
<1> USE DEF IInv, TypeOK, Control, Take, server
<1>1. /\ pc[p] = "run" /\ pc' \in [Party -> Stage] /\ pc'[p] \in {"run", "bye"}
      /\ \A q \in Party : q # p => pc'[q] = pc[q]
  OBVIOUS
<1>2. pos' \in [Party -> Nat \cup {Unsub}] /\ nth' \in 0 .. Len(Spawned) + 1
  BY SpawnedList
<1>3. TypeOK'
  BY <1>1, <1>2
<1>4. SpawnInOrder' /\ Subscribed'
  BY <1>1 DEF SpawnInOrder, Subscribed
<1>5. StartBarrierCounts'
  BY <1>1 DEF StartBarrierCounts, Early, At, Count
<1>6. ShutBarrierCounts'
  BY <1>1 DEF ShutBarrierCounts, At, Count
<1>7. FewSignals'
  BY <1>1 DEF FewSignals, FromCtrlC, FromMain, FromSighup
<1>8. QED
  BY <1>3, <1>4, <1>5, <1>6, <1>7

(* Both steps of the server task only move it to "run", "bye" or "dead".    *)
LEMMA ServerStep == IInv /\ (ServerControl \/ ServerPanic) => IInv'
<1> SUFFICES ASSUME IInv, ServerControl \/ ServerPanic PROVE IInv'
  OBVIOUS
<1> USE DEF IInv, TypeOK, ServerControl, ServerPanic, Take, server
<1>1. /\ pc["server"] = "run" /\ pc' \in [Party -> Stage]
      /\ pc'["server"] \in {"run", "bye", "dead"}
      /\ \A q \in Party : q # "server" => pc'[q] = pc[q]
      /\ UNCHANGED <<process, nth, ready, shut, opened, ctl, ctrlc, hup>>
  OBVIOUS
<1>2. pos' \in [Party -> Nat \cup {Unsub}] /\ \A q \in Party : pos[q] # Unsub => pos'[q] # Unsub
  <2>1. pos["server"] # Unsub => pos["server"] + 1 \in Nat
    OBVIOUS
  <2>2. pos["server"] = Unsub => pos["server"] + 1 = 0
    OBVIOUS
  <2>3. pos' = pos \/ pos' = [pos EXCEPT !["server"] = @ + 1]
    OBVIOUS
  <2>4. QED
    BY <2>1, <2>2, <2>3, SMTT(20)
<1>3. configured' \in BOOLEAN /\ stopping' \in BOOLEAN
  OBVIOUS
<1>4. TypeOK'
  BY <1>1, <1>2, <1>3
<1>5. SpawnInOrder' /\ Subscribed'
  BY <1>1, <1>2 DEF SpawnInOrder, Subscribed
<1>6. StartBarrierCounts'
  BY <1>1 DEF StartBarrierCounts, Early, At, Count
<1>7. ShutBarrierCounts'
  BY <1>1 DEF ShutBarrierCounts, At, Count
<1>8. FewSignals'
  BY <1>1 DEF FewSignals, FromCtrlC, FromMain, FromSighup
<1>9. QED
  BY <1>4, <1>5, <1>6, <1>7, <1>8

(* p arrives at the shutdown barrier; it is at most the fifth to do so.     *)
LEMMA ShutWaitCloses ==
  ASSUME IInv, NEW p \in Party, pc[p] = "bye", ShutWait(p)
  PROVE  /\ shut + 1 < ThreadCount /\ shut' = shut + 1 /\ ~opened'
         /\ pc' = [pc EXCEPT ![p] = "wait"]
<1>1. At(p, "wait") = 0 /\ \A q \in Party : At(q, "wait") \in {0, 1}
  BY DEF At
<1>2. shut <= 4
  BY <1>1 DEF IInv, ShutBarrierCounts, Count
<1>3. QED
  BY <1>2 DEF IInv, TypeOK, ShutBarrierCounts, ShutWait

LEMMA ByeStep ==
  ASSUME IInv, NEW p \in Party,
         IF p = "main" THEN MainBye ELSE TaskBye(p)
  PROVE  IInv'
<1> USE DEF IInv, TypeOK, server
<1>1. /\ pc[p] = "bye" /\ nth' \in 0 .. Len(Spawned) + 1 /\ (p # "main" => nth' = nth)
      /\ UNCHANGED <<process, ready, ctl, pos, server, ctrlc, hup>>
  <2>1. CASE p = "main"
    BY <2>1, SpawnedList DEF MainBye, ShutBarrierCounts
  <2>2. CASE p # "main"
    BY <2>2 DEF TaskBye
  <2>3. QED
    BY <2>1, <2>2
<1>2. \/ ShutWait(p)
      \/ UNCHANGED <<pc, shut, opened>> /\ p = "main" /\ nth' <= Len(Spawned)
  <2>1. CASE p = "main"
    <3>1. \/ ShutWait("main")
          \/ /\ nth < Len(Spawned) /\ nth' = nth + 1
             /\ UNCHANGED <<pc, shut, opened>>
      BY <2>1 DEF MainBye
    <3>2. CASE ShutWait("main")
      BY <2>1, <3>2
    <3>3. CASE nth < Len(Spawned) /\ nth' = nth + 1 /\ UNCHANGED <<pc, shut, opened>>
      BY <2>1, <3>3, SpawnedList
    <3>4. QED
      BY <3>1, <3>2, <3>3
  <2>2. CASE p # "main"
    BY <2>2 DEF TaskBye
  <2>3. QED
    BY <2>1, <2>2
<1>3. CASE ShutWait(p)
  <2>1. /\ shut + 1 < ThreadCount /\ shut' = shut + 1 /\ ~opened'
        /\ pc' = [pc EXCEPT ![p] = "wait"]
    BY <1>1, <1>3, ShutWaitCloses
  <2>2. TypeOK'
    <3>1. opened' \in BOOLEAN
      BY <1>3 DEF ShutWait
    <3>2. QED
      BY <1>1, <2>1, <3>1
  <2>3. SpawnInOrder' /\ Subscribed'
    BY <1>1, <2>1 DEF SpawnInOrder, Subscribed
  <2>4. StartBarrierCounts'
    BY <1>1, <2>1 DEF StartBarrierCounts, Early, At, Count
  <2>5. ShutBarrierCounts'
    <3>1. Count("wait")' = Count("wait") + 1
      BY <1>1, <2>1 DEF At, Count
    <3>2. pc'["main"] = "bye" => p # "main" /\ pc["main"] = "bye"
      BY <1>1, <2>1
    <3>3. pc'["main"] = "bye" => nth' <= Len(Spawned)
      BY <1>1, <3>2 DEF ShutBarrierCounts
    <3>4. QED
      BY <2>1, <3>1, <3>3 DEF ShutBarrierCounts
  <2>6. FewSignals'
    BY <1>1, <2>1 DEF FewSignals, FromCtrlC, FromMain, FromSighup
  <2>7. QED
    BY <2>2, <2>3, <2>4, <2>5, <2>6
<1>4. CASE UNCHANGED <<pc, shut, opened>> /\ p = "main" /\ nth' <= Len(Spawned)
  <2>1. TypeOK'
    BY <1>1, <1>4
  <2>2. SpawnInOrder' /\ Subscribed'
    BY <1>1, <1>4 DEF SpawnInOrder, Subscribed
  <2>3. StartBarrierCounts' /\ ShutBarrierCounts'
    BY <1>1, <1>4 DEF StartBarrierCounts, ShutBarrierCounts, Early, At, Count
  <2>4. FewSignals'
    BY <1>1, <1>4 DEF FewSignals, FromCtrlC, FromMain, FromSighup
  <2>5. QED
    BY <2>1, <2>2, <2>3, <2>4
<1>5. QED
  BY <1>2, <1>3, <1>4

(* The steps that leave the barriers alone: the broadcasts and the signals. *)
LEMMA SignalStep ==
  IInv /\ (MainConfigure \/ CtrlCStep \/ Sigint \/ Sighup \/ SighupStep) => IInv'
<1> SUFFICES ASSUME IInv,
                    MainConfigure \/ CtrlCStep \/ Sigint \/ Sighup \/ SighupStep
             PROVE  IInv'
  OBVIOUS
<1> USE DEF IInv, TypeOK, server
<1>1. CASE MainConfigure
  <2>1. TypeOK' /\ SpawnInOrder' /\ Subscribed'
    BY <1>1 DEF MainConfigure, SpawnInOrder, Subscribed
  <2>2. StartBarrierCounts' /\ ShutBarrierCounts'
    BY <1>1 DEF MainConfigure, StartBarrierCounts, ShutBarrierCounts, Early, At, Count
  <2>3. FewSignals'
    BY <1>1 DEF MainConfigure, FewSignals, FromCtrlC, FromMain, FromSighup
  <2>4. QED
    BY <2>1, <2>2, <2>3
<1>2. CASE CtrlCStep \/ Sigint \/ Sighup
  <2>1. UNCHANGED <<pc, nth, ready, shut, opened, pos>>
    BY <1>2 DEF CtrlCStep, CtrlCListen, CtrlCSend, CtrlCEnd, Sigint, Sighup
  <2>2. TypeOK'
    <3>1. hup' \in BOOLEAN
      BY <1>2 DEF CtrlCStep, CtrlCListen, CtrlCSend, CtrlCEnd, Sigint, Sighup, HupInstalled
    <3>2. configured' \in BOOLEAN /\ stopping' \in BOOLEAN
      BY <1>2 DEF CtrlCStep, CtrlCListen, CtrlCSend, CtrlCEnd, Sigint, Sighup
    <3>3. /\ ctl' \in Seq({Shutdown, Reconf})
          /\ process' \in {"up", "killed", "exited"}
          /\ ctrlc' \in {"none", "spawned", "listening", "caught", "sent", "ended",
                         "again"}
      BY <1>2 DEF CtrlCStep, CtrlCListen, CtrlCSend, CtrlCEnd, Sigint, Sighup
    <3>4. QED
      BY <2>1, <3>1, <3>2, <3>3
  <2>3. SpawnInOrder'
    BY <1>2 DEF CtrlCStep, CtrlCListen, CtrlCSend, CtrlCEnd, Sigint, Sighup, SpawnInOrder
  <2>4. StartBarrierCounts' /\ ShutBarrierCounts' /\ Subscribed'
    BY <2>1 DEF StartBarrierCounts, ShutBarrierCounts, Subscribed, At, Count
  <2>5. FewSignals'
    BY <1>2, <2>1 DEF CtrlCStep, CtrlCListen, CtrlCSend, CtrlCEnd, Sigint, Sighup,
       FewSignals, FromCtrlC, FromMain, FromSighup
  <2>6. QED
    BY <2>2, <2>3, <2>4, <2>5
<1>3. CASE SighupStep
  <2>1. pc["sighup"] = "write" => LoggerHeld
    BY DEF StartBarrierCounts, ShutBarrierCounts, LoggerHeld, Early
  <2>2. /\ pc["sighup"] \in {"install", "run", "write"}
        /\ \E st \in {"run", "write", "dead"} : pc' = [pc EXCEPT !["sighup"] = st]
        /\ UNCHANGED <<process, nth, ready, shut, opened, pos, server, ctrlc>>
    BY <1>3 DEF SighupStep, HupInstall, HupReload, HupReloadFails, HupWrite
  <2>3. TypeOK'
    <3>1. hup' \in BOOLEAN
      BY <1>3 DEF SighupStep, HupInstall, HupReload, HupReloadFails, HupWrite
    <3>2. ctl' = ctl \/ ctl' = Append(ctl, Reconf)
      BY <1>3 DEF SighupStep, HupInstall, HupReload, HupReloadFails, HupWrite
    <3>3. ctl' \in Seq({Shutdown, Reconf})
      BY <3>2
    <3>4. pc' \in [Party -> Stage]
      BY <2>2
    <3>5. QED
      BY <2>2, <3>1, <3>3, <3>4
  <2>4. SpawnInOrder' /\ Subscribed'
    BY <2>2 DEF SpawnInOrder, Subscribed
  <2>5. StartBarrierCounts' /\ ShutBarrierCounts'
    BY <2>2 DEF StartBarrierCounts, ShutBarrierCounts, Early, At, Count
  <2>6. FewSignals'
    BY <1>3, <2>1 DEF SighupStep, HupInstall, HupReload, HupReloadFails, HupWrite, FewSignals,
       FromCtrlC, FromMain, FromSighup
  <2>7. QED
    BY <2>3, <2>4, <2>5, <2>6
<1>4. QED
  BY <1>1, <1>2, <1>3

LEMMA StutterInv == IInv /\ UNCHANGED vars => IInv'
BY DEF vars, server, IInv, TypeOK, SpawnInOrder, StartBarrierCounts, Subscribed,
   ShutBarrierCounts, FewSignals, FromCtrlC, FromMain, FromSighup, At, Count

LEMMA NextInv == IInv /\ [Next]_vars => IInv'
<1> SUFFICES ASSUME IInv, Next PROVE IInv'
  BY StutterInv
<1>1. CASE MainStep
  BY <1>1, SpawnStep, StartStep, SignalStep, ControlStep, ByeStep DEF MainStep
<1>2. ASSUME NEW t \in Task, TaskStep(t) PROVE IInv'
  BY <1>2, SubscribeStep, StartStep, ControlStep, ByeStep DEF TaskStep
<1>3. CASE SighupStep \/ CtrlCStep \/ Sigint \/ Sighup
  BY <1>3, SignalStep
<1>4. CASE ServerControl \/ ServerPanic
  BY <1>4, ServerStep
<1>5. QED
  BY <1>1, <1>2, <1>3, <1>4 DEF Next

(* Every reachable state of the process satisfies the inductive invariant.  *)
THEOREM InductiveInvariant == Spec => []IInv
BY InitInv, NextInv, PTL DEF Spec

(* Every variable keeps its type in every behaviour.                        *)
THEOREM TypeCorrect == Spec => []TypeOK
<1>1. IInv => TypeOK
  BY DEF IInv
<1>2. QED
  BY <1>1, InductiveInvariant, PTL

(* The settings are broadcast only when every task of the start-up barrier  *)
(* (main.rs:146) has its receiver.                                          *)
THEOREM ConfigNotMissed == Spec => []SubscribedBeforeConfig
<1>1. IInv => SubscribedBeforeConfig
  BY DEF IInv, StartBarrierCounts, Subscribed, SubscribedBeforeConfig, Early
<1>2. QED
  BY <1>1, InductiveInvariant, PTL

(* The broadcast of capacity CtlCap (main.rs:54) never overwrites a signal  *)
(* some receiver has still to take.                                         *)
THEOREM NeverLagged == Spec => []NoLag
<1>1. IInv => Len(ctl) <= 3 /\ \A p \in Party : pos[p] \in Nat \cup {Unsub}
  BY DEF IInv, TypeOK, FewSignals, FromCtrlC, FromMain, FromSighup
<1>2. IInv => NoLag
  <2> SUFFICES ASSUME IInv, NEW p \in Party, pos[p] # Unsub
               PROVE  Len(ctl) - pos[p] <= CtlCap
    BY DEF NoLag
  <2>1. Len(ctl) \in Nat
    BY DEF IInv, TypeOK
  <2>2. QED
    BY <1>1, <2>1, CtlCapAssumption
<1>3. QED
  BY <1>2, InductiveInvariant, PTL

(* shutdown_barrier (main.rs:58) never lets anyone through: the process can *)
(* end by a second SIGINT, by a signal that comes too early, or not at all. *)
THEOREM BarrierStarves == Spec => []ShutdownBarrierStarves
<1>1. IInv => ShutdownBarrierStarves
  BY DEF IInv, TypeOK, ShutBarrierCounts, ShutdownBarrierStarves
<1>2. QED
  BY <1>1, InductiveInvariant, PTL
=============================================================================
