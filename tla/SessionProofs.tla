---------------------------- MODULE SessionProofs ----------------------------
(***************************************************************************)
(* Proofs about the sessions of Server, on the invariants of ServerProofs:  *)
(* first what a session is told before it is closed, then what it receives. *)
(***************************************************************************)
EXTENDS ServerProofs, FiniteSetTheorems

(***************************************************************************)
(* Proofs about the goodbyes of Server.  A session is closed only after a   *)
(* last line: this needs what the order of output needs, and settings that  *)
(* keep one endpoint, because a reconfiguration discards the lines it has   *)
(* just queued.  And there is always room for a goodbye or a greeting in    *)
(* the queue that the server task both fills and drains, as long as no more *)
(* sessions are open than a fifth of its capacity.                          *)
(***************************************************************************)

(* The last line of s was written, or is in the queue before place n.       *)
Told(s) == out[s] # <<>> /\ out[s][Len(out[s])] \in {"line", "shut"}
LineBefore(s, n) == Told(s) \/ \E j \in DOMAIN txq : j < n /\ txq[j] = Out(s, "line")

(* Every message that closes a socket, queued or about to be, follows it.   *)
Farewells ==
  /\ \A i \in DOMAIN txq : txq[i].data = "eof" => LineBefore(txq[i].sock, i)
  /\ \A s \in Sock :
       (attached[s] /\ rxpc[s] = "eof") \/ (pc = "stopEof" /\ cur = s)
         => LineBefore(s, Len(txq) + 1)

FInv == FarewellBeforeClose /\ Farewells

-----------------------------------------------------------------------------
LEMMA QuietFarewell ==
  ASSUME IInv, FInv, UNCHANGED <<txq, out>>,
         \A t \in Sock : attached'[t] /\ rxpc'[t] = "eof" => attached[t] /\ rxpc[t] = "eof",
         pc' = "stopEof" => pc = "stopEof" /\ cur' = cur,
         pc = "dead" => pc' = "dead"
  PROVE  FInv'
<1>1. FarewellBeforeClose'
  BY DEF FInv, FarewellBeforeClose
<1>2. Farewells'
  BY DEF FInv, Farewells, LineBefore, Told
<1>3. QED
  BY <1>1, <1>2 DEF FInv

(* A message is added: the last line of s, its close, or a greeting.        *)
LEMMA SayFarewell ==
  ASSUME IInv, FInv, NEW s \in Sock, NEW d \in {"greet", "line", "eof"},
         attached[s], ToClient(s, Out(s, d)), UNCHANGED <<out, attached>>,
         d = "eof" => LineBefore(s, Len(txq) + 1),
         \A t \in Sock : attached[t] /\ rxpc'[t] = "eof"
                           => rxpc[t] = "eof" \/ (t = s /\ d = "line"),
         pc' = "stopEof" => (pc = "stopEof" /\ cur' = cur) \/ (cur' = s /\ d = "line"),
         pc = "dead" => pc' = "dead"
  PROVE  FInv'
<1> DEFINE m == Out(s, d)
<1>1. PICK n \in Nat :
        /\ n = Len(txq) /\ Len(txq') = n + 1
        /\ DOMAIN txq = 1 .. n /\ DOMAIN txq' = 1 .. n + 1
        /\ \A i \in 1 .. n : txq'[i] = txq[i]
        /\ txq'[n + 1] = m
  <2>1. m \in Outbound /\ txq \in Seq(Outbound)
    BY DEF Out, Outbound, IInv, TypeOK, QueuesType
  <2>2. QED
    BY <2>1, Enqueued
<1>2. m.sock = s /\ m.data = d
  BY DEF Out
<1>3. \A i \in 1 .. n : txq[i].sock \in Sock
  BY <1>1, Senders
<1>4. \A i \in 1 .. n + 1 : i \in 1 .. n \/ i = n + 1
  OBVIOUS
<1>5. ASSUME NEW t \in Sock, NEW k \in Nat, LineBefore(t, k)
      PROVE  LineBefore(t, k)'
  BY <1>1, <1>5 DEF LineBefore, Told
<1>6. ASSUME NEW t \in Sock, LineBefore(t, n + 1)
      PROVE  LineBefore(t, n + 2)'
  <2>1. CASE Told(t)
    BY <2>1 DEF LineBefore, Told
  <2>2. ASSUME NEW j \in 1 .. n, txq[j] = Out(t, "line")
        PROVE  LineBefore(t, n + 2)'
    <3>1. j \in DOMAIN txq' /\ j < n + 2 /\ txq'[j] = Out(t, "line")
      BY <1>1, <2>2
    <3>2. QED
      BY <3>1 DEF LineBefore
  <2>3. QED
    BY <1>1, <1>6, <2>1, <2>2 DEF LineBefore
<1>7. d = "line" => LineBefore(s, n + 2)'
  <2>1. n + 1 \in DOMAIN txq' /\ n + 1 < n + 2
    BY <1>1
  <2>2. QED
    BY <1>1, <2>1 DEF LineBefore
<1>8. ASSUME NEW i \in 1 .. n + 1, txq'[i].data = "eof", NEW u, u = txq'[i].sock
      PROVE  LineBefore(u, i)'
  <2>1. CASE i \in 1 .. n
    <3>1. u \in Sock /\ LineBefore(u, i)
      BY <1>1, <1>3, <1>8, <2>1 DEF FInv, Farewells
    <3>2. QED
      BY <1>5, <2>1, <3>1
  <2>2. CASE i = n + 1
    <3>1. d = "eof" /\ u = s
      BY <1>1, <1>2, <1>8, <2>2
    <3>2. QED
      BY <1>1, <1>5, <2>2, <3>1
  <2>3. QED
    BY <1>4, <2>1, <2>2
<1>9. ASSUME NEW t \in Sock,
             (attached'[t] /\ rxpc'[t] = "eof") \/ (pc' = "stopEof" /\ cur' = t)
      PROVE  LineBefore(t, n + 2)'
  <2>1. CASE t = s /\ d = "line"
    BY <1>7, <2>1
  <2>2. CASE ~(t = s /\ d = "line")
    <3>1. (attached[t] /\ rxpc[t] = "eof") \/ (pc = "stopEof" /\ cur = t)
      BY <1>9, <2>2
    <3>2. LineBefore(t, n + 1)
      BY <1>1, <3>1 DEF FInv, Farewells
    <3>3. QED
      BY <1>6, <3>2
  <2>3. QED
    BY <2>1, <2>2
<1>10. Farewells'
  <2>1. \A i \in DOMAIN txq' : \A u : txq'[i].data = "eof" /\ u = txq'[i].sock => LineBefore(u, i)'
    BY <1>1, <1>8
  <2>2. \A i \in DOMAIN txq' : txq'[i].data = "eof" =>
          \/ Told(txq[i].sock)'
          \/ \E j \in DOMAIN txq' : j < i /\ txq'[j] = Out(txq'[i].sock, "line")
    BY <2>1 DEF LineBefore
  <2>3. n + 2 = Len(txq') + 1
    BY <1>1
  <2>4. QED
    BY <1>9, <2>2, <2>3 DEF Farewells, LineBefore
<1>11. FarewellBeforeClose'
  BY DEF FInv, FarewellBeforeClose
<1>12. QED
  BY <1>10, <1>11 DEF FInv

LEMMA OutsideFarewell == ASSUME IInv, FInv, Outside PROVE FInv'
BY OutsideFrame, QuietFarewell

LEMMA RxFarewell == ASSUME IInv, SInv, FInv, NEW s \in Sock, RxTask(s) PROVE FInv'
<1>1. /\ UNCHANGED <<pc, cur, out, attached>>
      /\ \A t \in Sock : t # s => rxpc'[t] = rxpc[t]
  BY DEF RxTask, RxRecv, RxSendLine, RxSendEof, IInv, TypeOK, ConnType, task, world
<1>2. DOMAIN rxpc = Sock
  BY DEF IInv, TypeOK, ConnType
<1>3. CASE RxRecv(s)
  <2>1. rxpc'[s] # "eof" /\ txq' = txq
    BY <1>2, <1>3 DEF RxRecv
  <2>2. QED
    BY <1>1, <2>1, QuietFarewell
<1>4. CASE RxSendLine(s) \/ RxSendEof(s)
  <2>1. \/ ToClient(s, Out(s, "line")) /\ rxpc[s] = "line"
        \/ ToClient(s, Out(s, "eof")) /\ rxpc[s] = "eof" /\ rxpc'[s] = "done"
    BY <1>2, <1>4 DEF RxSendLine, RxSendEof
  <2>2. CASE ~attached[s]
    <3>1. txq' = txq
      BY <2>1, <2>2 DEF ToClient
    <3>2. QED
      BY <1>1, <2>2, <3>1, QuietFarewell
  <2>3. CASE attached[s] /\ ToClient(s, Out(s, "line"))
    BY <1>1, <2>1, <2>3, SayFarewell
  <2>4. CASE attached[s] /\ ToClient(s, Out(s, "eof")) /\ rxpc[s] = "eof" /\ rxpc'[s] = "done"
    <3>1. LineBefore(s, Len(txq) + 1)
      BY <2>4 DEF FInv, Farewells
    <3>2. QED
      BY <1>1, <2>4, <3>1, SayFarewell
  <2>5. QED
    BY <2>1, <2>2, <2>3, <2>4
<1>5. QED
  BY <1>3, <1>4 DEF RxTask

(* The goodbyes of the shutdown: a line, then the close.                    *)
LEMMA ByeFarewell ==
  ASSUME IInv, SInv, OInv, FInv, pc \notin {"reconf", "reconfEof"},
         SrvByeEof \/ \E s \in Sock : SrvByeLine(s)
  PROVE  FInv'
<1>1. ASSUME NEW s \in Sock, SrvByeLine(s) PROVE FInv'
  <2>1. /\ UNCHANGED <<attached, rxpc, out>>
        /\ s \in todo /\ ToClient(s, Out(s, "line")) /\ cur' = s
        /\ pc = "stop" /\ pc' = "stopEof"
    BY <1>1 DEF SrvByeLine, tables, conn, world
  <2>2. attached[s]
    BY <2>1, SockAssumption DEF OInv, Present, IsOpen, SInv, Entries
  <2>3. QED
    BY <2>1, <2>2, SayFarewell
<1>2. CASE SrvByeEof
  <2>1. /\ UNCHANGED <<attached, rxpc, out>>
        /\ ToClient(cur, Out(cur, "eof")) /\ cur \in Sock
        /\ pc = "stopEof" /\ pc' = "stop"
    BY <1>2 DEF SrvByeEof, IInv, InHand, tables, conn, world
  <2>2. attached[cur]
    BY <2>1, SockAssumption DEF OInv, Present, IsOpen, SInv, Entries
  <2>3. LineBefore(cur, Len(txq) + 1)
    BY <2>1 DEF FInv, Farewells
  <2>4. QED
    BY <2>1, <2>2, <2>3, SayFarewell
<1>3. QED
  BY <1>1, <1>2

LEMMA GreetFarewell == ASSUME IInv, SInv, OInv, FInv, SrvGreet PROVE FInv'
<1>1. /\ UNCHANGED <<attached, rxpc, out>>
      /\ ToClient(cur, Out(cur, "greet")) /\ cur \in Sock
      /\ pc = "greet" /\ pc' = "select"
  BY DEF SrvGreet, IInv, InHand, tables, conn, world
<1>2. attached[cur]
  BY <1>1, SockAssumption DEF OInv, Present, IsOpen, SInv, Entries
<1>3. QED
  BY <1>1, <1>2, SayFarewell

LEMMA AcceptFarewell ==
  ASSUME NoTakeover, IInv, SInv, Alone, FInv, NEW s \in Sock, SrvAccept(s) PROVE FInv'
<1>1. /\ UNCHANGED txq /\ pc = "select" /\ pc' = "dns"
      /\ out' = [t \in Sock |-> IF wr_streams[AddrOf[s]] = t
                                THEN Append(out[t], "shut") ELSE out[t]]
  BY DEF SrvAccept
<1>2. out' = out
  BY <1>1, AddressFree, SockAssumption DEF IInv, TypeOK, WorldType
<1>3. rxpc'[s] = "recv" /\ \A t \in Sock : t # s => rxpc'[t] = rxpc[t] /\ attached'[t] = attached[t]
  BY DEF SrvAccept, IInv, TypeOK, ConnType, QueuesType
<1>4. QED
  BY <1>1, <1>2, <1>3, QuietFarewell

LEMMA PanicFarewell == ASSUME Panic PROVE FInv'
<1>1. pc' = "dead" /\ txq' = <<>> /\ \A t \in Sock : ~attached'[t]
  BY DEF Panic, DropSessions
<1>2. DOMAIN txq' = {}
  BY <1>1
<1>3. QED
  BY <1>1, <1>2 DEF FInv, FarewellBeforeClose, Farewells

LEMMA QuietStepFarewell ==
  ASSUME IInv, SInv, FInv,
         SrvSignal \/ SrvStopClose \/ SrvFinish \/ SrvDnsDone \/ SrvReceive \/ SrvForward
  PROVE  FInv'
<1>1. /\ UNCHANGED <<txq, rxpc, out>> /\ \A t \in Sock : attached'[t] => attached[t]
      /\ pc # "dead" /\ pc' # "stopEof"
  BY DEF SrvSignal, SrvInitShutdown, SrvInitConfigure, SrvShutdown, SrvReconfigure,
     SrvStopClose, SrvFinish, SrvDnsDone, SrvReceive, SrvForward, tables, queues, conn, world
<1>2. QED
  BY <1>1, QuietFarewell

(* A session that is not in the tables any more had its last line.          *)
LEMMA ShutIsTold ==
  ASSUME IInv, SInv, NEW s \in Sock, Shuts(s)
  PROVE  Told(s)
<1>1. PICK i \in DOMAIN out[s] : out[s][i] = "shut"
  BY DEF Shuts
<1>2. i = Len(out[s])
  BY <1>1 DEF SInv, Sockets
<1>3. out[s] # <<>>
  BY <1>1
<1>4. QED
  BY <1>1, <1>2, <1>3 DEF Told

(* The head of the queue is taken, and its session has what was promised.   *)
LEMMA SentFarewell ==
  ASSUME IInv, SInv, FInv, UNCHANGED <<task, attached, conn>>,
         txq # <<>>, txq' = Tail(txq), pc \in {"select", "finish"},
         NEW s \in Sock, s = txq[1].sock,
         \A t \in Sock : Told(t) /\ t # s => Told(t)',
         txq[1].data # "greet" \/ Told(s) => Told(s)'
  PROVE  Farewells'
<1>1. PICK n \in Nat :
        /\ DOMAIN txq = 1 .. n + 1 /\ DOMAIN txq' = 1 .. n
        /\ \A i \in 1 .. n : i + 1 \in 1 .. n + 1 /\ txq'[i] = txq[i + 1]
        /\ \A i \in 1 .. n + 1 : i = 1 \/ (i - 1 \in 1 .. n /\ txq'[i - 1] = txq[i])
  BY Shifted
<1>2. /\ txq \in Seq(Outbound) /\ txq' \in Seq(Outbound)
  BY DEF IInv, TypeOK, QueuesType
<1>3. Len(txq) = n + 1 /\ Len(txq') = n
  BY <1>1, <1>2
<1>4. ASSUME NEW t \in Sock, NEW k \in Nat, LineBefore(t, k + 1)
      PROVE  LineBefore(t, k)'
  <2>1. CASE Told(t)'
    BY <2>1 DEF LineBefore
  <2>2. CASE ~Told(t)'
    <3>1. ~Told(t) /\ (t = s => txq[1].data = "greet")
      BY <2>2
    <3>2. PICK j \in DOMAIN txq : j < k + 1 /\ txq[j] = Out(t, "line")
      BY <1>4, <3>1 DEF LineBefore
    <3>3. j # 1
      BY <3>1, <3>2 DEF Out
    <3>4. j - 1 \in DOMAIN txq' /\ j - 1 < k /\ txq'[j - 1] = Out(t, "line")
      BY <1>1, <3>2, <3>3
    <3>5. QED
      BY <3>4 DEF LineBefore
  <2>3. QED
    BY <2>1, <2>2
<1>5. ASSUME NEW i \in 1 .. n, txq'[i].data = "eof", NEW u, u = txq'[i].sock
      PROVE  LineBefore(u, i)'
  <2>1. txq[i + 1].data = "eof" /\ u = txq[i + 1].sock /\ i + 1 \in DOMAIN txq
    BY <1>1, <1>5
  <2>2. u \in Sock /\ LineBefore(u, i + 1)
    BY <2>1, Senders DEF FInv, Farewells
  <2>3. QED
    BY <1>4, <2>2
<1>6. ASSUME NEW t \in Sock,
             (attached'[t] /\ rxpc'[t] = "eof") \/ (pc' = "stopEof" /\ cur' = t)
      PROVE  LineBefore(t, n + 1)'
  <2>1. (attached[t] /\ rxpc[t] = "eof") \/ (pc = "stopEof" /\ cur = t)
    BY <1>6 DEF task, conn
  <2>2. LineBefore(t, (n + 1) + 1)
    BY <1>3, <2>1 DEF FInv, Farewells
  <2>3. QED
    BY <1>4, <2>2
<1>7. \A i \in DOMAIN txq' : \A u : txq'[i].data = "eof" /\ u = txq'[i].sock => LineBefore(u, i)'
  BY <1>1, <1>5
<1>8. \A i \in DOMAIN txq' : txq'[i].data = "eof" =>
        \/ Told(txq[i].sock)'
        \/ \E j \in DOMAIN txq' : j < i /\ txq'[j] = Out(txq'[i].sock, "line")
  BY <1>7 DEF LineBefore
<1>9. QED
  BY <1>3, <1>6, <1>8 DEF Farewells, LineBefore

LEMMA SendFarewell == ASSUME IInv, SInv, OInv, FInv, SrvSend PROVE FInv'
<1>1. /\ UNCHANGED <<task, attached, conn, net>>
      /\ pc \in {"select", "finish"} /\ txq # <<>> /\ txq' = Tail(txq)
  BY SendCases
<1>2. PICK a \in Addr, m \in Outbound :
        /\ m = txq[1] /\ a = AddrOf[m.sock]
        /\ \/ wr_streams[a] = NoSock /\ UNCHANGED <<connections, wr_streams, out>>
           \/ \E s \in Sock :
                /\ s = wr_streams[a] /\ m.data # "eof"
                /\ UNCHANGED <<connections, wr_streams>>
                /\ out' = [out EXCEPT ![s] = Append(out[s], m.data)]
           \/ \E s \in Sock :
                /\ s = wr_streams[a] /\ m.data = "eof"
                /\ out' = [out EXCEPT ![s] = Append(out[s], "shut")]
                /\ wr_streams' = [wr_streams EXCEPT ![a] = NoSock]
                /\ connections' = [connections EXCEPT ![a] = NoSock]
  BY SendCases
<1>3. 1 \in DOMAIN txq
  <2>1. PICK n \in Nat : DOMAIN txq = 1 .. n + 1
    BY <1>1, Shifted
  <2>2. QED
    BY <2>1
<1>4. PICK s \in Sock : s = txq[1].sock
  BY <1>3, Senders
<1>5. wr_streams[a] \in {NoSock, s} /\ net[s] = "accepted"
  BY <1>2, <1>3, <1>4 DEF OInv, Present
<1>6. out[s] \in Seq({"greet", "line", "shut"})
  BY DEF IInv, TypeOK, WorldType
<1>7. CASE wr_streams[a] = NoSock /\ UNCHANGED out
  <2>1. ~IsOpen(s)
    BY <1>2, <1>4, <1>7, SockAssumption DEF IsOpen
  <2>2. Told(s)
    BY <1>5, <2>1, ShutIsTold DEF SInv, Sockets
  <2>3. \A t \in Sock : Told(t) => Told(t)'
    BY <1>7 DEF Told
  <2>4. Farewells'
    BY <1>1, <1>4, <2>2, <2>3, SentFarewell
  <2>5. FarewellBeforeClose'
    BY <1>1, <1>7 DEF FInv, FarewellBeforeClose, task
  <2>6. QED
    BY <2>4, <2>5 DEF FInv
<1>8. ASSUME NEW d \in {"greet", "line"}, d = txq[1].data,
             out' = [out EXCEPT ![s] = Append(out[s], d)]
      PROVE  FInv'
  <2>1. /\ out'[s] = Append(out[s], d) /\ \A t \in Sock : t # s => out'[t] = out[t]
    BY <1>8 DEF IInv, TypeOK, WorldType
  <2>2. /\ Len(out[s]) \in Nat /\ DOMAIN out[s] = 1 .. Len(out[s])
        /\ DOMAIN out'[s] = 1 .. Len(out[s]) + 1 /\ Len(out'[s]) = Len(out[s]) + 1
        /\ \A i \in 1 .. Len(out[s]) : out'[s][i] = out[s][i]
        /\ out'[s][Len(out[s]) + 1] = d /\ out'[s] # <<>>
    BY <1>6, <2>1, Written
  <2>3. \A t \in Sock : Told(t) /\ t # s => Told(t)'
    BY <2>1 DEF Told
  <2>4. d = "greet" => ~Told(s)
    <3>1. d = "greet" => out[s] = <<>>
      BY <1>3, <1>4, <1>8 DEF OInv, FirstWords
    <3>2. QED
      BY <3>1 DEF Told
  <2>5. d = "line" => Told(s)'
    BY <2>2 DEF Told
  <2>6. Farewells'
    BY <1>1, <1>4, <1>8, <2>3, <2>4, <2>5, SentFarewell
  <2>7. FarewellBeforeClose'
    <3>1. \A t \in Sock : \A i \in DOMAIN out[t] : out[t][i] = "shut" => i > 1 /\ out[t][i - 1] = "line"
      BY <1>1 DEF FInv, FarewellBeforeClose
    <3>2. \A i \in DOMAIN out'[s] : out'[s][i] = "shut" => i > 1 /\ out'[s][i - 1] = "line"
      <4> SUFFICES ASSUME NEW i \in 1 .. Len(out[s]) + 1, out'[s][i] = "shut"
                   PROVE  i > 1 /\ out'[s][i - 1] = "line"
        BY <2>2
      <4>1. i \in 1 .. Len(out[s])
        BY <2>2
      <4>2. i > 1 /\ out[s][i - 1] = "line"
        BY <2>2, <3>1, <4>1
      <4>3. i - 1 \in 1 .. Len(out[s])
        BY <2>2, <4>1, <4>2
      <4>4. QED
        BY <2>2, <4>2, <4>3
    <3>3. QED
      BY <2>1, <3>1, <3>2 DEF FarewellBeforeClose
  <2>8. QED
    BY <2>6, <2>7 DEF FInv
<1>9. ASSUME wr_streams[a] = s, txq[1].data = "eof",
             out' = [out EXCEPT ![s] = Append(out[s], "shut")]
      PROVE  FInv'
  <2>1. /\ out'[s] = Append(out[s], "shut") /\ \A t \in Sock : t # s => out'[t] = out[t]
    BY <1>9 DEF IInv, TypeOK, WorldType
  <2>2. /\ Len(out[s]) \in Nat /\ DOMAIN out[s] = 1 .. Len(out[s])
        /\ DOMAIN out'[s] = 1 .. Len(out[s]) + 1 /\ Len(out'[s]) = Len(out[s]) + 1
        /\ \A i \in 1 .. Len(out[s]) : out'[s][i] = out[s][i]
        /\ out'[s][Len(out[s]) + 1] = "shut" /\ out'[s] # <<>>
    BY <1>6, <2>1, Written
  <2>3. \A t \in Sock : Told(t) /\ t # s => Told(t)'
    BY <2>1 DEF Told
  <2>4. Told(s)'
    BY <2>2 DEF Told
  <2>5. Farewells'
    BY <1>1, <1>4, <2>3, <2>4, SentFarewell
  <2>6. ~Shuts(s)
    BY <1>2, <1>4, <1>9 DEF SInv, Sockets, IsOpen
  <2>7. Len(out[s]) \in DOMAIN out[s] /\ out[s][Len(out[s])] = "line"
    <3>1. LineBefore(s, 1)
      BY <1>3, <1>4, <1>9 DEF FInv, Farewells
    <3>2. DOMAIN txq \subseteq Nat \ {0}
      BY DEF IInv, TypeOK, QueuesType
    <3>3. Told(s)
      BY <3>1, <3>2 DEF LineBefore
    <3>4. out[s] # <<>> /\ Len(out[s]) \in DOMAIN out[s]
      BY <1>6, <3>3 DEF Told
    <3>5. QED
      BY <2>6, <3>3, <3>4 DEF Told, Shuts
  <2>8. FarewellBeforeClose'
    <3>1. \A t \in Sock : \A i \in DOMAIN out[t] : out[t][i] = "shut" => i > 1 /\ out[t][i - 1] = "line"
      BY <1>1 DEF FInv, FarewellBeforeClose
    <3>2. \A i \in DOMAIN out'[s] : out'[s][i] = "shut" => i > 1 /\ out'[s][i - 1] = "line"
      <4> SUFFICES ASSUME NEW i \in 1 .. Len(out[s]) + 1, out'[s][i] = "shut"
                   PROVE  i > 1 /\ out'[s][i - 1] = "line"
        BY <2>2
      <4>1. i \notin 1 .. Len(out[s])
        BY <2>2, <2>6 DEF Shuts
      <4>2. i = Len(out[s]) + 1
        BY <2>2, <4>1
      <4>3. QED
        BY <2>2, <2>7, <4>2
    <3>3. QED
      BY <2>1, <3>1, <3>2 DEF FarewellBeforeClose
  <2>9. QED
    BY <2>5, <2>8 DEF FInv
<1>10. QED
  <2>1. ASSUME NEW t \in Sock, t = wr_streams[a] PROVE t = s
    BY <1>5, <2>1, SockAssumption
  <2>2. m.data # "eof" => m.data \in {"greet", "line"}
    BY DEF Outbound
  <2>3. QED
    BY <1>2, <1>7, <1>8, <1>9, <2>1, <2>2

LEMMA NextFarewell ==
  ASSUME NoTakeover, NoReload, IInv, SInv, Alone, OInv, Settled, FInv, [Next]_vars
  PROVE  FInv'
<1>0. pc \notin {"reconf", "reconfEof"}
  BY DEF Settled
<1>1. CASE Outside
  BY <1>1, OutsideFarewell
<1>2. ASSUME NEW s \in Sock, RxTask(s) \/ SrvAccept(s) PROVE FInv'
  BY <1>2, RxFarewell, AcceptFarewell
<1>3. CASE SrvLagged \/ SrvAcceptError \/ SrvStartError
  BY <1>3, PanicFarewell DEF SrvLagged, SrvAcceptError, SrvStartError
<1>4. CASE SrvSignal \/ SrvSend \/ SrvReceive
  BY <1>4, QuietStepFarewell, SendFarewell
<1>5. CASE SrvCommitted
  <2>1. ~SrvReconfSwap
    BY <1>0 DEF SrvReconfSwap
  <2>2. QED
    BY <1>0, <1>5, <2>1, ByeFarewell, QuietStepFarewell, GreetFarewell DEF SrvCommitted
<1>6. QED
  BY <1>1, <1>2, <1>3, <1>4, <1>5 DEF Next, Outside, SrvTask

LEMMA InitFarewell == Init => FInv
<1> SUFFICES ASSUME Init PROVE FInv
  OBVIOUS
<1>1. FarewellBeforeClose
  BY DEF Init, FarewellBeforeClose
<1>2. Farewells
  BY DEF Init, Farewells
<1>3. QED
  BY <1>1, <1>2 DEF FInv

(* Unless the task panicked, every socket that was closed was told goodbye  *)
(* first: the line of connection.disconnect precedes the close, whether the *)
(* client left or the server stops, on any interleaving of the Rx tasks and *)
(* the server task in the shared queue.                                     *)
THEOREM GoodbyeFirst == NoTakeover /\ NoReload => (Spec => []FarewellBeforeClose)
<1> SUFFICES ASSUME NoTakeover, NoReload PROVE Spec => []FarewellBeforeClose
  OBVIOUS
<1> DEFINE All == IInv /\ SInv /\ Alone /\ OInv /\ Settled /\ FInv
           Given == NoTakeover /\ NoReload => All
<1>1. Init => Given
  BY InitInv, InitSessions, InitOrder, InitSettled, InitFarewell
<1>2. Given /\ [Next]_vars => Given'
  <2> SUFFICES ASSUME NoTakeover', NoReload', Given, [Next]_vars PROVE All'
    OBVIOUS
  <2>1. NoTakeover /\ NoReload
    BY DEF NoTakeover, NoReload
  <2>2. QED
    BY <2>1, NextStep, NextSessions, AloneStep, NextOrder, SettledStep, NextFarewell
<1>3. Given => FarewellBeforeClose
  BY DEF FInv
<1>4. QED
  BY <1>1, <1>2, <1>3, PTL DEF Spec

-----------------------------------------------------------------------------
(***************************************************************************)
(* Room in the transmit queue.  A session speaks at most five times while   *)
(* the queue is in use: the greeting, the line and the close of its own Rx  *)
(* task, and the line and the close of the server's disconnect loop.        *)
(***************************************************************************)
Voice   == {"greet", "rxLine", "rxEof", "srvLine", "srvEof"}
Closing == pc \in {"reconf", "reconfEof", "stop", "stopEof"}

(* s may have spoken so: the others are still to come.                      *)
Spoken(s, v) ==
  /\ v = "rxLine" => rxpc[s] \in {"eof", "done"}
  /\ v = "rxEof" => rxpc[s] = "done"
  /\ v \in {"srvLine", "srvEof"} => Closing /\ s \notin todo
  /\ v = "srvEof" => ~(pc \in {"reconfEof", "stopEof"} /\ cur = s)

(* Each queued message is one of these, and no two are the same one.        *)
Charged(f) ==
  \A i \in DOMAIN txq : \A s \in Sock : txq[i].sock = s =>
    /\ Spoken(s, f[i])
    /\ \A j \in DOMAIN txq : txq[j].sock = s /\ f[j] = f[i] => j = i

GInv ==
  /\ pc \in Running \/ Closing => \E f \in [DOMAIN txq -> Voice] : Charged(f)
  /\ Closing => /\ \A i \in DOMAIN txq : IsOpen(txq[i].sock)
                /\ \A s \in Sock : Live(s) => IsOpen(s)
  /\ pc \in {"reconfEof", "stopEof"} => cur \notin todo

-----------------------------------------------------------------------------
LEMMA Onward ==
  ASSUME \A t \in Sock : rxpc[t] \in {"eof", "done"} => rxpc'[t] \in {rxpc[t], "done"},
         Closing => Closing' /\ todo' \subseteq todo,
         Closing => \A t \in Sock : pc' \in {"reconfEof", "stopEof"} /\ cur' = t =>
                      t \in todo \/ (pc \in {"reconfEof", "stopEof"} /\ cur = t),
         NEW s \in Sock, NEW v \in Voice, Spoken(s, v)
  PROVE  Spoken(s, v)'
BY DEF Spoken, Voice, Closing

(* A step that adds nothing to the queue.                                   *)
LEMMA QuietCharge ==
  ASSUME IInv, NEW f \in [DOMAIN txq -> Voice], Charged(f), txq' = txq,
         \A i \in DOMAIN txq : \A s \in Sock : \A v \in Voice :
           txq[i].sock = s /\ Spoken(s, v) => Spoken(s, v)'
  PROVE  Charged(f)'
<1>1. \A i \in DOMAIN txq : f[i] \in Voice
  OBVIOUS
<1>2. QED
  BY <1>1 DEF Charged

(* Its head is taken.                                                       *)
LEMMA TakenCharge ==
  ASSUME IInv, NEW f \in [DOMAIN txq -> Voice], Charged(f), txq # <<>>, txq' = Tail(txq),
         \A s \in Sock : \A v \in Voice : Spoken(s, v) => Spoken(s, v)'
  PROVE  \E g \in [DOMAIN txq' -> Voice] : Charged(g)'
<1>1. PICK n \in Nat :
        /\ DOMAIN txq = 1 .. n + 1 /\ DOMAIN txq' = 1 .. n
        /\ \A i \in 1 .. n : i + 1 \in 1 .. n + 1 /\ txq'[i] = txq[i + 1]
  BY Shifted
<1>2. PICK g \in [1 .. n -> Voice] : \A i \in 1 .. n : g[i] = f[i + 1]
  <2>1. [i \in 1 .. n |-> f[i + 1]] \in [1 .. n -> Voice]
    BY <1>1
  <2>2. QED
    BY <2>1
<1>3. ASSUME NEW i \in 1 .. n, NEW s \in Sock, txq'[i].sock = s
      PROVE  /\ Spoken(s, g[i])'
             /\ \A j \in 1 .. n : txq'[j].sock = s /\ g[j] = g[i] => j = i
  <2>1. /\ i + 1 \in DOMAIN txq /\ txq[i + 1].sock = s /\ g[i] = f[i + 1]
        /\ f[i + 1] \in Voice
    BY <1>1, <1>2, <1>3
  <2>2. Spoken(s, f[i + 1])
    BY <2>1 DEF Charged
  <2>3. \A v \in Voice : v = f[i + 1] => Spoken(s, v)'
    BY <2>2
  <2>4. Spoken(s, g[i])'
    BY <2>1, <2>3
  <2>5. ASSUME NEW j \in 1 .. n, txq'[j].sock = s, g[j] = g[i] PROVE j = i
    <3>1. j + 1 \in DOMAIN txq /\ txq[j + 1].sock = s /\ f[j + 1] = f[i + 1]
      BY <1>1, <1>2, <2>1, <2>5
    <3>2. j + 1 = i + 1
      BY <2>1, <3>1 DEF Charged
    <3>3. QED
      BY <3>2
  <2>6. QED
    BY <2>4, <2>5
<1>4. Charged(g)'
  BY <1>1, <1>3 DEF Charged
<1>5. QED
  BY <1>1, <1>4

(* s speaks, for the first time so.                                         *)
LEMMA AddedCharge ==
  ASSUME IInv, NEW f \in [DOMAIN txq -> Voice], Charged(f),
         NEW s \in Sock, NEW v \in Voice, NEW m \in Outbound, m.sock = s, ToClient(s, m),
         Spoken(s, v)', ~Spoken(s, v) \/ \A i \in DOMAIN txq : txq[i].sock # s,
         \A t \in Sock : \A u \in Voice : Spoken(t, u) => Spoken(t, u)'
  PROVE  \E g \in [DOMAIN txq' -> Voice] : Charged(g)'
<1>1. CASE txq' = txq
  <2>1. Charged(f)'
    BY <1>1, QuietCharge
  <2>2. QED
    BY <1>1, <2>1
<1>2. ASSUME NEW n \in Nat, DOMAIN txq = 1 .. n, DOMAIN txq' = 1 .. n + 1,
             \A i \in 1 .. n : txq'[i] = txq[i], txq'[n + 1] = m
      PROVE  \E g \in [DOMAIN txq' -> Voice] : Charged(g)'
  <2>1. PICK g \in [1 .. n + 1 -> Voice] : g[n + 1] = v /\ \A i \in 1 .. n : g[i] = f[i]
    <3>1. [i \in 1 .. n + 1 |-> IF i = n + 1 THEN v ELSE f[i]] \in [1 .. n + 1 -> Voice]
      BY <1>2
    <3>2. n + 1 \in 1 .. n + 1 /\ \A i \in 1 .. n : i \in 1 .. n + 1 /\ i # n + 1
      OBVIOUS
    <3>3. QED
      BY <3>1, <3>2
  <2>2. \A i \in 1 .. n + 1 : i \in 1 .. n \/ i = n + 1
    OBVIOUS
  <2>3. ASSUME NEW i \in 1 .. n, NEW t \in Sock, txq[i].sock = t
        PROVE  /\ Spoken(t, g[i])' /\ ~(t = s /\ g[i] = v)
               /\ \A j \in 1 .. n : txq[j].sock = t /\ g[j] = g[i] => j = i
    <3>1. g[i] = f[i] /\ f[i] \in Voice /\ i \in DOMAIN txq
      BY <1>2, <2>1
    <3>2. Spoken(t, f[i])
      BY <2>3, <3>1 DEF Charged
    <3>3. \A u \in Voice : u = f[i] => Spoken(t, u) /\ Spoken(t, u)'
      BY <3>2
    <3>4. Spoken(t, g[i])' /\ ~(t = s /\ g[i] = v)
      BY <2>3, <3>1, <3>3
    <3>5. ASSUME NEW j \in 1 .. n, txq[j].sock = t, g[j] = g[i] PROVE j = i
      <4>1. j \in DOMAIN txq /\ f[j] = f[i]
        BY <1>2, <2>1, <3>1, <3>5
      <4>2. QED
        BY <2>3, <3>1, <3>5, <4>1 DEF Charged
    <3>6. QED
      BY <3>4, <3>5
  <2>4. ASSUME NEW i \in 1 .. n + 1, NEW t \in Sock, txq'[i].sock = t
        PROVE  /\ Spoken(t, g[i])'
               /\ \A j \in 1 .. n + 1 : txq'[j].sock = t /\ g[j] = g[i] => j = i
    <3>1. CASE i \in 1 .. n
      <4>1. txq[i].sock = t
        BY <1>2, <2>4, <3>1
      <4>2. QED
        BY <1>2, <2>1, <2>2, <2>3, <3>1, <4>1
    <3>2. CASE i = n + 1
      <4>1. t = s /\ g[i] = v
        BY <1>2, <2>1, <2>4, <3>2
      <4>2. Spoken(t, g[i])'
        BY <4>1
      <4>3. \A j \in 1 .. n : txq'[j].sock = t => g[j] # g[i]
        BY <1>2, <2>3, <4>1
      <4>4. QED
        BY <2>2, <3>2, <4>2, <4>3
    <3>3. QED
      BY <2>2, <3>1, <3>2
  <2>5. Charged(g)'
    BY <1>2, <2>4 DEF Charged
  <2>6. QED
    BY <1>2, <2>5
<1>3. txq \in Seq(Outbound)
  BY DEF IInv, TypeOK, QueuesType
<1>4. QED
  <2>1. Len(txq) \in Nat
    BY <1>3
  <2>2. QED
    BY <1>1, <1>2, <1>3, <2>1, Enqueued

(* Steps that leave the queue and the sessions as they are.                 *)
LEMMA QuietRoom ==
  ASSUME IInv, OInv, GInv, UNCHANGED <<txq, wr_streams>>,
         pc' \in Running \/ Closing' => pc \in Running \/ Closing,
         Closing' => \A t \in Sock : Live(t)' => Live(t),
         pc' \in {"reconfEof", "stopEof"} => cur' \notin todo',
         \A i \in DOMAIN txq : \A s \in Sock : \A v \in Voice :
           txq[i].sock = s /\ Spoken(s, v) => Spoken(s, v)'
  PROVE  GInv'
<1>1. ASSUME pc' \in Running \/ Closing'
      PROVE  \E f \in [DOMAIN txq' -> Voice] : Charged(f)'
  <2>1. PICK f \in [DOMAIN txq -> Voice] : Charged(f)
    BY <1>1 DEF GInv
  <2>2. Charged(f)'
    BY <2>1, QuietCharge
  <2>3. QED
    BY <2>2
<1>2. ASSUME Closing'
      PROVE  /\ \A i \in DOMAIN txq : wr_streams[AddrOf[txq[i].sock]] = txq[i].sock
             /\ \A s \in Sock : Live(s)' => wr_streams[AddrOf[s]] = s
  BY <1>2 DEF GInv, OInv, Present, IsOpen
<1>3. Closing' => /\ \A i \in DOMAIN txq' : wr_streams'[AddrOf[txq'[i].sock]] = txq'[i].sock
                  /\ \A s \in Sock : Live(s)' => wr_streams'[AddrOf[s]] = s
  BY <1>2
<1>4. QED
  BY <1>1, <1>3 DEF GInv, IsOpen

(* A goodbye is queued, or a greeting.                                      *)
LEMMA SaysRoom ==
  ASSUME IInv, OInv, GInv, pc \in Running \/ Closing, UNCHANGED wr_streams,
         NEW s \in Sock, NEW v \in Voice, NEW d \in {"greet", "line", "eof"},
         ToClient(s, Out(s, d)), IsOpen(s) \/ ~attached[s],
         Closing' => \A t \in Sock : Live(t)' => Live(t),
         pc' \in {"reconfEof", "stopEof"} => cur' \notin todo',
         Spoken(s, v)', ~Spoken(s, v) \/ \A i \in DOMAIN txq : txq[i].sock # s,
         \A t \in Sock : \A u \in Voice : Spoken(t, u) => Spoken(t, u)'
  PROVE  GInv'
<1> DEFINE m == Out(s, d)
<1>1. m \in Outbound /\ m.sock = s /\ txq \in Seq(Outbound)
  BY DEF Out, Outbound, IInv, TypeOK, QueuesType
<1>2. \E f \in [DOMAIN txq' -> Voice] : Charged(f)'
  <2>1. PICK f \in [DOMAIN txq -> Voice] : Charged(f)
    BY DEF GInv
  <2>2. QED
    BY <1>1, <2>1, AddedCharge
<1>3. \A i \in DOMAIN txq' : \/ IsOpen(s) /\ txq'[i].sock = s
                             \/ \E j \in DOMAIN txq : txq'[i] = txq[j]
  <2>1. CASE ~attached[s] /\ txq' = txq
    BY <2>1
  <2>2. CASE /\ attached[s] /\ Len(txq) \in Nat
             /\ DOMAIN txq = 1 .. Len(txq) /\ DOMAIN txq' = 1 .. Len(txq) + 1
             /\ \A i \in 1 .. Len(txq) : txq'[i] = txq[i]
             /\ txq'[Len(txq) + 1] = m
    <3>1. \A i \in 1 .. Len(txq) + 1 : i \in 1 .. Len(txq) \/ i = Len(txq) + 1
      BY <2>2
    <3>2. QED
      BY <1>1, <2>2, <3>1
  <2>3. QED
    BY <1>1, <2>1, <2>2, Enqueued
<1>4. /\ \A i \in DOMAIN txq : wr_streams[AddrOf[txq[i].sock]] = txq[i].sock
      /\ \A t \in Sock : Live(t) => wr_streams[AddrOf[t]] = t
  BY DEF GInv, OInv, Present, IsOpen
<1>5. \A i \in DOMAIN txq' : wr_streams'[AddrOf[txq'[i].sock]] = txq'[i].sock
  BY <1>3, <1>4 DEF IsOpen
<1>6. Closing' => \A t \in Sock : Live(t)' => wr_streams'[AddrOf[t]] = t
  BY <1>4
<1>7. QED
  BY <1>2, <1>5, <1>6 DEF GInv, IsOpen

LEMMA OutsideRoom == ASSUME IInv, OInv, GInv, Outside PROVE GInv'
<1>1. UNCHANGED <<pc, cur, todo, txq, wr_streams, attached, rxpc>>
  BY OutsideFrame
<1>2. \A s \in Sock : \A v \in Voice : Spoken(s, v) => Spoken(s, v)'
  BY <1>1 DEF Spoken, Closing
<1>3. QED
  BY <1>1, <1>2, QuietRoom DEF Closing, Live, GInv

LEMMA RxRoom == ASSUME IInv, OInv, GInv, NEW s \in Sock, RxTask(s) PROVE GInv'
<1>1. /\ UNCHANGED <<pc, cur, todo, wr_streams, attached>>
      /\ DOMAIN rxpc = Sock /\ \A t \in Sock : t # s => rxpc'[t] = rxpc[t]
  BY DEF RxTask, RxRecv, RxSendLine, RxSendEof, IInv, TypeOK, ConnType, task, tables, queues
<1>2. \/ rxpc[s] = "recv" /\ txq' = txq
      \/ rxpc[s] = "line" /\ rxpc'[s] = "eof" /\ ToClient(s, Out(s, "line"))
      \/ rxpc[s] = "eof" /\ rxpc'[s] = "done" /\ ToClient(s, Out(s, "eof"))
  BY <1>1 DEF RxTask, RxRecv, RxSendLine, RxSendEof
<1>3. Live(s)' => Live(s)
  BY <1>1, <1>2 DEF Live
<1>4. \A t \in Sock : \A v \in Voice : Spoken(t, v) => Spoken(t, v)'
  <2>1. \A t \in Sock : rxpc[t] \in {"eof", "done"} => rxpc'[t] \in {rxpc[t], "done"}
    BY <1>1, <1>2
  <2>2. QED
    BY <1>1, <2>1, Onward DEF Closing
<1>5. /\ pc' \in Running \/ Closing' => pc \in Running \/ Closing
      /\ \A t \in Sock : Live(t)' => Live(t)
      /\ pc' \in {"reconfEof", "stopEof"} => cur' \notin todo'
  BY <1>1, <1>3 DEF Closing, Live, GInv
<1>6. CASE txq' = txq \/ ~(pc \in Running \/ Closing)
  <2>1. CASE txq' = txq
    BY <1>1, <1>4, <1>5, <2>1, QuietRoom
  <2>2. CASE ~(pc \in Running \/ Closing)
    BY <1>1, <2>2 DEF GInv, Closing
  <2>3. QED
    BY <1>6, <2>1, <2>2
<1>7. ASSUME pc \in Running \/ Closing, rxpc[s] \in {"line", "eof"} PROVE IsOpen(s) \/ ~attached[s]
  BY <1>7 DEF GInv, OInv, Present, Live
<1>8. CASE /\ rxpc[s] = "line" /\ rxpc'[s] = "eof" /\ ToClient(s, Out(s, "line"))
           /\ pc \in Running \/ Closing
  <2>1. "rxLine" \in Voice /\ Spoken(s, "rxLine")' /\ ~Spoken(s, "rxLine")
    BY <1>8 DEF Spoken, Voice
  <2>2. QED
    BY <1>1, <1>4, <1>5, <1>7, <1>8, <2>1, SaysRoom
<1>9. CASE /\ rxpc[s] = "eof" /\ rxpc'[s] = "done" /\ ToClient(s, Out(s, "eof"))
           /\ pc \in Running \/ Closing
  <2>1. "rxEof" \in Voice /\ Spoken(s, "rxEof")' /\ ~Spoken(s, "rxEof")
    BY <1>9 DEF Spoken, Voice
  <2>2. QED
    BY <1>1, <1>4, <1>5, <1>7, <1>9, <2>1, SaysRoom
<1>10. QED
  BY <1>2, <1>6, <1>8, <1>9

LEMMA ByeRoom ==
  ASSUME IInv, OInv, GInv, SrvByeEof \/ \E s \in Sock : SrvByeLine(s) PROVE GInv'
<1>0. UNCHANGED <<wr_streams, attached, rxpc>> /\ Closing /\ Closing'
  BY DEF SrvByeEof, SrvByeLine, tables, conn, Closing
<1>1. \A t \in Sock : Live(t)' => Live(t)
  BY <1>0 DEF Live
<1>2. ASSUME NEW s \in Sock, SrvByeLine(s) PROVE GInv'
  <2>1. /\ s \in todo /\ todo' = todo \ {s} /\ cur' = s /\ ToClient(s, Out(s, "line"))
        /\ pc \in {"reconf", "stop"} /\ pc' \in {"reconfEof", "stopEof"}
    BY <1>2 DEF SrvByeLine
  <2>2. "srvLine" \in Voice /\ Spoken(s, "srvLine")' /\ ~Spoken(s, "srvLine")
    BY <1>0, <2>1 DEF Spoken, Voice
  <2>3. \A t \in Sock : \A v \in Voice : Spoken(t, v) => Spoken(t, v)'
    BY <1>0, <2>1, Onward
  <2>4. IsOpen(s)
    BY <2>1 DEF OInv, Present
  <2>5. QED
    BY <1>0, <1>1, <2>1, <2>2, <2>3, <2>4, SaysRoom
<1>3. CASE SrvByeEof
  <2>1. /\ todo' = todo /\ cur \in Sock /\ ToClient(cur, Out(cur, "eof"))
        /\ pc \in {"reconfEof", "stopEof"} /\ pc' \in {"reconf", "stop"}
    BY <1>3 DEF SrvByeEof, IInv, InHand
  <2>2. PICK s \in Sock : s = cur
    BY <2>1
  <2>3. s \notin todo
    BY <2>1, <2>2 DEF GInv
  <2>4. "srvEof" \in Voice /\ Spoken(s, "srvEof")' /\ ~Spoken(s, "srvEof")
    BY <1>0, <2>1, <2>2, <2>3 DEF Spoken, Voice
  <2>5. \A t \in Sock : \A v \in Voice : Spoken(t, v) => Spoken(t, v)'
    BY <1>0, <2>1, Onward
  <2>6. IsOpen(s)
    BY <2>2, SockAssumption DEF OInv, Present
  <2>7. QED
    BY <1>0, <1>1, <2>1, <2>2, <2>4, <2>5, <2>6, SaysRoom
<1>4. QED
  BY <1>2, <1>3

LEMMA GreetRoom == ASSUME IInv, OInv, GInv, SrvGreet PROVE GInv'
<1>1. /\ UNCHANGED <<wr_streams, rxpc>> /\ cur \in Sock /\ ToClient(cur, Out(cur, "greet"))
      /\ pc = "greet" /\ pc' = "select"
  BY DEF SrvGreet, IInv, InHand, tables, conn
<1>2. PICK s \in Sock : s = cur
  BY <1>1
<1>3. "greet" \in Voice /\ Spoken(s, "greet")' /\ \A i \in DOMAIN txq : txq[i].sock # s
  BY <1>1, <1>2 DEF Spoken, Voice, OInv, Fresh
<1>4. \A t \in Sock : \A v \in Voice : Spoken(t, v) => Spoken(t, v)'
  BY <1>1, Onward DEF Closing
<1>5. IsOpen(s)
  BY <1>2, SockAssumption DEF OInv, Present
<1>6. pc \in Running /\ ~Closing'
  BY <1>1 DEF Running, Closing
<1>7. QED
  BY <1>1, <1>2, <1>3, <1>4, <1>5, <1>6, SaysRoom

LEMMA AcceptRoom == ASSUME IInv, SInv, OInv, GInv, NEW s \in Sock, SrvAccept(s) PROVE GInv'
<1>1. /\ UNCHANGED txq /\ pc = "select" /\ pc' = "dns" /\ net[s] = "pending"
      /\ \A t \in Sock : t # s => rxpc'[t] = rxpc[t]
  BY DEF SrvAccept, IInv, TypeOK, ConnType
<1>2. PICK f \in [DOMAIN txq -> Voice] : Charged(f)
  BY <1>1 DEF GInv, Running
<1>3. \A i \in DOMAIN txq : txq[i].sock # s
  BY <1>1 DEF OInv, Present
<1>4. \A t \in Sock : \A v \in Voice : t # s /\ Spoken(t, v) => Spoken(t, v)'
  BY <1>1 DEF Spoken, Closing
<1>5. Charged(f)'
  BY <1>1, <1>2, <1>3, <1>4, QuietCharge
<1>6. QED
  BY <1>1, <1>2, <1>5 DEF GInv, Closing

LEMMA SendRoom == ASSUME IInv, GInv, SrvSend PROVE GInv'
<1>1. UNCHANGED <<pc, cur, todo, rxpc>> /\ pc \in {"select", "finish"}
      /\ txq # <<>> /\ txq' = Tail(txq)
  BY DEF SrvSend, task, conn
<1>2. CASE pc = "finish"
  BY <1>1, <1>2 DEF GInv, Running, Closing
<1>3. CASE pc = "select"
  <2>1. PICK f \in [DOMAIN txq -> Voice] : Charged(f)
    BY <1>3 DEF GInv, Running
  <2>2. \A t \in Sock : \A v \in Voice : Spoken(t, v) => Spoken(t, v)'
    BY <1>1 DEF Spoken, Closing
  <2>3. \E g \in [DOMAIN txq' -> Voice] : Charged(g)'
    BY <1>1, <2>1, <2>2, TakenCharge
  <2>4. QED
    BY <1>1, <1>3, <2>3 DEF GInv, Closing
<1>4. QED
  BY <1>1, <1>2, <1>3

LEMMA DropRoom ==
  ASSUME DropSessions, pc' \notin {"reconf", "reconfEof", "stop", "stopEof"} PROVE GInv'
<1>1. DOMAIN txq' = {}
  BY DEF DropSessions
<1>2. [i \in {} |-> "greet"] \in [DOMAIN txq' -> Voice]
  BY <1>1
<1>3. \A f \in [DOMAIN txq' -> Voice] : Charged(f)'
  BY <1>1 DEF Charged
<1>4. QED
  BY <1>2, <1>3 DEF GInv, Closing

LEMMA QuietSrvRoom ==
  ASSUME IInv, SInv, OInv, GInv,
         SrvSignal \/ SrvStopClose \/ SrvFinish \/ SrvDnsDone \/ SrvReceive \/ SrvForward
  PROVE  GInv'
<1>1. CASE SrvStopClose \/ SrvFinish
  <2>1. pc' \in {"finish", "barrier"}
    BY <1>1 DEF SrvStopClose, SrvFinish
  <2>2. QED
    BY <2>1 DEF GInv, Running, Closing
<1>2. CASE SrvSignal \/ SrvDnsDone \/ SrvReceive \/ SrvForward
  <2>1. /\ UNCHANGED <<txq, wr_streams, attached, rxpc>>
        /\ pc \in Running /\ pc' \notin {"reconfEof", "stopEof"}
    BY <1>2 DEF SrvSignal, SrvInitShutdown, SrvInitConfigure, SrvShutdown, SrvReconfigure,
       SrvDnsDone, SrvReceive, SrvForward, tables, queues, conn, Running
  <2>2. ~Closing
    BY <2>1 DEF Running, Closing
  <2>3. \A t \in Sock : \A v \in Voice : Spoken(t, v) => Spoken(t, v)'
    BY <2>1, <2>2, Onward
  <2>4. \A t \in Sock : Live(t)' => Live(t)
    BY <2>1 DEF Live
  <2>5. QED
    BY <2>1, <2>3, <2>4, QuietRoom
<1>3. QED
  BY <1>1, <1>2

LEMMA InitRoom == Init => GInv
<1> SUFFICES ASSUME Init PROVE GInv
  OBVIOUS
<1>1. DOMAIN txq = {}
  BY DEF Init
<1>2. [i \in {} |-> "greet"] \in [DOMAIN txq -> Voice]
  BY <1>1
<1>3. \A f \in [DOMAIN txq -> Voice] : Charged(f)
  BY <1>1 DEF Charged
<1>4. QED
  BY <1>2, <1>3 DEF GInv, Closing, Init

LEMMA NextRoom ==
  ASSUME IInv, SInv, OInv, GInv, [Next]_vars PROVE GInv'
<1>1. CASE Outside
  BY <1>1, OutsideRoom
<1>2. ASSUME NEW s \in Sock, RxTask(s) \/ SrvAccept(s) PROVE GInv'
  BY <1>2, RxRoom, AcceptRoom
<1>3. CASE SrvLagged \/ SrvAcceptError \/ SrvStartError \/ SrvReconfSwap
  <2>1. DropSessions /\ pc' \in {"dead", "select"}
    BY <1>3 DEF SrvLagged, SrvAcceptError, SrvStartError, SrvReconfSwap, Panic
  <2>2. QED
    BY <2>1, DropRoom
<1>4. CASE SrvByeEof \/ \E s \in Sock : SrvByeLine(s)
  BY <1>4, ByeRoom
<1>5. CASE SrvGreet \/ SrvSend
  BY <1>5, GreetRoom, SendRoom
<1>6. CASE SrvSignal \/ SrvStopClose \/ SrvFinish \/ SrvDnsDone \/ SrvReceive \/ SrvForward
  BY <1>6, QuietSrvRoom
<1>7. QED
  BY <1>1, <1>2, <1>3, <1>4, <1>5, <1>6 DEF Next, Outside, SrvTask, SrvCommitted

-----------------------------------------------------------------------------
(* The pigeonhole: n different things, none of them x, do not fill S.       *)
LEMMA Pigeonhole ==
  ASSUME NEW S, IsFiniteSet(S), NEW n \in Nat, NEW h \in [1 .. n -> S],
         \A i, j \in 1 .. n : h[i] = h[j] => i = j,
         NEW x \in S, \A i \in 1 .. n : h[i] # x
  PROVE  n < Cardinality(S)
<1> DEFINE T == S \ {x}
<1>1. IsFiniteSet(T) /\ Cardinality(T) = Cardinality(S) - 1 /\ Cardinality(S) \in Nat
  BY FS_RemoveElement, FS_CardinalityType
<1>2. h \in Injection(1 .. n, T)
  <2>1. h \in [1 .. n -> T]
    OBVIOUS
  <2>2. QED
    BY <2>1 DEF Injection, IsInjective
<1>3. Cardinality(1 .. n) = n
  BY FS_Interval
<1>4. Cardinality(1 .. n) <= Cardinality(T)
  BY <1>1, <1>2, FS_Injection
<1>5. QED
  BY <1>1, <1>3, <1>4

LEMMA FiveVoices ==
  ASSUME NEW S, IsFiniteSet(S)
  PROVE  IsFiniteSet(S \X Voice) /\ Cardinality(S \X Voice) = 5 * Cardinality(S)
<1> DEFINE V1 == {"greet"}
           V2 == V1 \cup {"rxLine"}
           V3 == V2 \cup {"rxEof"}
           V4 == V3 \cup {"srvLine"}
<1>1. IsFiniteSet(V1) /\ Cardinality(V1) = 1
  BY FS_Singleton
<1>2. IsFiniteSet(V2) /\ Cardinality(V2) = 2
  BY <1>1, FS_AddElement
<1>3. IsFiniteSet(V3) /\ Cardinality(V3) = 3
  BY <1>2, FS_AddElement
<1>4. IsFiniteSet(V4) /\ Cardinality(V4) = 4
  BY <1>3, FS_AddElement
<1>5. IsFiniteSet(V4 \cup {"srvEof"}) /\ Cardinality(V4 \cup {"srvEof"}) = 5
  <2>1. "srvEof" \notin V4
    OBVIOUS
  <2> HIDE DEF V4
  <2>2. QED
    BY <1>4, <2>1, FS_AddElement
<1>6. Voice = V4 \cup {"srvEof"}
  BY DEF Voice
<1>7. IsFiniteSet(Voice) /\ Cardinality(Voice) = 5
  BY <1>5, <1>6
<1>8. Cardinality(S) \in Nat
  BY FS_CardinalityType
<1>9. IsFiniteSet(S \X Voice) /\ Cardinality(S \X Voice) = Cardinality(S) * Cardinality(Voice)
  BY <1>7, FS_Product
<1>10. QED
  BY <1>7, <1>8, <1>9

(* A session that has not said everything leaves room in the queue.         *)
Sessions == Entry(wr_streams)

LEMMA RoomFor ==
  ASSUME IInv, OInv, GInv, pc \in Running \/ Closing, IsFiniteSet(Sessions),
         NEW s \in Sock, IsOpen(s), NEW v \in Voice,
         ~Spoken(s, v) \/ \A i \in DOMAIN txq : txq[i].sock # s
  PROVE  Len(txq) < 5 * Cardinality(Sessions)
<1>1. PICK f \in [DOMAIN txq -> Voice] : Charged(f)
  BY DEF GInv
<1>2. Len(txq) \in Nat /\ DOMAIN txq = 1 .. Len(txq)
  BY DEF IInv, TypeOK, QueuesType
<1>3. PICK n \in Nat : n = Len(txq)
  BY <1>2
<1>4. \A i \in 1 .. n : /\ txq[i].sock \in Sock /\ f[i] \in Voice
                        /\ wr_streams[AddrOf[txq[i].sock]] = txq[i].sock
  BY <1>2, <1>3, Senders DEF OInv, Present, GInv, IsOpen
<1>5. \A t \in Sock : wr_streams[AddrOf[t]] = t => AddrOf[t] \in Sessions
  BY SockAssumption DEF Sessions, Entry
<1> DEFINE h == [i \in 1 .. n |-> <<AddrOf[txq[i].sock], f[i]>>]
           x == <<AddrOf[s], v>>
<1>6. h \in [1 .. n -> Sessions \X Voice]
  BY <1>4, <1>5
<1>7. x \in Sessions \X Voice
  BY <1>5 DEF IsOpen
<1>8. ASSUME NEW i \in 1 .. n, NEW j \in 1 .. n, h[i] = h[j] PROVE i = j
  <2>1. AddrOf[txq[i].sock] = AddrOf[txq[j].sock] /\ f[i] = f[j]
    BY <1>8
  <2>2. txq[i].sock = txq[j].sock /\ txq[j].sock \in Sock
    BY <1>4, <2>1
  <2>3. QED
    BY <1>1, <1>2, <1>3, <2>1, <2>2 DEF Charged
<1>9. ASSUME NEW i \in 1 .. n, h[i] = x PROVE FALSE
  <2>1. AddrOf[txq[i].sock] = AddrOf[s] /\ f[i] = v
    BY <1>9
  <2>2. txq[i].sock = s
    BY <1>4, <2>1 DEF IsOpen
  <2>3. Spoken(s, v)
    <3>1. Spoken(s, f[i])
      BY <1>1, <1>2, <1>3, <2>2 DEF Charged
    <3>2. QED
      BY <2>1, <3>1
  <2>4. QED
    BY <1>2, <1>3, <2>2, <2>3
<1> HIDE DEF h, x
<1>10. IsFiniteSet(Sessions \X Voice) /\ Cardinality(Sessions \X Voice) = 5 * Cardinality(Sessions)
  BY FiveVoices
<1>11. n < Cardinality(Sessions \X Voice)
  <2>1. /\ \A i, j \in 1 .. n : h[i] = h[j] => i = j
        /\ \A i \in 1 .. n : h[i] # x
    BY <1>8, <1>9
  <2>2. PICK P : P = Sessions \X Voice
    OBVIOUS
  <2>3. n < Cardinality(P)
    BY <1>6, <1>7, <1>10, <2>1, <2>2, Pigeonhole
  <2>4. QED
    BY <2>2, <2>3
<1>12. QED
  BY <1>3, <1>10, <1>11

Few == IsFiniteSet(Sessions) /\ 5 * Cardinality(Sessions) <= TxqCap

LEMMA NeverStuck == ASSUME IInv, SInv, OInv, GInv, Few PROVE NoSelfDeadlock
<1>1. Len(txq) \in Nat /\ Cardinality(Sessions) \in Nat /\ TxqCap \in Nat
  BY FS_CardinalityType, BoundAssumption DEF Few, IInv, TypeOK, QueuesType
<1>2. ASSUME NEW s \in Sock, IsOpen(s), NEW v \in Voice, pc \in Running \/ Closing,
             ~Spoken(s, v) \/ \A i \in DOMAIN txq : txq[i].sock # s
      PROVE  Len(txq) # TxqCap
  <2>1. Len(txq) < 5 * Cardinality(Sessions)
    BY <1>2, RoomFor DEF Few
  <2>2. QED
    BY <1>1, <2>1 DEF Few
<1>3. cur \in Sock => IsOpen(cur)
  BY SockAssumption DEF OInv, Present
<1>4. pc = "greet" => Len(txq) # TxqCap
  <2>1. pc = "greet" => cur \in Sock /\ pc \in Running /\ \A i \in DOMAIN txq : txq[i].sock # cur
    BY DEF IInv, InHand, Running, OInv, Fresh
  <2>2. "greet" \in Voice
    BY DEF Voice
  <2>3. QED
    BY <1>2, <1>3, <2>1, <2>2
<1>5. pc \in {"reconfEof", "stopEof"} => Len(txq) # TxqCap
  <2>1. pc \in {"reconfEof", "stopEof"} => cur \in Sock /\ Closing /\ ~Spoken(cur, "srvEof")
    BY DEF IInv, InHand, Closing, Spoken
  <2>2. "srvEof" \in Voice
    BY DEF Voice
  <2>3. QED
    BY <1>2, <1>3, <2>1, <2>2
<1>6. ASSUME pc \in {"reconf", "stop"}, todo # {} PROVE Len(txq) # TxqCap
  <2>1. PICK s \in Sock : s \in todo
    BY <1>6 DEF IInv, TypeOK, TaskType
  <2>2. IsOpen(s) /\ Closing /\ ~Spoken(s, "srvLine")
    BY <1>6, <2>1 DEF OInv, Present, Closing, Spoken
  <2>3. "srvLine" \in Voice
    BY DEF Voice
  <2>4. QED
    BY <1>2, <2>1, <2>2, <2>3
<1>7. ASSUME pc = "forward", NEW s, s = connections[AddrOf[Head(held).sock]], s # NoSock,
             rxpc[s] \in {"line", "eof"}
      PROVE  Len(txq) # TxqCap
  <2>1. AddrOf[Head(held).sock] \in Addr
    <3>1. held \in Seq(Inbound) /\ held # <<>>
      BY <1>7 DEF IInv, TypeOK, TaskType, InHand
    <3>2. Head(held) \in Inbound
      BY <3>1
    <3>3. QED
      BY <3>2, SockAssumption DEF Inbound
  <2>2. s \in Sock /\ wr_streams[AddrOf[Head(held).sock]] = s
    BY <1>7, <2>1 DEF IInv, TypeOK, TablesType, Table, TablesAgree
  <2>3. IsOpen(s)
    BY <1>7, <2>1, <2>2 DEF SInv, Entries, IsOpen
  <2>4. ~Spoken(s, "rxEof") /\ pc \in Running /\ "rxEof" \in Voice
    BY <1>7 DEF Spoken, Running, Voice
  <2>5. QED
    BY <1>2, <2>2, <2>3, <2>4
<1>8. QED
  BY <1>4, <1>5, <1>6, <1>7 DEF NoSelfDeadlock

(* The server task never waits for room in a queue that only it empties,    *)
(* as long as no more sessions are open than a fifth of its capacity: 409   *)
(* in the code, where it takes 2048 messages.                               *)
THEOREM RoomToSpeak == NoTakeover => (Spec => [](Few => NoSelfDeadlock))
<1> SUFFICES ASSUME NoTakeover PROVE Spec => [](Few => NoSelfDeadlock)
  OBVIOUS
<1> DEFINE All == IInv /\ SInv /\ Alone /\ OInv /\ GInv
           Given == NoTakeover => All
<1>1. Init => Given
  BY InitInv, InitSessions, InitOrder, InitRoom
<1>2. Given /\ [Next]_vars => Given'
  <2> SUFFICES ASSUME NoTakeover', Given, [Next]_vars PROVE All'
    OBVIOUS
  <2>1. NoTakeover
    BY DEF NoTakeover
  <2>2. QED
    BY <2>1, NextStep, NextSessions, AloneStep, NextOrder, NextRoom
<1>3. Given => (Few => NoSelfDeadlock)
  BY NeverStuck
<1>4. QED
  BY <1>1, <1>2, <1>3, PTL DEF Spec

(* So it is never stuck when so few clients exist at all, as in the runs.   *)
THEOREM NeverBlocksItself ==
  NoTakeover /\ IsFiniteSet(Addr) /\ 5 * Cardinality(Addr) <= TxqCap
    => (Spec => []NoSelfDeadlock)
<1> SUFFICES ASSUME NoTakeover, IsFiniteSet(Addr), 5 * Cardinality(Addr) <= TxqCap
             PROVE  Spec => []NoSelfDeadlock
  OBVIOUS
<1>1. Few
  <2>1. IsFiniteSet(Sessions) /\ Cardinality(Sessions) <= Cardinality(Addr)
    BY FS_Subset DEF Sessions, Entry
  <2>2. Cardinality(Sessions) \in Nat /\ Cardinality(Addr) \in Nat /\ TxqCap \in Nat
    BY <2>1, FS_CardinalityType, BoundAssumption
  <2>3. QED
    BY <2>1, <2>2 DEF Few
<1>2. QED
  BY <1>1, RoomToSpeak, PTL

-----------------------------------------------------------------------------
(***************************************************************************)
(* Proofs about what Server receives: a message reaches the connection it   *)
(* was produced for or nobody, a session is closed for a reason, and no     *)
(* chunk is lost, doubled or reordered.  They need that no message outlives *)
(* its session: no two connections come from one address, or clients do not *)
(* abort connections and no reconfiguration closes a session whose read     *)
(* task is still at work.                                                   *)
(***************************************************************************)

NoSharing   == \A s, t \in Sock : AddrOf[s] = AddrOf[t] => s = t
Undisturbed == NoSharing \/ (~AllowReset /\ NoReload)

(* A connection that can still produce messages, or has some on the way.    *)
Inbox(s)    == \/ \E i \in DOMAIN rxq : rxq[i].sock = s
               \/ \E i \in DOMAIN held : held[i].sock = s
Reading(s)  == rdpc[s] \in {"run", "send", "eof"} \/ Inbox(s)
EofIn(q, s) == \E i \in DOMAIN q : q[i].sock = s /\ q[i].data = "eof"

(* Its address has its own session or none.                                 *)
Own == \A s \in Sock : Reading(s) => /\ wr_streams[AddrOf[s]] \in {NoSock, s}
                                     /\ connections[AddrOf[s]] \in {NoSock, s}

(* An Rx task is only given chunks of its own connection.                   *)
OwnChunks == \A s \in Sock : \A i \in DOMAIN chan[s] : chan[s][i].sock = s

(* The end of input is the last message of a read task, all the way.        *)
Ends ==
  \A s \in Sock :
    /\ EofIn(rxq, s) => rdpc[s] = "done"
    /\ \A i, j \in DOMAIN rxq :
         rxq[i].sock = s /\ rxq[i].data = "eof" /\ j > i => rxq[j].sock # s
    /\ EofIn(held, s) => rdpc[s] = "done" /\ \A i \in DOMAIN rxq : rxq[i].sock # s
    /\ EofIn(chan[s], s) \/ rxpc[s] \in {"line", "eof", "done"}
         => rdpc[s] = "done" /\ ~Inbox(s)

(* While the settings keep one endpoint, every such connection has a        *)
(* session as long as the task runs its select!.                            *)
Kept == NoReload /\ pc \in Running => \A s \in Sock : Reading(s) => IsOpen(s)

RInv == Own /\ OwnChunks /\ Ends /\ Kept

-----------------------------------------------------------------------------
(* Steps that leave the receive side alone, and at most empty the tables.   *)
LEMMA QuietReceive ==
  ASSUME RInv, UNCHANGED <<rxq, held, chan, rdpc, rxpc>>,
         \A a \in Addr : /\ wr_streams'[a] \in {wr_streams[a], NoSock}
                         /\ connections'[a] \in {connections[a], NoSock},
         Kept'
  PROVE  RInv'
<1>1. \A t \in Sock : /\ Inbox(t)' <=> Inbox(t)
                      /\ Reading(t)' <=> Reading(t)
  BY DEF Inbox, Reading
<1>2. Own'
  BY <1>1, SockAssumption DEF RInv, Own
<1>3. OwnChunks'
  BY DEF RInv, OwnChunks
<1>4. Ends'
  BY <1>1 DEF RInv, Ends, EofIn
<1>5. QED
  BY <1>2, <1>3, <1>4 DEF RInv

LEMMA StillKept ==
  ASSUME RInv, UNCHANGED <<rxq, held, rdpc, wr_streams>>, pc' \in Running => pc \in Running
  PROVE  Kept'
BY DEF RInv, Kept, NoReload, Reading, Inbox, IsOpen

LEMMA OutsideReceive ==
  ASSUME RInv, Signal \/ (\E s \in Sock : Client(s)) \/ UNCHANGED vars PROVE RInv'
<1>1. UNCHANGED <<pc, rxq, held, chan, rdpc, rxpc, wr_streams, connections>>
  <2>1. CASE Signal \/ UNCHANGED vars
    BY <2>1 DEF Signal, SendReconfigure, SendShutdown, vars, task, tables, queues, conn
  <2>2. CASE \E s \in Sock : Client(s)
    BY <2>2 DEF Client, ClientConnect, ClientClose, ClientReset, ClientSend, task, tables,
       queues, conn
  <2>3. QED
    BY <2>1, <2>2
<1>2. QED
  BY <1>1, StillKept, QuietReceive

(* The receive queue after a message was added.                             *)
LEMMA Received ==
  ASSUME IInv, NEW m \in Inbound, ToServer(m)
  PROVE  \/ rxq' = rxq
         \/ \E n \in Nat :
              /\ DOMAIN rxq = 1 .. n /\ DOMAIN rxq' = 1 .. n + 1
              /\ \A i \in 1 .. n : rxq'[i] = rxq[i]
              /\ rxq'[n + 1] = m
<1>1. rxq \in Seq(Inbound)
  BY DEF IInv, TypeOK, QueuesType
<1>2. CASE rxq' = Append(rxq, m)
  <2>1. /\ Len(rxq) \in Nat /\ DOMAIN rxq = 1 .. Len(rxq)
        /\ DOMAIN rxq' = 1 .. Len(rxq) + 1
        /\ \A i \in 1 .. Len(rxq) : rxq'[i] = rxq[i]
        /\ rxq'[Len(rxq) + 1] = m
    BY <1>1, <1>2
  <2>2. QED
    BY <2>1
<1>3. QED
  BY <1>2 DEF ToServer

(* A read task works: what it adds comes after everything it added before,  *)
(* and nothing comes after its end of input.                                *)
LEMMA RdReceive == ASSUME IInv, RInv, NEW s \in Sock, RdTask(s) PROVE RInv'
<1>1. UNCHANGED <<pc, held, chan, rxpc, wr_streams, connections>>
  BY DEF RdTask, RdRead, RdEnd, RdSignal, RdSend, RdSendEof, task, tables, queues
<1>2. /\ DOMAIN rdpc = Sock
      /\ \A t \in Sock : t # s => rdpc'[t] = rdpc[t]
      /\ rdpc[s] \in {"run", "send", "eof"}
  BY DEF RdTask, RdRead, RdEnd, RdSignal, RdSend, RdSendEof, IInv, TypeOK, ConnType
<1>3. /\ ~EofIn(rxq, s) /\ ~EofIn(held, s) /\ ~EofIn(chan[s], s)
      /\ rxpc[s] \notin {"line", "eof", "done"}
  BY <1>2 DEF RInv, Ends
<1>4. \A i \in DOMAIN rxq : rxq[i].sock \in Sock
  <2>1. rxq \in Seq(Inbound)
    BY DEF IInv, TypeOK, QueuesType
  <2>2. \A i \in DOMAIN rxq : rxq[i] \in Inbound
    BY <2>1
  <2>3. QED
    BY <2>2 DEF Inbound
<1>5. ASSUME \A t \in Sock : t # s => (Inbox(t)' <=> Inbox(t))
      PROVE  Own' /\ OwnChunks' /\ Kept'
  <2>1. \A t \in Sock : Reading(t)' => Reading(t)
    BY <1>2, <1>5 DEF Reading
  <2>2. QED
    BY <1>1, <2>1 DEF RInv, Own, OwnChunks, Kept, NoReload, IsOpen
<1>6. CASE RdRead(s) \/ RdEnd(s) \/ RdSignal(s)
  <2>1. rxq' = rxq
    BY <1>6 DEF RdRead, RdEnd, RdSignal, queues
  <2>2. \A t \in Sock : Inbox(t)' <=> Inbox(t)
    BY <1>1, <2>1 DEF Inbox
  <2>3. Ends'
    BY <1>1, <1>2, <1>3, <2>1, <2>2 DEF RInv, Ends, EofIn
  <2>4. QED
    BY <1>5, <2>2, <2>3 DEF RInv
<1>7. ASSUME NEW m \in Inbound, m.sock = s, ToServer(m),
             m.data = "eof" => rdpc'[s] = "done"
      PROVE  RInv'
  <2>1. CASE rxq' = rxq
    <3>1. \A t \in Sock : Inbox(t)' <=> Inbox(t)
      BY <1>1, <2>1 DEF Inbox
    <3>2. Ends'
      BY <1>1, <1>2, <1>3, <2>1, <3>1 DEF RInv, Ends, EofIn
    <3>3. QED
      BY <1>5, <3>1, <3>2 DEF RInv
  <2>2. ASSUME NEW n \in Nat, DOMAIN rxq = 1 .. n, DOMAIN rxq' = 1 .. n + 1,
               \A i \in 1 .. n : rxq'[i] = rxq[i], rxq'[n + 1] = m
        PROVE  RInv'
    <3>0. \A i \in 1 .. n + 1 : i \in 1 .. n \/ i = n + 1
      OBVIOUS
    <3>1. ASSUME NEW t \in Sock, t # s
          PROVE  /\ \A i \in 1 .. n + 1 : rxq'[i].sock = t => i \in 1 .. n
                 /\ Inbox(t)' <=> Inbox(t)
                 /\ EofIn(rxq, t)' => EofIn(rxq, t)
      <4>1. \A i \in 1 .. n + 1 : rxq'[i].sock = t => i \in 1 .. n
        BY <1>7, <2>2, <3>0, <3>1
      <4>2. \A i \in 1 .. n : i \in 1 .. n + 1
        OBVIOUS
      <4>3. QED
        BY <1>1, <2>2, <4>1, <4>2 DEF Inbox, EofIn
    <3>2. \A i \in 1 .. n + 1 :
            rxq'[i].sock = s /\ rxq'[i].data = "eof" => i = n + 1 /\ rdpc'[s] = "done"
      BY <1>3, <1>7, <2>2, <3>0 DEF EofIn
    <3>3. ASSUME NEW t \in Sock PROVE EofIn(rxq, t)' => rdpc'[t] = "done"
      <4>1. CASE t = s
        BY <2>2, <3>2, <4>1 DEF EofIn
      <4>2. CASE t # s
        BY <1>2, <3>1, <4>2 DEF RInv, Ends
      <4>3. QED
        BY <4>1, <4>2
    <3>4. ASSUME NEW t \in Sock, NEW i \in 1 .. n + 1, NEW j \in 1 .. n + 1,
                 rxq'[i].sock = t, rxq'[i].data = "eof", j > i
          PROVE  rxq'[j].sock # t
      <4>1. CASE t = s
        BY <3>2, <3>4, <4>1
      <4>2. CASE t # s
        <5>1. i \in 1 .. n
          BY <3>1, <3>4, <4>2
        <5>2. j \in 1 .. n => rxq[j].sock # t
          BY <2>2, <3>4, <5>1 DEF RInv, Ends
        <5>3. QED
          BY <2>2, <3>1, <4>2, <5>2
      <4>3. QED
        BY <4>1, <4>2
    <3>5. ASSUME NEW t \in Sock, EofIn(held, t)'
          PROVE  rdpc'[t] = "done" /\ \A i \in 1 .. n + 1 : rxq'[i].sock # t
      <4>1. EofIn(held, t) /\ t # s
        BY <1>1, <1>3, <3>5 DEF EofIn
      <4>2. QED
        BY <1>2, <2>2, <3>1, <4>1 DEF RInv, Ends
    <3>6. ASSUME NEW t \in Sock, EofIn(chan[t], t)' \/ rxpc'[t] \in {"line", "eof", "done"}
          PROVE  rdpc'[t] = "done" /\ ~Inbox(t)'
      <4>1. t # s /\ (EofIn(chan[t], t) \/ rxpc[t] \in {"line", "eof", "done"})
        BY <1>1, <1>3, <3>6 DEF EofIn
      <4>2. QED
        BY <1>2, <3>1, <4>1 DEF RInv, Ends
    <3>7. Ends'
      BY <2>2, <3>3, <3>4, <3>5, <3>6 DEF Ends
    <3>8. QED
      BY <1>5, <3>1, <3>7 DEF RInv
  <2>3. QED
    BY <1>7, <2>1, <2>2, Received
<1>8. CASE RdSend(s)
  <2>1. sent[s] \in Seq(ChunkKind) /\ nread[s] \in 1 .. Len(sent[s])
    BY <1>8 DEF IInv, TypeOK, WorldType, ConnType, InHand, RdSend
  <2>2. PICK d \in ChunkKind : d = sent[s][nread[s]]
    BY <2>1
  <2>3. In(s, d, nread[s]) \in Inbound /\ d # "eof"
    BY <2>1, <2>2, BoundAssumption DEF In, Inbound
  <2>4. ToServer(In(s, d, nread[s]))
    BY <1>8, <2>2 DEF RdSend
  <2>5. QED
    BY <1>7, <2>3, <2>4 DEF In
<1>9. CASE RdSendEof(s)
  <2>1. In(s, "eof", 0) \in Inbound /\ ToServer(In(s, "eof", 0)) /\ rdpc'[s] = "done"
    BY <1>2, <1>9 DEF In, Inbound, RdSendEof
  <2>2. QED
    BY <1>7, <2>1 DEF In
<1>10. QED
  BY <1>6, <1>8, <1>9 DEF RdTask

(* An Rx task says goodbye only when its own connection has ended.          *)
LEMMA RxReceive == ASSUME IInv, RInv, NEW s \in Sock, RxTask(s) PROVE RInv'
<1>1. UNCHANGED <<pc, held, rxq, rdpc, wr_streams, connections>>
  BY DEF RxTask, RxRecv, RxSendLine, RxSendEof, task, tables
<1>2. /\ DOMAIN rxpc = Sock /\ DOMAIN chan = Sock
      /\ \A t \in Sock : t # s => rxpc'[t] = rxpc[t] /\ chan'[t] = chan[t]
  BY DEF RxTask, RxRecv, RxSendLine, RxSendEof, IInv, TypeOK, ConnType, QueuesType
<1>3. \A t \in Sock : (Inbox(t)' <=> Inbox(t)) /\ (Reading(t)' <=> Reading(t))
  BY <1>1 DEF Inbox, Reading
<1>4. Own' /\ Kept'
  BY <1>1, <1>3 DEF RInv, Own, Kept, NoReload, IsOpen
<1>5. ASSUME chan'[s] = chan[s] \/ chan'[s] = <<>> \/ (chan[s] # <<>> /\ chan'[s] = Tail(chan[s])),
             rxpc'[s] \in {"line", "eof", "done"} =>
               EofIn(chan[s], s) \/ rxpc[s] \in {"line", "eof", "done"}
      PROVE  RInv'
  <2>1. chan[s] \in Seq(Inbound)
    BY DEF IInv, TypeOK, QueuesType
  <2>2. \A i \in DOMAIN chan'[s] : \E j \in DOMAIN chan[s] : chan'[s][i] = chan[s][j]
    <3>1. CASE chan'[s] = chan[s] \/ chan'[s] = <<>>
      BY <3>1
    <3>2. CASE chan[s] # <<>> /\ chan'[s] = Tail(chan[s])
      <4>1. \A i \in DOMAIN chan'[s] : i + 1 \in DOMAIN chan[s] /\ chan'[s][i] = chan[s][i + 1]
        BY <2>1, <3>2
      <4>2. QED
        BY <4>1
    <3>3. QED
      BY <1>5, <3>1, <3>2
  <2>3. OwnChunks'
    BY <1>2, <2>2 DEF RInv, OwnChunks
  <2>4. \A t \in Sock : EofIn(chan[t], t)' => EofIn(chan[t], t)
    BY <1>2, <2>2 DEF EofIn
  <2>5. \A t \in Sock : rxpc'[t] \in {"line", "eof", "done"} =>
          EofIn(chan[t], t) \/ rxpc[t] \in {"line", "eof", "done"}
    BY <1>2, <1>5
  <2>6. Ends'
    BY <1>1, <1>3, <2>4, <2>5 DEF RInv, Ends, EofIn
  <2>7. QED
    BY <1>4, <2>3, <2>6 DEF RInv
<1>6. CASE RxRecv(s)
  <2>1. /\ chan[s] # <<>> /\ chan[s] \in Seq(Inbound)
        /\ 1 \in DOMAIN chan[s] /\ Head(chan[s]) = chan[s][1]
    BY <1>6 DEF RxRecv, IInv, TypeOK, QueuesType
  <2>2. chan[s][1].sock = s
    BY <2>1 DEF RInv, OwnChunks
  <2>3. CASE Head(chan[s]).data = "eof"
    <3>1. EofIn(chan[s], s) /\ chan'[s] = Tail(chan[s])
      BY <1>2, <1>6, <2>1, <2>2, <2>3 DEF RxRecv, EofIn
    <3>2. QED
      BY <1>5, <2>1, <3>1
  <2>4. CASE Head(chan[s]).data # "eof"
    <3>1. rxpc'[s] \in {"dead", "recv"}
      BY <1>2, <1>6, <2>4 DEF RxRecv
    <3>2. chan'[s] = <<>> \/ chan'[s] = Tail(chan[s])
      BY <1>2, <1>6 DEF RxRecv
    <3>3. QED
      BY <1>5, <2>1, <3>1, <3>2
  <2>5. QED
    BY <2>3, <2>4
<1>7. CASE RxSendLine(s) \/ RxSendEof(s)
  <2>1. chan'[s] = chan[s] \/ chan'[s] = <<>>
    BY <1>2, <1>7 DEF RxSendLine, RxSendEof
  <2>2. rxpc[s] \in {"line", "eof"}
    BY <1>7 DEF RxSendLine, RxSendEof
  <2>3. QED
    BY <1>5, <2>1, <2>2
<1>8. QED
  BY <1>6, <1>7 DEF RxTask

(* Steps of the server task that touch neither queue.                       *)
LEMMA QuietSrvReceive ==
  ASSUME RInv, SrvSignal \/ SrvByeEof \/ (\E s \in Sock : SrvByeLine(s))
               \/ SrvStopClose \/ SrvFinish \/ SrvGreet
  PROVE  RInv'
<1>1. /\ UNCHANGED <<held, rxq, chan, rdpc, rxpc, wr_streams>>
      /\ pc' \in Running => pc \in Running
  <2>1. CASE SrvSignal
    BY <2>1 DEF SrvSignal, SrvInitShutdown, SrvInitConfigure, SrvShutdown, SrvReconfigure,
       tables, queues, conn, Running
  <2>2. CASE SrvByeEof \/ \E s \in Sock : SrvByeLine(s)
    BY <2>2 DEF SrvByeEof, SrvByeLine, tables, conn, Running
  <2>3. CASE SrvStopClose \/ SrvFinish \/ SrvGreet
    BY <2>3 DEF SrvStopClose, SrvFinish, SrvGreet, tables, queues, conn, Running
  <2>4. QED
    BY <2>1, <2>2, <2>3
<1>2. connections' = connections \/ connections' = Empty
  BY DEF SrvSignal, SrvInitShutdown, SrvInitConfigure, SrvShutdown, SrvReconfigure,
     SrvByeEof, SrvByeLine, SrvStopClose, SrvFinish, SrvGreet, tables
<1>3. \A a \in Addr : connections'[a] \in {connections[a], NoSock}
  BY <1>2 DEF Empty
<1>4. QED
  BY <1>1, <1>3, StillKept, QuietReceive

LEMMA DropReceive ==
  ASSUME IInv, RInv, DropSessions, UNCHANGED conn,
         \/ UNCHANGED <<rxq, held, chan>> /\ ~NoReload
         \/ rxq' = <<>> /\ held' = <<>> /\ UNCHANGED chan /\ pc' = "dead"
  PROVE  RInv'
<1>1. /\ \A a \in Addr : wr_streams'[a] = NoSock /\ connections'[a] = NoSock
      /\ UNCHANGED <<rdpc, rxpc>>
  BY DEF DropSessions, Empty, conn
<1>2. CASE UNCHANGED <<rxq, held, chan>> /\ ~NoReload
  <2>1. Kept'
    BY <1>2 DEF Kept, NoReload
  <2>2. QED
    BY <1>1, <1>2, <2>1, QuietReceive
<1>3. CASE rxq' = <<>> /\ held' = <<>> /\ UNCHANGED chan /\ pc' = "dead"
  <2>1. DOMAIN rxq' = {} /\ DOMAIN held' = {}
    BY <1>3
  <2>2. \A t \in Sock : ~Inbox(t)' /\ ~EofIn(rxq, t)' /\ ~EofIn(held, t)'
    BY <2>1 DEF Inbox, EofIn
  <2>3. Own'
    BY <1>1, SockAssumption DEF Own
  <2>4. OwnChunks'
    BY <1>3 DEF RInv, OwnChunks
  <2>5. Ends'
    BY <1>1, <1>3, <2>1, <2>2 DEF RInv, Ends, EofIn
  <2>6. Kept'
    BY <1>3 DEF Kept, Running
  <2>7. QED
    BY <2>3, <2>4, <2>5, <2>6 DEF RInv
<1>4. QED
  BY <1>2, <1>3

LEMMA DnsDoneReceive == ASSUME IInv, RInv, SrvDnsDone PROVE RInv'
<1>1. /\ UNCHANGED <<held, rxq, chan, rdpc, rxpc, wr_streams>>
      /\ pc = "dns" /\ pc' = "greet" /\ cur \in Sock
      /\ connections' = [connections EXCEPT ![AddrOf[cur]] = cur]
  BY DEF SrvDnsDone, IInv, InHand, queues, conn
<1>2. Kept'
  BY <1>1, StillKept DEF Running
<1>3. \A t \in Sock : /\ Inbox(t)' <=> Inbox(t)
                      /\ Reading(t)' <=> Reading(t)
  BY <1>1 DEF Inbox, Reading
<1>4. Own'
  <2>1. wr_streams[AddrOf[cur]] = cur /\ cur # NoSock
    BY <1>1, SockAssumption DEF IInv, TablesAgree
  <2>2. ASSUME NEW t \in Sock, Reading(t)
        PROVE  /\ wr_streams[AddrOf[t]] \in {NoSock, t}
               /\ connections'[AddrOf[t]] \in {NoSock, t}
    <3>1. wr_streams[AddrOf[t]] \in {NoSock, t} /\ connections[AddrOf[t]] \in {NoSock, t}
      BY <2>2 DEF RInv, Own
    <3>2. CASE AddrOf[t] = AddrOf[cur]
      BY <1>1, <2>1, <3>1, <3>2, SockAssumption DEF IInv, TypeOK, TablesType, Table
    <3>3. CASE AddrOf[t] # AddrOf[cur]
      BY <1>1, <3>1, <3>3, SockAssumption DEF IInv, TypeOK, TablesType, Table
    <3>4. QED
      BY <3>2, <3>3
  <2>3. QED
    BY <1>1, <1>3, <2>2 DEF Own
<1>5. OwnChunks' /\ Ends'
  BY <1>1, <1>3 DEF RInv, OwnChunks, Ends, EofIn
<1>6. QED
  BY <1>2, <1>4, <1>5 DEF RInv

(* A connection is accepted on an address that nothing still on the way     *)
(* names.                                                                   *)
LEMMA AcceptReceive ==
  ASSUME Undisturbed, IInv, SInv, Alone, RInv, NEW s \in Sock, SrvAccept(s) PROVE RInv'
<1> DEFINE a == AddrOf[s]
<1>1. /\ UNCHANGED <<held, rxq, chan, connections>>
      /\ pc = "select" /\ net[s] = "pending" /\ wr_streams' = [wr_streams EXCEPT ![a] = s]
  BY DEF SrvAccept
<1>2. /\ rdpc'[s] = "run" /\ rxpc'[s] = "recv"
      /\ \A t \in Sock : t # s => rdpc'[t] = rdpc[t] /\ rxpc'[t] = rxpc[t]
  BY DEF SrvAccept, IInv, TypeOK, ConnType
<1>3. NoTakeover
  BY DEF Undisturbed, NoSharing, NoTakeover
<1>4. a \in Addr /\ wr_streams[a] = NoSock /\ connections[a] = NoSock
  BY <1>1, <1>3, AddressFree, SockAssumption DEF IInv, TablesAgree
<1>5. /\ wr_streams'[a] = s
      /\ \A b \in Addr : b # a => wr_streams'[b] = wr_streams[b]
  BY <1>1, <1>4 DEF IInv, TypeOK, TablesType, Table
<1>6. \A t \in Sock : /\ Inbox(t)' <=> Inbox(t)
                      /\ t # s => (Reading(t)' <=> Reading(t))
  BY <1>1, <1>2 DEF Inbox, Reading
<1>7. ASSUME NEW t \in Sock, t # s, Reading(t), AddrOf[t] = a PROVE FALSE
  <2>1. NoReload
    BY <1>7 DEF Undisturbed, NoSharing
  <2>2. IsOpen(t)
    BY <1>1, <1>7, <2>1 DEF RInv, Kept, Running
  <2>3. QED
    BY <1>4, <1>7, <2>2, SockAssumption DEF IsOpen
<1>8. Own'
  <2>1. ASSUME NEW t \in Sock, Reading(t)'
        PROVE  /\ wr_streams'[AddrOf[t]] \in {NoSock, t}
               /\ connections[AddrOf[t]] \in {NoSock, t}
    <3>1. CASE t = s
      BY <1>4, <1>5, <3>1
    <3>2. CASE t # s
      <4>1. Reading(t) /\ AddrOf[t] # a /\ AddrOf[t] \in Addr
        BY <1>6, <1>7, <2>1, <3>2, SockAssumption
      <4>2. QED
        BY <1>5, <4>1 DEF RInv, Own
    <3>3. QED
      BY <3>1, <3>2
  <2>2. QED
    BY <1>1, <2>1 DEF Own
<1>9. Kept'
  <2> SUFFICES ASSUME NoReload, NEW t \in Sock, Reading(t)' PROVE wr_streams'[AddrOf[t]] = t
    BY DEF Kept, NoReload, IsOpen
  <2>1. CASE t = s
    BY <1>5, <2>1
  <2>2. CASE t # s
    <3>1. Reading(t) /\ AddrOf[t] # a /\ AddrOf[t] \in Addr
      BY <1>6, <1>7, <2>2, SockAssumption
    <3>2. IsOpen(t)
      BY <1>1, <3>1 DEF RInv, Kept, Running
    <3>3. QED
      BY <1>5, <3>1, <3>2 DEF IsOpen
  <2>3. QED
    BY <2>1, <2>2
<1>10. OwnChunks'
  BY <1>1 DEF RInv, OwnChunks
<1>11. Ends'
  <2>1. rdpc[s] # "done" /\ chan[s] = <<>>
    BY <1>1 DEF SInv, Unopened
  <2>2. ~EofIn(rxq, s) /\ ~EofIn(held, s)
    BY <2>1 DEF RInv, Ends
  <2>3. ~EofIn(chan[s], s)
    BY <2>1 DEF EofIn
  <2>4. QED
    BY <1>1, <1>2, <1>6, <2>2, <2>3 DEF RInv, Ends, EofIn
<1>12. QED
  BY <1>8, <1>9, <1>10, <1>11 DEF RInv

(* The server task closes a session of the select! only after its input     *)
(* has ended.                                                               *)
LEMMA ClosedHasEnded ==
  ASSUME IInv, SInv, OInv, RInv, pc = "select", 1 \in DOMAIN txq, txq[1].data = "eof"
  PROVE  rdpc[txq[1].sock] = "done" /\ ~Reading(txq[1].sock)
<1>1. rxpc[txq[1].sock] = "done"
  BY DEF OInv, LastWords, Running
<1>2. txq[1].sock \in Sock
  BY Senders
<1>3. QED
  BY <1>1, <1>2 DEF RInv, Ends, Reading

LEMMA SendReceive == ASSUME IInv, SInv, OInv, RInv, SrvSend PROVE RInv'
<1>1. /\ UNCHANGED <<task, chan, conn, net>> /\ UNCHANGED rxq
      /\ pc \in {"select", "finish"} /\ txq # <<>>
  BY SendCases DEF SrvSend
<1>2. PICK a \in Addr, m \in Outbound :
        /\ m = txq[1] /\ a = AddrOf[m.sock]
        /\ \/ UNCHANGED <<connections, wr_streams>>
           \/ /\ wr_streams[a] \in Sock /\ m.data = "eof"
              /\ wr_streams' = [wr_streams EXCEPT ![a] = NoSock]
              /\ connections' = [connections EXCEPT ![a] = NoSock]
  BY SendCases
<1>3. 1 \in DOMAIN txq
  BY <1>1, Shifted, SendCases
<1>4. UNCHANGED <<pc, held, rdpc, rxpc>>
  BY <1>1 DEF task, conn
<1>5. CASE UNCHANGED <<connections, wr_streams>>
  BY <1>1, <1>4, <1>5, StillKept, QuietReceive
<1>6. CASE /\ wr_streams[a] \in Sock /\ m.data = "eof"
           /\ wr_streams' = [wr_streams EXCEPT ![a] = NoSock]
           /\ connections' = [connections EXCEPT ![a] = NoSock]
  <2>1. /\ \A b \in Addr : b # a => /\ wr_streams'[b] = wr_streams[b]
                                    /\ connections'[b] = connections[b]
        /\ wr_streams'[a] = NoSock /\ connections'[a] = NoSock
    BY <1>6 DEF IInv, TypeOK, TablesType, Table
  <2>2. Kept'
    <3> SUFFICES ASSUME NoReload, pc = "select", NEW t \in Sock, Reading(t)
                 PROVE  wr_streams'[AddrOf[t]] = t
      BY <1>1, <1>4 DEF Kept, NoReload, Reading, Inbox, IsOpen, Running
    <3>1. wr_streams[AddrOf[t]] = t /\ t # txq[1].sock /\ AddrOf[t] \in Addr
      BY <1>2, <1>3, <1>6, ClosedHasEnded, SockAssumption DEF RInv, Kept, IsOpen, Running
    <3>2. wr_streams[a] = txq[1].sock
      BY <1>2, <1>3, <1>6, SockAssumption DEF OInv, Present
    <3>3. QED
      BY <2>1, <3>1, <3>2
  <2>3. QED
    BY <1>1, <1>4, <2>1, <2>2, QuietReceive
<1>7. QED
  BY <1>2, <1>5, <1>6

(* The server task takes a message and passes it on: it goes to the session *)
(* of its address, which is its own, and the end of input comes last.       *)
LEMMA ReceiveReceive == ASSUME IInv, SInv, RInv, SrvReceive PROVE RInv'
<1>1. /\ pc = "select" /\ pc' = "forward" /\ rxq # <<>>
      /\ UNCHANGED <<chan, rdpc, rxpc, wr_streams, connections>>
      /\ held' = <<Head(rxq)>> /\ rxq' = Tail(rxq)
  BY DEF SrvReceive, tables, conn
<1>2. PICK n \in Nat : /\ DOMAIN rxq = 1 .. n + 1 /\ DOMAIN rxq' = 1 .. n
                       /\ \A i \in 1 .. n : rxq'[i] = rxq[i + 1]
                       /\ Head(rxq) = rxq[1]
  <2>1. rxq \in Seq(Inbound) /\ Len(rxq) \in Nat \ {0}
    BY <1>1 DEF IInv, TypeOK, QueuesType
  <2>2. /\ DOMAIN rxq = 1 .. Len(rxq) /\ Head(rxq) = rxq[1]
        /\ DOMAIN Tail(rxq) = 1 .. Len(rxq) - 1
        /\ \A i \in 1 .. Len(rxq) - 1 : Tail(rxq)[i] = rxq[i + 1]
    BY <1>1, <2>1
  <2>3. Len(rxq) - 1 \in Nat /\ Len(rxq) = (Len(rxq) - 1) + 1
    BY <2>1
  <2>4. QED
    BY <1>1, <2>2, <2>3
<1>3. DOMAIN held' = {1} /\ held'[1] = rxq[1]
  BY <1>1, <1>2
<1>4. /\ \A i \in 1 .. n : i + 1 \in 1 .. n + 1
      /\ 1 \in 1 .. n + 1
      /\ \A i \in 1 .. n + 1 : i = 1 \/ \E j \in 1 .. n : i = j + 1
  <2>1. \A i \in 1 .. n + 1 : i # 1 => i - 1 \in 1 .. n /\ i = (i - 1) + 1
    OBVIOUS
  <2>2. QED
    BY <2>1
<1>5. DOMAIN held = {}
  <2>1. held = <<>>
    BY <1>1 DEF SInv, Idle
  <2>2. QED
    BY <2>1
<1>6. \A t \in Sock : Inbox(t)' <=> Inbox(t)
  <2>1. ASSUME NEW t \in Sock, Inbox(t)' PROVE Inbox(t)
    <3>1. \/ \E i \in 1 .. n : rxq[i + 1].sock = t
          \/ rxq[1].sock = t
      BY <1>2, <1>3, <2>1 DEF Inbox
    <3>2. QED
      BY <1>2, <1>4, <3>1 DEF Inbox
  <2>2. ASSUME NEW t \in Sock, Inbox(t) PROVE Inbox(t)'
    <3>1. PICK i \in 1 .. n + 1 : rxq[i].sock = t
      BY <1>2, <1>5, <2>2 DEF Inbox
    <3>2. CASE i = 1
      BY <1>3, <3>1, <3>2 DEF Inbox
    <3>3. ASSUME NEW j \in 1 .. n, i = j + 1 PROVE Inbox(t)'
      BY <1>2, <3>1, <3>3 DEF Inbox
    <3>4. QED
      BY <1>4, <3>2, <3>3
  <2>3. QED
    BY <2>1, <2>2
<1>7. \A t \in Sock : Reading(t)' <=> Reading(t)
  BY <1>1, <1>6 DEF Reading
<1>8. Own' /\ OwnChunks' /\ Kept'
  BY <1>1, <1>7 DEF RInv, Own, OwnChunks, Kept, NoReload, IsOpen, Running
<1>9. Ends'
  <2> SUFFICES ASSUME NEW t \in Sock
               PROVE  /\ EofIn(rxq, t)' => rdpc[t] = "done"
                      /\ \A i, j \in 1 .. n :
                           rxq'[i].sock = t /\ rxq'[i].data = "eof" /\ j > i
                             => rxq'[j].sock # t
                      /\ EofIn(held, t)' => /\ rdpc[t] = "done"
                                            /\ \A i \in 1 .. n : rxq'[i].sock # t
                      /\ EofIn(chan[t], t) \/ rxpc[t] \in {"line", "eof", "done"}
                           => rdpc[t] = "done" /\ ~Inbox(t)'
    <3>1. UNCHANGED <<rdpc, rxpc, chan>> /\ DOMAIN rxq' = 1 .. n
      BY <1>1, <1>2
    <3>2. QED
      BY <3>1 DEF Ends, EofIn
  <2>1. EofIn(rxq, t)' => EofIn(rxq, t)
    BY <1>2, <1>4 DEF EofIn
  <2>2. ASSUME NEW i \in 1 .. n, NEW j \in 1 .. n, rxq'[i].sock = t,
               rxq'[i].data = "eof", j > i
        PROVE  rxq'[j].sock # t
    <3>1. i + 1 \in DOMAIN rxq /\ j + 1 \in DOMAIN rxq /\ j + 1 > i + 1
      BY <1>2, <1>4, <2>2
    <3>2. rxq[i + 1].sock = t /\ rxq[i + 1].data = "eof"
      BY <1>2, <2>2
    <3>3. rxq[j + 1].sock # t
      BY <3>1, <3>2 DEF RInv, Ends
    <3>4. QED
      BY <1>2, <3>3
  <2>3. ASSUME EofIn(held, t)'
        PROVE  rdpc[t] = "done" /\ \A i \in 1 .. n : rxq'[i].sock # t
    <3>1. rxq[1].sock = t /\ rxq[1].data = "eof" /\ 1 \in DOMAIN rxq
      BY <1>2, <1>3, <1>4, <2>3 DEF EofIn
    <3>2. EofIn(rxq, t)
      BY <3>1 DEF EofIn
    <3>3. \A i \in 1 .. n : i + 1 \in DOMAIN rxq /\ i + 1 > 1
      BY <1>2, <1>4
    <3>4. \A i \in 1 .. n : rxq[i + 1].sock # t
      BY <3>1, <3>3 DEF RInv, Ends
    <3>5. QED
      BY <1>2, <3>2, <3>4 DEF RInv, Ends
  <2>4. EofIn(rxq, t)' => rdpc[t] = "done"
    BY <2>1 DEF RInv, Ends
  <2>5. EofIn(chan[t], t) \/ rxpc[t] \in {"line", "eof", "done"}
          => rdpc[t] = "done" /\ ~Inbox(t)'
    BY <1>6 DEF RInv, Ends
  <2>6. \A i, j \in 1 .. n : rxq'[i].sock = t /\ rxq'[i].data = "eof" /\ j > i
                                 => rxq'[j].sock # t
    BY <2>2
  <2>7. QED
    BY <2>3, <2>4, <2>5, <2>6, Zenon
<1>10. QED
  BY <1>8, <1>9 DEF RInv

LEMMA ForwardReceive == ASSUME IInv, RInv, SrvForward PROVE RInv'
<1> DEFINE m == Head(held)
           a == AddrOf[m.sock]
           s == connections[a]
<1>1. /\ pc = "forward" /\ pc' = "select" /\ held' = <<>>
      /\ UNCHANGED <<rxq, rdpc, rxpc, wr_streams, connections>>
      /\ chan' = chan \/ (Listening(a) /\ chan' = [chan EXCEPT ![s] = Append(@, m)])
  BY DEF SrvForward, tables, conn
<1>2. DOMAIN held' = {}
  <2>1. held' = <<>>
    BY <1>1
  <2>2. QED
    BY <2>1
<1>3. \A t \in Sock : Inbox(t)' => Inbox(t)
  BY <1>1, <1>2 DEF Inbox
<1>4. \A t \in Sock : Reading(t)' => Reading(t)
  BY <1>1, <1>3 DEF Reading
<1>5. Own' /\ Kept'
  BY <1>1, <1>4 DEF RInv, Own, Kept, NoReload, IsOpen, Running
<1>6. CASE chan' = chan
  <2>1. OwnChunks'
    BY <1>6 DEF RInv, OwnChunks
  <2>2. \A t \in Sock : ~EofIn(held, t)'
    BY <1>2 DEF EofIn
  <2>3. Ends'
    BY <1>1, <1>3, <1>6, <2>2 DEF RInv, Ends, EofIn
  <2>4. QED
    BY <1>5, <2>1, <2>3 DEF RInv
<1>7. CASE Listening(a) /\ chan' = [chan EXCEPT ![s] = Append(@, m)]
  <2>1. held \in Seq(Inbound) /\ held # <<>>
    BY <1>1 DEF IInv, TypeOK, TaskType, InHand
  <2>2. m \in Inbound /\ 1 \in DOMAIN held /\ m = held[1]
    BY <2>1
  <2>3. m.sock \in Sock
    BY <2>2 DEF Inbound
  <2>4. Reading(m.sock)
    BY <2>2 DEF Reading, Inbox
  <2>5. s # NoSock /\ s = m.sock /\ s \in Sock
    BY <1>7, <2>3, <2>4 DEF RInv, Own, Listening
  <2>6. PICK n \in Nat : /\ DOMAIN chan[s] = 1 .. n /\ DOMAIN chan'[s] = 1 .. n + 1
                         /\ \A i \in 1 .. n : chan'[s][i] = chan[s][i]
                         /\ chan'[s][n + 1] = m
    <3>1. chan \in [Sock -> Seq(Inbound)]
      BY DEF IInv, TypeOK, QueuesType
    <3>2. chan[s] \in Seq(Inbound) /\ chan'[s] = Append(chan[s], m)
      BY <1>7, <2>5, <3>1
    <3>3. /\ Len(chan[s]) \in Nat /\ DOMAIN chan[s] = 1 .. Len(chan[s])
          /\ DOMAIN Append(chan[s], m) = 1 .. Len(chan[s]) + 1
          /\ \A i \in 1 .. Len(chan[s]) : Append(chan[s], m)[i] = chan[s][i]
          /\ Append(chan[s], m)[Len(chan[s]) + 1] = m
      <4>1. \A q \in Seq(Inbound) :
              /\ Len(q) \in Nat /\ DOMAIN q = 1 .. Len(q)
              /\ DOMAIN Append(q, m) = 1 .. Len(q) + 1
              /\ \A i \in 1 .. Len(q) : Append(q, m)[i] = q[i]
              /\ Append(q, m)[Len(q) + 1] = m
        BY <2>2
      <4>2. QED
        BY <3>2, <4>1
    <3>4. QED
      BY <3>2, <3>3
  <2>7. \A t \in Sock : t # s => chan'[t] = chan[t]
    BY <1>7, <2>5 DEF IInv, TypeOK, QueuesType
  <2>8. \A i \in 1 .. n + 1 : i \in 1 .. n \/ i = n + 1
    OBVIOUS
  <2>9. OwnChunks'
    BY <2>5, <2>6, <2>7, <2>8 DEF RInv, OwnChunks
  <2>10. ASSUME NEW t \in Sock, EofIn(chan[t], t)'
         PROVE  EofIn(chan[t], t) \/ EofIn(held, t)
    <3>1. CASE t # s
      BY <2>7, <2>10, <3>1 DEF EofIn
    <3>2. CASE t = s
      <4>1. PICK i \in 1 .. n + 1 : chan'[s][i].sock = s /\ chan'[s][i].data = "eof"
        BY <2>6, <2>10, <3>2 DEF EofIn
      <4>2. QED
        BY <2>2, <2>6, <2>8, <3>2, <4>1, SMTT(20) DEF EofIn
    <3>3. QED
      BY <3>1, <3>2
  <2>11. \A t \in Sock : ~EofIn(held, t)'
    BY <1>2 DEF EofIn
  <2>12. \A t \in Sock : EofIn(held, t) => rdpc[t] = "done" /\ ~Inbox(t)'
    BY <1>1, <1>2 DEF RInv, Ends, Inbox
  <2>13. Ends'
    <3> SUFFICES ASSUME NEW t \in Sock,
                        EofIn(chan[t], t)' \/ rxpc[t] \in {"line", "eof", "done"}
                 PROVE  rdpc[t] = "done" /\ ~Inbox(t)'
      BY <1>1, <2>11 DEF RInv, Ends, EofIn
    <3>1. QED
      BY <1>3, <2>10, <2>12 DEF RInv, Ends
  <2>14. QED
    BY <1>5, <2>9, <2>13 DEF RInv
<1>8. QED
  BY <1>1, <1>6, <1>7

LEMMA InitReceive == Init => RInv
<1> SUFFICES ASSUME Init PROVE RInv
  OBVIOUS
<1>1. DOMAIN rxq = {} /\ DOMAIN held = {} /\ \A t \in Sock : DOMAIN chan[t] = {}
  BY DEF Init
<1>2. \A t \in Sock : /\ ~Reading(t) /\ ~EofIn(rxq, t) /\ ~EofIn(held, t)
                      /\ ~EofIn(chan[t], t) /\ rxpc[t] = "none"
  BY <1>1 DEF Init, Reading, Inbox, EofIn
<1>3. Own /\ OwnChunks /\ Kept
  BY <1>1, <1>2 DEF Own, OwnChunks, Kept
<1>4. Ends
  BY <1>1, <1>2 DEF Ends
<1>5. QED
  BY <1>3, <1>4 DEF RInv

LEMMA NextReceive ==
  ASSUME Undisturbed, IInv, SInv, Alone, OInv, Settled, RInv, [Next]_vars PROVE RInv'
<1>1. CASE Signal \/ (\E s \in Sock : Client(s)) \/ UNCHANGED vars
  BY <1>1, OutsideReceive
<1>2. CASE \E s \in Sock : RdTask(s) \/ RxTask(s)
  BY <1>2, RdReceive, RxReceive
<1>3. CASE \E s \in Sock : SrvAccept(s)
  BY <1>3, AcceptReceive
<1>4. CASE SrvLagged \/ SrvAcceptError \/ SrvStartError
  <2>1. Panic
    BY <1>4 DEF SrvLagged, SrvAcceptError, SrvStartError
  <2>2. /\ DropSessions /\ rxq' = <<>> /\ held' = <<>> /\ pc' = "dead"
        /\ UNCHANGED chan /\ UNCHANGED conn
    BY <2>1 DEF Panic
  <2>3. QED
    BY <2>2, DropReceive
<1>5. CASE SrvReconfSwap
  <2>1. pc = "reconf" /\ DropSessions /\ UNCHANGED <<held, rxq, chan>> /\ UNCHANGED conn
    BY <1>5 DEF SrvReconfSwap
  <2>2. ~NoReload
    BY <2>1 DEF Settled
  <2>3. QED
    BY <2>1, <2>2, DropReceive
<1>6. CASE SrvSignal \/ SrvByeEof \/ (\E s \in Sock : SrvByeLine(s))
           \/ SrvStopClose \/ SrvFinish \/ SrvGreet
  BY <1>6, QuietSrvReceive
<1>7. CASE SrvDnsDone
  BY <1>7, DnsDoneReceive
<1>8. CASE SrvSend
  BY <1>8, SendReceive
<1>9. CASE SrvReceive \/ SrvForward
  BY <1>9, ReceiveReceive, ForwardReceive
<1>10. QED
  BY <1>1, <1>2, <1>3, <1>4, <1>5, <1>6, <1>7, <1>8, <1>9 DEF Next, SrvTask, SrvCommitted

(* The steps that close a socket, and why.                                  *)
LEMMA ShutsOnly ==
  ASSUME Undisturbed, IInv, SInv, Alone, OInv, RInv, [Next]_vars,
         NEW s \in Sock, out'[s] # out[s], IsShut(out'[s])
  PROVE  rdpc[s] = "done" \/ shutdown \/ pc = "reconf" \/ pc' = "dead"
<1>0. UNCHANGED out => FALSE
  OBVIOUS
<1>1. ASSUME NEW t \in Sock, SrvAccept(t) PROVE FALSE
  <2>1. NoTakeover
    BY DEF Undisturbed, NoSharing, NoTakeover
  <2>2. wr_streams[AddrOf[t]] = NoSock
    BY <1>1, <2>1, AddressFree
  <2>3. out'[s] = IF wr_streams[AddrOf[t]] = s THEN Append(out[s], "shut") ELSE out[s]
    BY <1>1 DEF SrvAccept
  <2>4. QED
    BY <2>2, <2>3, SockAssumption
<1>2. CASE SrvLagged \/ SrvAcceptError \/ SrvStartError
  BY <1>2 DEF SrvLagged, SrvAcceptError, SrvStartError, Panic
<1>3. CASE SrvReconfSwap
  BY <1>3 DEF SrvReconfSwap
<1>4. CASE SrvSend
  <2>1. CASE pc = "finish"
    BY <2>1 DEF SInv, Idle
  <2>2. CASE pc = "select"
    <3>1. /\ 1 \in DOMAIN txq /\ Head(txq) = txq[1] /\ txq[1].sock \in Sock
          /\ txq[1].data \in {"greet", "line", "eof"}
      <4>1. txq \in Seq(Outbound) /\ txq # <<>>
        BY <1>4 DEF SrvSend, IInv, TypeOK, QueuesType
      <4>2. 1 \in DOMAIN txq /\ Head(txq) = txq[1]
        BY <4>1
      <4>3. QED
        BY <4>2, Senders
    <3>2. wr_streams[AddrOf[txq[1].sock]] = txq[1].sock
      BY <2>2, <3>1 DEF OInv, Present, Running, IsOpen
    <3>3. txq[1].sock # NoSock
      BY <3>1, SockAssumption
    <3>4. /\ s = txq[1].sock
          /\ \/ txq[1].data = "eof"
             \/ out'[s] = Append(out[s], txq[1].data) /\ txq[1].data # "eof"
      BY <1>4, <3>1, <3>2, <3>3 DEF SrvSend, Transmit, IInv, TypeOK, WorldType
    <3>5. CASE txq[1].data = "eof"
      BY <2>2, <3>1, <3>4, <3>5, ClosedHasEnded
    <3>6. CASE out'[s] = Append(out[s], txq[1].data) /\ txq[1].data \in {"greet", "line"}
      <4>1. out[s] \in Seq({"greet", "line", "shut"})
        BY DEF IInv, TypeOK, WorldType
      <4>2. /\ Len(out'[s]) = Len(out[s]) + 1
            /\ out'[s][Len(out[s]) + 1] = txq[1].data
        BY <3>6, <4>1
      <4>3. QED
        BY <3>6, <4>2 DEF IsShut
    <3>7. QED
      BY <3>1, <3>4, <3>5, <3>6
  <2>3. QED
    BY <1>4, <2>1, <2>2 DEF SrvSend
<1>5. CASE Outside \/ \E t \in Sock : RxTask(t)
  <2>1. UNCHANGED out
    BY <1>5, OutsideFrame DEF RxTask, RxRecv, RxSendLine, RxSendEof, world
  <2>2. QED
    BY <1>0, <2>1
<1>6. CASE SrvSignal \/ SrvReceive
  BY <1>0, <1>6 DEF SrvSignal, SrvInitShutdown, SrvInitConfigure, SrvShutdown, SrvReconfigure,
     SrvReceive, world
<1>7. CASE (\E t \in Sock : SrvByeLine(t)) \/ SrvByeEof \/ SrvStopClose
           \/ SrvDnsDone \/ SrvGreet \/ SrvForward \/ SrvFinish
  BY <1>0, <1>7 DEF SrvByeLine, SrvByeEof, SrvStopClose, SrvDnsDone, SrvGreet, SrvForward,
     SrvFinish, world
<1>8. QED
  BY <1>1, <1>2, <1>3, <1>4, <1>5, <1>6, <1>7 DEF Next, Outside, SrvTask, SrvCommitted

(***************************************************************************)
(* The results.                                                            *)
(***************************************************************************)

(* Every reachable state satisfies the invariant of what is received, if    *)
(* no message outlives its session.                                         *)
THEOREM ReceiveInvariant ==
  Spec => [](Undisturbed => IInv /\ SInv /\ Alone /\ OInv /\ Settled /\ RInv)
<1> DEFINE All == IInv /\ SInv /\ Alone /\ OInv /\ Settled /\ RInv
           Given == Undisturbed => All
<1>1. Init => Given
  BY InitInv, InitSessions, InitOrder, InitSettled, InitReceive
<1>2. Given /\ [Next]_vars => Given'
  <2> SUFFICES ASSUME Undisturbed', Given, [Next]_vars PROVE All'
    OBVIOUS
  <2>1. Undisturbed /\ NoTakeover
    BY DEF Undisturbed, NoSharing, NoReload, NoTakeover
  <2>2. QED
    BY <2>1, NextStep, NextSessions, AloneStep, NextOrder, SettledStep, NextReceive
<1>3. QED
  BY <1>1, <1>2, PTL DEF Spec

(* Nothing that was produced for one connection reaches another, although   *)
(* the queues name only addresses: neither what clients typed nor what the  *)
(* server answers.                                                          *)
THEOREM MessagesReachTheirOwn == Undisturbed => (Spec => []OwnMessagesOnly)
<1> SUFFICES ASSUME Undisturbed PROVE Spec => []OwnMessagesOnly
  OBVIOUS
<1>1. (Undisturbed => IInv /\ SInv /\ Alone /\ OInv /\ Settled /\ RInv) => OwnMessagesOnly
  <2> SUFFICES ASSUME IInv, OInv, RInv PROVE OwnMessagesOnly
    OBVIOUS
  <2>1. \A i \in DOMAIN held : held[i].sock \in Sock /\ Reading(held[i].sock)
    <3>1. held \in Seq(Inbound)
      BY DEF IInv, TypeOK, TaskType
    <3>2. \A i \in DOMAIN held : held[i] \in Inbound
      BY <3>1
    <3>3. QED
      BY <3>2 DEF Inbound, Reading, Inbox
  <2>2. \A i \in DOMAIN rxq : rxq[i].sock \in Sock /\ Reading(rxq[i].sock)
    <3>1. rxq \in Seq(Inbound)
      BY DEF IInv, TypeOK, QueuesType
    <3>2. \A i \in DOMAIN rxq : rxq[i] \in Inbound
      BY <3>1
    <3>3. QED
      BY <3>2 DEF Inbound, Reading, Inbox
  <2>3. \A i \in DOMAIN txq : wr_streams[AddrOf[txq[i].sock]] \in {NoSock, txq[i].sock}
    BY DEF OInv, Present
  <2>4. QED
    BY <2>1, <2>2, <2>3 DEF OwnMessagesOnly, RInv, Own
<1>2. QED
  BY <1>1, ReceiveInvariant, PTL

(* A socket is closed only after its own read task has ended, or because the *)
(* task stops, reconfigures or has panicked: no step of another session     *)
(* closes it, at any interleaving of the tasks.                             *)
THEOREM ClosedForAReason == Undisturbed => (Spec => CloseJustified)
<1> SUFFICES ASSUME Undisturbed PROVE Spec => CloseJustified
  OBVIOUS
<1>1. ASSUME Undisturbed => IInv /\ SInv /\ Alone /\ OInv /\ Settled /\ RInv, [Next]_vars
      PROVE  [\A s \in Sock : ~IsShut(out[s]) /\ IsShut(out'[s]) =>
                rdpc[s] \in {"done", "dead"} \/ shutdown \/ pc = "reconf" \/ pc' = "dead"]_vars
  BY <1>1, ShutsOnly
<1>2. QED
  BY <1>1, ReceiveInvariant, PTL DEF Spec, CloseJustified

-----------------------------------------------------------------------------
(***************************************************************************)
(* Chunks of client input: none is lost, doubled or reordered between a     *)
(* read task and the Rx task of its session.                                *)
(***************************************************************************)

Chunk(m, s) == m.sock = s /\ m.data # "eof"

(* Chunks that have got as far as the Rx task's queue, and as far as the    *)
(* server task.                                                             *)
Passed(s)  == Len(heard[s]) + Len(chan[s]) - (IF EofIn(chan[s], s) THEN 1 ELSE 0)
InTask(s)  == \E i \in DOMAIN held : Chunk(held[i], s)
Fetched(s) == Passed(s) + (IF InTask(s) THEN 1 ELSE 0)

(* The Rx task has handled the first chunks; those in its queue come next,  *)
(* with nothing behind the end of input.                                    *)
Handled ==
  \A s \in Sock :
    /\ \A k \in DOMAIN heard[s] : heard[s][k] = <<s, k>>
    /\ \A i \in DOMAIN chan[s] :
         /\ chan[s][i].data # "eof" => chan[s][i].n = Len(heard[s]) + i
         /\ chan[s][i].data = "eof" => i = Len(chan[s])

(* Nothing was read before the accept, and nobody is served after a panic.  *)
Unread ==
  /\ \A s \in Sock :
       net[s] # "accepted" => heard[s] = <<>> /\ nread[s] = 0 /\ ~Inbox(s)
  /\ pc = "dead" => connections = Empty
  /\ DOMAIN held \subseteq {1}

(* For a session that is served, the next chunk is with the server task and *)
(* the receive queue has the rest, each once and in order.                  *)
QueuedOnce(s) ==
  /\ Fetched(s) <= Produced(s)
  /\ \A i \in DOMAIN held : Chunk(held[i], s) => held[i].n = Passed(s) + 1
  /\ \A i \in DOMAIN rxq : Chunk(rxq[i], s) => rxq[i].n \in Fetched(s) + 1 .. Produced(s)
  /\ \A i, j \in DOMAIN rxq : Chunk(rxq[i], s) /\ Chunk(rxq[j], s) /\ i < j
                                => rxq[i].n < rxq[j].n
  /\ \A k \in Fetched(s) + 1 .. Produced(s) :
       \E i \in DOMAIN rxq : Chunk(rxq[i], s) /\ rxq[i].n = k
Listed == \A s \in Sock : Served(s) /\ rxpc[s] = "recv" => QueuedOnce(s)

CInv == Handled /\ Unread /\ Listed

-----------------------------------------------------------------------------
(* The positions of a session's chunks are integers.                        *)
LEMMA Positions ==
  ASSUME IInv, NEW s \in Sock
  PROVE  Passed(s) \in Int /\ Fetched(s) \in Int /\ Produced(s) \in Int
<1>1. Len(heard[s]) \in Nat /\ Len(chan[s]) \in Nat /\ nread[s] \in Nat
  <2>1. heard[s] \in Seq(Sock \X Nat) /\ chan[s] \in Seq(Inbound) /\ nread[s] \in Nat
    BY DEF IInv, TypeOK, ConnType, QueuesType
  <2>2. QED
    BY <2>1
<1>2. Passed(s) \in Int
  BY <1>1 DEF Passed
<1>3. Produced(s) \in Int
  BY <1>1 DEF Produced
<1>4. QED
  BY <1>2, <1>3 DEF Fetched

(* Steps that leave the chunks of a session where they are.                 *)
LEMMA SameQueued ==
  ASSUME NEW s \in Sock, QueuedOnce(s), UNCHANGED <<rxq, held>>,
         chan'[s] = chan[s], heard'[s] = heard[s], Produced(s)' = Produced(s)
  PROVE  QueuedOnce(s)'
<1>1. EofIn(chan[s], s)' <=> EofIn(chan[s], s)
  BY DEF EofIn
<1>2. InTask(s)' <=> InTask(s)
  BY DEF InTask, Chunk
<1>3. Passed(s)' = Passed(s)
  BY <1>1 DEF Passed
<1>4. Fetched(s)' = Fetched(s)
  BY <1>2, <1>3 DEF Fetched
<1>5. QED
  BY <1>3, <1>4 DEF QueuedOnce, Chunk

LEMMA QuietChunks ==
  ASSUME CInv, UNCHANGED <<rxq, held, chan, heard, rxpc, nread, rdpc>>,
         \A s \in Sock : /\ net'[s] # "accepted" => net[s] # "accepted"
                         /\ Served(s)' => Served(s),
         pc' = "dead" => connections' = Empty
  PROVE  CInv'
<1>1. Handled'
  BY DEF CInv, Handled
<1>2. \A s \in Sock : Inbox(s)' <=> Inbox(s)
  BY DEF Inbox
<1>3. Unread'
  BY <1>2 DEF CInv, Unread
<1>4. \A s \in Sock : Produced(s)' = Produced(s)
  BY DEF Produced
<1>5. Listed'
  BY <1>4, SameQueued DEF CInv, Listed
<1>6. QED
  BY <1>1, <1>3, <1>5 DEF CInv

LEMMA OutsideChunks ==
  ASSUME IInv, CInv, Signal \/ (\E s \in Sock : Client(s)) \/ UNCHANGED vars PROVE CInv'
<1>1. /\ UNCHANGED <<rxq, held, chan, heard, rxpc, nread, rdpc, pc, cur, connections>>
      /\ \A s \in Sock : net'[s] # "accepted" => net[s] # "accepted"
  <2>1. CASE Signal \/ UNCHANGED vars
    BY <2>1 DEF Signal, SendReconfigure, SendShutdown, vars, task, tables, queues, conn, world
  <2>2. CASE \E s \in Sock : Client(s)
    <3>1. /\ UNCHANGED <<rxq, held, chan, heard, rxpc, nread, rdpc, pc, cur, connections>>
          /\ net' = net \/ \E s \in Sock : net[s] = "idle" /\ net' = [net EXCEPT ![s] = "pending"]
      BY <2>2 DEF Client, ClientConnect, ClientClose, ClientReset, ClientSend, task, tables,
         queues, conn
    <3>2. QED
      BY <3>1 DEF IInv, TypeOK, WorldType
  <2>3. QED
    BY <2>1, <2>2
<1>2. \A s \in Sock : Served(s)' => Served(s)
  BY <1>1 DEF Served
<1>3. pc' = "dead" => connections' = Empty
  BY <1>1 DEF CInv, Unread
<1>4. QED
  BY <1>1, <1>2, <1>3, QuietChunks

(* Steps of the server task that neither take nor give a message.           *)
LEMMA QuietSrvChunks ==
  ASSUME IInv, CInv,
         SrvSignal \/ SrvByeEof \/ (\E s \in Sock : SrvByeLine(s)) \/ SrvStopClose
           \/ SrvFinish \/ SrvGreet \/ SrvDnsDone \/ SrvSend
  PROVE  CInv'
<1>1. /\ UNCHANGED <<rxq, held, chan, heard, rxpc, nread, rdpc, net>>
      /\ pc' # "dead" /\ pc' # "dns"
  BY DEF SrvSignal, SrvInitShutdown, SrvShutdown, SrvInitConfigure, SrvReconfigure, SrvByeEof,
     SrvByeLine, SrvStopClose, SrvFinish, SrvGreet, SrvDnsDone, SrvSend, task, queues, conn, world
<1>2. \/ \A a \in Addr : connections'[a] \in {connections[a], NoSock}
      \/ /\ pc = "dns" /\ cur \in Sock
         /\ connections' = [connections EXCEPT ![AddrOf[cur]] = cur]
  <2>1. CASE SrvDnsDone
    BY <2>1 DEF SrvDnsDone, IInv, InHand
  <2>2. CASE SrvSend
    <3>1. \/ connections' = connections
          \/ connections' = [connections EXCEPT ![AddrOf[Head(txq).sock]] = NoSock]
      BY <2>2 DEF SrvSend, Transmit
    <3>2. QED
      BY <3>1 DEF IInv, TypeOK, TablesType, Table
  <2>3. CASE SrvSignal
    BY <2>3 DEF SrvSignal, SrvInitShutdown, SrvShutdown, SrvInitConfigure, SrvReconfigure,
       tables, Empty
  <2>4. CASE SrvByeEof \/ (\E s \in Sock : SrvByeLine(s)) \/ SrvStopClose \/ SrvFinish \/ SrvGreet
    BY <2>4 DEF SrvByeEof, SrvByeLine, SrvStopClose, SrvFinish, SrvGreet, tables
  <2>5. QED
    BY <2>1, <2>2, <2>3, <2>4
<1>3. \A s \in Sock : Served(s)' => Served(s)
  <2> SUFFICES ASSUME NEW s \in Sock, connections'[AddrOf[s]] = s PROVE Served(s)
    BY <1>1 DEF Served
  <2>1. AddrOf[s] \in Addr /\ s # NoSock
    BY SockAssumption
  <2>2. CASE \A a \in Addr : connections'[a] \in {connections[a], NoSock}
    BY <2>1, <2>2 DEF Served
  <2>3. CASE pc = "dns" /\ connections' = [connections EXCEPT ![AddrOf[cur]] = cur]
    BY <2>1, <2>3 DEF Served, IInv, TypeOK, TablesType, Table
  <2>4. QED
    BY <1>2, <2>2, <2>3
<1>4. QED
  BY <1>1, <1>3, QuietChunks

(* A panic or a reconfiguration: nobody is served any more.                 *)
LEMMA DropChunks ==
  ASSUME CInv, DropSessions, UNCHANGED <<chan, conn>>, pc' # "dns",
         \/ rxq' = <<>> /\ held' = <<>>
         \/ UNCHANGED <<rxq, held>>
  PROVE  CInv'
<1>1. /\ connections' = Empty /\ UNCHANGED <<heard, nread, rdpc, rxpc>>
      /\ \A s \in Sock : net'[s] # "accepted" => net[s] # "accepted"
  BY DEF DropSessions, conn
<1>2. Handled'
  BY <1>1 DEF CInv, Handled
<1>3. (\A s \in Sock : Inbox(s)' => Inbox(s)) /\ DOMAIN held' \subseteq {1}
  <2>1. CASE rxq' = <<>> /\ held' = <<>>
    <3>1. DOMAIN rxq' = {} /\ DOMAIN held' = {}
      BY <2>1
    <3>2. QED
      BY <3>1 DEF Inbox
  <2>2. CASE UNCHANGED <<rxq, held>>
    BY <2>2 DEF Inbox, CInv, Unread
  <2>3. QED
    BY <2>1, <2>2
<1>4. Unread'
  BY <1>1, <1>3 DEF CInv, Unread
<1>5. \A s \in Sock : ~Served(s)'
  BY <1>1, SockAssumption DEF Served, Empty
<1>6. Listed'
  BY <1>5 DEF Listed
<1>7. QED
  BY <1>2, <1>4, <1>6 DEF CInv

(* What the read task adds comes after everything it added before.          *)
LEMMA RdChunks == ASSUME IInv, SInv, CInv, NEW s \in Sock, RdTask(s) PROVE CInv'
<1>1. /\ UNCHANGED <<pc, cur, held, chan, rxpc, heard, net, connections>>
      /\ rdpc[s] \in {"run", "send", "eof"}
      /\ \A t \in Sock : t # s => rdpc'[t] = rdpc[t] /\ nread'[t] = nread[t]
  BY DEF RdTask, RdRead, RdEnd, RdSignal, RdSend, RdSendEof, task, tables, queues, conn, world,
     IInv, TypeOK, ConnType
<1>2. Handled'
  BY <1>1 DEF CInv, Handled
<1>3. \A t \in Sock : Served(t)' <=> Served(t)
  BY <1>1 DEF Served
<1>4. \A t \in Sock : /\ Passed(t)' = Passed(t) /\ Fetched(t)' = Fetched(t)
                      /\ InTask(t)' <=> InTask(t)
  <2>1. \A t \in Sock : EofIn(chan[t], t)' <=> EofIn(chan[t], t)
    BY <1>1 DEF EofIn
  <2>2. \A t \in Sock : InTask(t)' <=> InTask(t)
    BY <1>1 DEF InTask, Chunk
  <2>3. \A t \in Sock : Passed(t)' = Passed(t)
    BY <1>1, <2>1 DEF Passed
  <2>4. QED
    BY <2>2, <2>3 DEF Fetched
<1>5. \A t \in Sock : t # s => Produced(t)' = Produced(t)
  BY <1>1 DEF Produced
<1>6. CASE RdRead(s) \/ RdEnd(s) \/ RdSignal(s)
  <2>1. rxq' = rxq
    BY <1>6 DEF RdRead, RdEnd, RdSignal, queues
  <2>2. \A t \in Sock : Inbox(t)' <=> Inbox(t)
    BY <1>1, <2>1 DEF Inbox
  <2>3. Produced(s)' = Produced(s)
    <3>1. nread \in [Sock -> Nat] /\ rdpc \in [Sock -> {"none", "run", "send", "eof", "done", "dead"}]
      BY DEF IInv, TypeOK, ConnType
    <3>2. CASE RdRead(s)
      BY <3>1, <3>2 DEF RdRead, Produced
    <3>3. CASE RdEnd(s) \/ RdSignal(s)
      <4>1. nread' = nread /\ rdpc[s] = "run" /\ rdpc'[s] # "send"
        BY <3>1, <3>3 DEF RdEnd, RdSignal
      <4>2. QED
        BY <4>1 DEF Produced
    <3>4. QED
      BY <1>6, <3>2, <3>3
  <2>4. net[s] = "accepted"
    BY <1>1 DEF SInv, Unopened
  <2>5. Unread'
    BY <1>1, <2>2, <2>4 DEF CInv, Unread
  <2>6. Listed'
    BY <1>1, <1>3, <1>5, <2>1, <2>3, SameQueued DEF CInv, Listed
  <2>7. QED
    BY <1>2, <2>5, <2>6 DEF CInv
<1>7. ASSUME NEW m \in Inbound, m.sock = s, ToServer(m),
             \/ rdpc[s] = "eof" /\ m.data = "eof" /\ nread' = nread
             \/ /\ rdpc[s] = "send" /\ m.data # "eof" /\ nread' = nread /\ m.n = nread[s],
             rdpc'[s] # "send"
      PROVE  CInv'
  <2>1. net[s] = "accepted"
    BY <1>1 DEF SInv, Unopened
  <2>2. \/ pc = "dead" /\ rxq' = rxq
        \/ pc # "dead" /\ \E n \in Nat :
             /\ DOMAIN rxq = 1 .. n /\ DOMAIN rxq' = 1 .. n + 1
             /\ \A i \in 1 .. n : rxq'[i] = rxq[i]
             /\ rxq'[n + 1] = m
    <3>1. rxq \in Seq(Inbound)
      BY DEF IInv, TypeOK, QueuesType
    <3>2. CASE pc # "dead"
      <4>1. rxq' = Append(rxq, m)
        BY <1>7, <3>2 DEF ToServer
      <4>2. /\ Len(rxq) \in Nat /\ DOMAIN rxq = 1 .. Len(rxq)
            /\ DOMAIN rxq' = 1 .. Len(rxq) + 1
            /\ \A i \in 1 .. Len(rxq) : rxq'[i] = rxq[i]
            /\ rxq'[Len(rxq) + 1] = m
        BY <3>1, <4>1
      <4>3. QED
        BY <3>2, <4>2
    <3>3. QED
      BY <1>7, <3>2 DEF ToServer
  <2>3. CASE pc = "dead" /\ rxq' = rxq
    <3>1. \A t \in Sock : ~Served(t)'
      BY <1>1, <2>3, SockAssumption DEF CInv, Unread, Served, Empty
    <3>2. \A t \in Sock : Inbox(t)' <=> Inbox(t)
      BY <1>1, <2>3 DEF Inbox
    <3>3. Unread'
      BY <1>1, <1>7, <2>1, <3>2 DEF CInv, Unread
    <3>4. Listed'
      BY <3>1 DEF Listed
    <3>5. QED
      BY <1>2, <3>3, <3>4 DEF CInv
  <2>4. CASE pc # "dead" /\ \E n \in Nat :
               /\ DOMAIN rxq = 1 .. n /\ DOMAIN rxq' = 1 .. n + 1
               /\ \A i \in 1 .. n : rxq'[i] = rxq[i]
               /\ rxq'[n + 1] = m
    <3>1. PICK n \in Nat : /\ DOMAIN rxq = 1 .. n /\ DOMAIN rxq' = 1 .. n + 1
                           /\ \A i \in 1 .. n : rxq'[i] = rxq[i]
                           /\ rxq'[n + 1] = m
      BY <2>4
    <3>2. /\ \A i \in 1 .. n : i \in 1 .. n + 1 /\ i < n + 1
          /\ \A i \in 1 .. n + 1 : i \in 1 .. n \/ i = n + 1
          /\ n + 1 \in 1 .. n + 1 /\ \A i \in 1 .. n + 1 : ~(n + 1 < i)
      OBVIOUS
    <3>3. \A t \in Sock : t # s => (Inbox(t)' <=> Inbox(t))
      BY <1>1, <1>7, <3>1, <3>2 DEF Inbox
    <3>4. Unread'
      BY <1>1, <1>7, <2>1, <3>3 DEF CInv, Unread
    <3>5. ASSUME NEW t \in Sock, t # s, QueuedOnce(t) PROVE QueuedOnce(t)'
      <4>1. \A i \in 1 .. n + 1 : Chunk(rxq'[i], t) <=> i \in 1 .. n /\ Chunk(rxq[i], t)
        BY <1>7, <3>1, <3>2, <3>5 DEF Chunk
      <4>2. /\ Passed(t)' = Passed(t) /\ Fetched(t)' = Fetched(t)
            /\ Produced(t)' = Produced(t) /\ held' = held
        BY <1>1, <1>4, <1>5, <3>5
      <4>3. \A i \in 1 .. n + 1 : Chunk(rxq'[i], t) => rxq'[i].n = rxq[i].n
        BY <3>1, <4>1
      <4>4. /\ Fetched(t) <= Produced(t)
            /\ \A i \in DOMAIN held : Chunk(held[i], t) => held[i].n = Passed(t) + 1
            /\ \A i \in 1 .. n : Chunk(rxq[i], t) => rxq[i].n \in Fetched(t) + 1 .. Produced(t)
            /\ \A i, j \in 1 .. n : Chunk(rxq[i], t) /\ Chunk(rxq[j], t) /\ i < j
                                      => rxq[i].n < rxq[j].n
            /\ \A k \in Fetched(t) + 1 .. Produced(t) :
                 \E i \in 1 .. n : Chunk(rxq[i], t) /\ rxq[i].n = k
        BY <3>1, <3>5 DEF QueuedOnce
      <4>5. \A k \in Fetched(t) + 1 .. Produced(t) :
                 \E i \in 1 .. n + 1 : Chunk(rxq'[i], t) /\ rxq'[i].n = k
        BY <3>1, <3>2, <4>1, <4>4
      <4>6. \A i, j \in 1 .. n + 1 : Chunk(rxq'[i], t) /\ Chunk(rxq'[j], t) /\ i < j
                                      => rxq'[i].n < rxq'[j].n
        BY <4>1, <4>3, <4>4
      <4>7. \A i \in 1 .. n + 1 : Chunk(rxq'[i], t) => rxq'[i].n \in Fetched(t) + 1 .. Produced(t)
        BY <4>1, <4>3, <4>4
      <4>8. QED
        BY <3>1, <4>2, <4>4, <4>5, <4>6, <4>7 DEF QueuedOnce, Chunk
    <3>6. ASSUME QueuedOnce(s) PROVE QueuedOnce(s)'
      <4>1. \A i \in 1 .. n : /\ Chunk(rxq'[i], s) <=> Chunk(rxq[i], s)
                              /\ rxq'[i].n = rxq[i].n
        BY <3>1
      <4>2. /\ Passed(s)' = Passed(s) /\ Fetched(s)' = Fetched(s) /\ held' = held
            /\ Fetched(s) \in Int /\ Produced(s) \in Int
        BY <1>1, <1>4, Positions
      <4>3. /\ Fetched(s) <= Produced(s)
            /\ \A i \in DOMAIN held : Chunk(held[i], s) => held[i].n = Passed(s) + 1
            /\ \A i \in 1 .. n : Chunk(rxq[i], s) => rxq[i].n \in Fetched(s) + 1 .. Produced(s)
            /\ \A i, j \in 1 .. n : Chunk(rxq[i], s) /\ Chunk(rxq[j], s) /\ i < j
                                      => rxq[i].n < rxq[j].n
            /\ \A k \in Fetched(s) + 1 .. Produced(s) :
                 \E i \in 1 .. n : Chunk(rxq[i], s) /\ rxq[i].n = k
        BY <3>1, <3>6 DEF QueuedOnce
      <4>4. nread[s] \in Nat /\ nread'[s] = nread[s]
        BY <1>7 DEF IInv, TypeOK, ConnType
      <4>5. CASE rdpc[s] = "eof" /\ m.data = "eof"
        <5>1. Produced(s)' = Produced(s)
          BY <1>7, <4>4, <4>5 DEF Produced
        <5>2. ~Chunk(rxq'[n + 1], s)
          BY <3>1, <4>5 DEF Chunk
        <5>3. \A k \in Fetched(s) + 1 .. Produced(s) :
                \E i \in 1 .. n + 1 : Chunk(rxq'[i], s) /\ rxq'[i].n = k
          BY <3>2, <4>1, <4>3
        <5>4. \A i, j \in 1 .. n + 1 : Chunk(rxq'[i], s) /\ Chunk(rxq'[j], s) /\ i < j
                                         => rxq'[i].n < rxq'[j].n
          BY <3>2, <4>1, <4>3, <5>2
        <5>5. \A i \in 1 .. n + 1 :
                Chunk(rxq'[i], s) => rxq'[i].n \in Fetched(s) + 1 .. Produced(s)
          BY <3>2, <4>1, <4>3, <5>2
        <5>6. QED
          BY <3>1, <4>2, <4>3, <5>1, <5>3, <5>4, <5>5 DEF QueuedOnce, Chunk
      <4>6. CASE rdpc[s] = "send" /\ m.data # "eof" /\ m.n = nread[s]
        <5>1. /\ Produced(s) + 1 = nread[s] /\ Produced(s)' = nread[s]
              /\ Produced(s) < nread[s]
          BY <1>7, <4>4, <4>6 DEF Produced
        <5>2. Chunk(rxq'[n + 1], s) /\ rxq'[n + 1].n = nread[s]
          BY <1>7, <3>1, <4>6 DEF Chunk
        <5>3. \A k \in Fetched(s) + 1 .. nread[s] :
                \E i \in 1 .. n + 1 : Chunk(rxq'[i], s) /\ rxq'[i].n = k
          <6>1. \A k \in Fetched(s) + 1 .. nread[s] :
                  k \in Fetched(s) + 1 .. Produced(s) \/ k = nread[s]
            BY <4>2, <4>4, <5>1
          <6>2. QED
            BY <3>2, <4>1, <4>3, <5>2, <6>1
        <5>4. \A i \in 1 .. n : Chunk(rxq'[i], s) => /\ rxq'[i].n \in Fetched(s) + 1 .. nread[s]
                                                     /\ rxq'[i].n < nread[s]
          <6>1. \A k \in Fetched(s) + 1 .. Produced(s) :
                  k \in Fetched(s) + 1 .. nread[s] /\ k < nread[s]
            BY <4>2, <4>4, <5>1
          <6>2. QED
            BY <4>1, <4>3, <6>1
        <5>5. nread[s] \in Fetched(s) + 1 .. nread[s] /\ Fetched(s) <= nread[s]
          BY <4>2, <4>3, <4>4, <5>1
        <5>6. \A i, j \in 1 .. n + 1 : Chunk(rxq'[i], s) /\ Chunk(rxq'[j], s) /\ i < j
                                         => rxq'[i].n < rxq'[j].n
          BY <3>2, <4>1, <4>3, <5>2, <5>4
        <5>7. \A i \in 1 .. n + 1 : Chunk(rxq'[i], s) => rxq'[i].n \in Fetched(s) + 1 .. nread[s]
          BY <3>2, <5>2, <5>4, <5>5
        <5>8. QED
          BY <3>1, <4>2, <4>3, <5>1, <5>3, <5>5, <5>6, <5>7 DEF QueuedOnce, Chunk
      <4>7. QED
        BY <1>7, <4>5, <4>6
    <3>7. Listed'
      BY <1>1, <1>3, <3>5, <3>6 DEF CInv, Listed
    <3>8. QED
      BY <1>2, <3>4, <3>7 DEF CInv
  <2>5. QED
    BY <2>2, <2>3, <2>4
<1>8. CASE RdSend(s)
  <2> DEFINE m == In(s, sent[s][nread[s]], nread[s])
  <2>1. sent[s] \in Seq(ChunkKind) /\ nread[s] \in Nat /\ nread[s] <= Len(sent[s]) /\ nread[s] > 0
    BY <1>8 DEF RdSend, IInv, TypeOK, ConnType, WorldType, InHand
  <2>2. sent[s][nread[s]] \in ChunkKind
    BY <2>1
  <2>3. m \in Inbound /\ m.sock = s /\ m.data # "eof" /\ m.n = nread[s]
    BY <2>1, <2>2, BoundAssumption DEF Inbound, In
  <2>4. ToServer(m) /\ rdpc[s] = "send" /\ nread' = nread /\ rdpc'[s] # "send"
    BY <1>8 DEF RdSend, IInv, TypeOK, ConnType
  <2> HIDE DEF m
  <2>5. QED
    BY <1>7, <2>3, <2>4
<1>9. CASE RdSendEof(s)
  <2> DEFINE m == In(s, "eof", 0)
  <2>1. m \in Inbound /\ m.sock = s /\ m.data = "eof"
    BY DEF Inbound, In
  <2>2. ToServer(m) /\ rdpc[s] = "eof" /\ nread' = nread /\ rdpc'[s] # "send"
    BY <1>9 DEF RdSendEof, IInv, TypeOK, ConnType
  <2> HIDE DEF m
  <2>3. QED
    BY <1>7, <2>1, <2>2
<1>10. QED
  BY <1>6, <1>8, <1>9 DEF RdTask

(* The Rx task takes the next chunk, or dies of it, or ends.                *)
LEMMA RxChunks == ASSUME IInv, SInv, RInv, CInv, NEW s \in Sock, RxTask(s) PROVE CInv'
<1>1. /\ UNCHANGED <<pc, cur, held, rxq, rdpc, nread, net, connections>>
      /\ rxpc[s] # "none"
      /\ \A t \in Sock : t # s => rxpc'[t] = rxpc[t] /\ heard'[t] = heard[t] /\ chan'[t] = chan[t]
  BY DEF RxTask, RxRecv, RxSendLine, RxSendEof, task, tables, world, IInv, TypeOK, ConnType,
     QueuesType
<1>2. \A t \in Sock : /\ Inbox(t)' <=> Inbox(t)
                      /\ Served(t)' <=> Served(t)
                      /\ Produced(t)' = Produced(t)
  BY <1>1 DEF Inbox, Served, Produced
<1>3. ASSUME \A k \in DOMAIN heard'[s] : heard'[s][k] = <<s, k>>,
             \A i \in DOMAIN chan'[s] :
               /\ chan'[s][i].data # "eof" => chan'[s][i].n = Len(heard'[s]) + i
               /\ chan'[s][i].data = "eof" => i = Len(chan'[s]),
             net[s] = "accepted",
             rxpc'[s] = "recv" => /\ rxpc[s] = "recv"
                                  /\ Passed(s)' = Passed(s)
      PROVE  CInv'
  <2>1. Handled'
    BY <1>1, <1>3 DEF CInv, Handled
  <2>2. Unread'
    BY <1>1, <1>2, <1>3 DEF CInv, Unread
  <2>3. ASSUME NEW t \in Sock, t # s, QueuedOnce(t) PROVE QueuedOnce(t)'
    BY <1>1, <1>2, <2>3, SameQueued
  <2>4. ASSUME QueuedOnce(s), rxpc'[s] = "recv" PROVE QueuedOnce(s)'
    <3>1. (InTask(s)' <=> InTask(s)) /\ Passed(s)' = Passed(s) /\ Produced(s)' = Produced(s)
      BY <1>1, <1>2, <1>3, <2>4 DEF InTask, Chunk
    <3>2. Fetched(s)' = Fetched(s)
      BY <3>1 DEF Fetched
    <3>3. QED
      BY <1>1, <2>4, <3>1, <3>2 DEF QueuedOnce, Chunk
  <2>5. Listed'
    BY <1>1, <1>2, <1>3, <2>3, <2>4 DEF CInv, Listed
  <2>6. QED
    BY <2>1, <2>2, <2>5 DEF CInv
<1>4. net[s] = "accepted"
  BY <1>1 DEF SInv, Unopened
<1>5. /\ heard \in [Sock -> Seq(Sock \X Nat)] /\ chan \in [Sock -> Seq(Inbound)]
      /\ rxpc \in [Sock -> {"none", "recv", "line", "eof", "done", "dead"}]
  BY DEF IInv, TypeOK, ConnType, QueuesType
<1>6. /\ \A k \in DOMAIN heard[s] : heard[s][k] = <<s, k>>
      /\ \A i \in DOMAIN chan[s] :
           /\ chan[s][i].data # "eof" => chan[s][i].n = Len(heard[s]) + i
           /\ chan[s][i].data = "eof" => i = Len(chan[s])
  BY DEF CInv, Handled
<1>7. CASE RxSendLine(s)
  <2>1. heard' = heard /\ chan' = chan /\ rxpc'[s] = "eof"
    BY <1>5, <1>7 DEF RxSendLine
  <2>2. QED
    BY <1>3, <1>4, <1>6, <2>1
<1>8. CASE RxSendEof(s)
  <2>1. heard' = heard /\ chan'[s] = <<>> /\ rxpc'[s] = "done"
    BY <1>5, <1>8 DEF RxSendEof
  <2>2. DOMAIN chan'[s] = {}
    BY <2>1
  <2>3. QED
    BY <1>3, <1>4, <1>6, <2>1, <2>2
<1>9. CASE RxRecv(s)
  <2> DEFINE m == Head(chan[s])
  <2>1. PICK n \in Nat : /\ DOMAIN chan[s] = 1 .. n + 1 /\ Len(chan[s]) = n + 1
                         /\ DOMAIN Tail(chan[s]) = 1 .. n /\ Len(Tail(chan[s])) = n
                         /\ \A i \in 1 .. n : Tail(chan[s])[i] = chan[s][i + 1]
                         /\ m = chan[s][1] /\ m \in Inbound
    <3>1. chan[s] \in Seq(Inbound) /\ chan[s] # <<>>
      BY <1>5, <1>9 DEF RxRecv
    <3>2. /\ Len(chan[s]) \in Nat \ {0} /\ DOMAIN chan[s] = 1 .. Len(chan[s])
          /\ DOMAIN Tail(chan[s]) = 1 .. Len(chan[s]) - 1
          /\ Len(Tail(chan[s])) = Len(chan[s]) - 1
          /\ \A i \in 1 .. Len(chan[s]) - 1 : Tail(chan[s])[i] = chan[s][i + 1]
          /\ m = chan[s][1] /\ m \in Inbound
      BY <3>1
    <3>3. Len(chan[s]) - 1 \in Nat /\ Len(chan[s]) = (Len(chan[s]) - 1) + 1
      BY <3>2
    <3>4. QED
      BY <3>2, <3>3
  <2>2. /\ 1 \in 1 .. n + 1 /\ \A i \in 1 .. n : i + 1 \in 1 .. n + 1
        /\ \A i \in 1 .. n + 1 : i # 1 => i - 1 \in 1 .. n /\ (i - 1) + 1 = i
    OBVIOUS
  <2>3. m.data \in {"text", "cut", "eof"} /\ m.sock = s
    <3>1. m.sock = s
      BY <2>1, <2>2 DEF RInv, OwnChunks
    <3>2. QED
      BY <2>1, <3>1, BoundAssumption DEF Inbound
  <2>4. /\ rxpc[s] = "recv"
        /\ rxpc'[s] = CASE m.data = "eof" -> "line" [] m.data = "cut" -> "dead" [] OTHER -> "recv"
        /\ heard'[s] = IF m.data = "text" THEN Append(heard[s], <<m.sock, m.n>>) ELSE heard[s]
        /\ chan'[s] = IF m.data = "cut" THEN <<>> ELSE Tail(chan[s])
    BY <1>5, <1>9 DEF RxRecv
  <2> HIDE DEF m
  <2>5. Len(heard[s]) \in Nat
    BY <1>5
  <2>6. CASE m.data = "cut"
    <3>1. heard'[s] = heard[s] /\ chan'[s] = <<>> /\ rxpc'[s] = "dead"
      BY <2>4, <2>6
    <3>2. DOMAIN chan'[s] = {}
      BY <3>1
    <3>3. QED
      BY <1>3, <1>4, <1>6, <3>1, <3>2
  <2>7. CASE m.data = "eof"
    <3>1. heard'[s] = heard[s] /\ chan'[s] = Tail(chan[s]) /\ rxpc'[s] = "line"
      BY <2>4, <2>7
    <3>2. n = 0
      <4>1. 1 = n + 1
        BY <1>6, <2>1, <2>2, <2>7
      <4>2. QED
        BY <4>1
    <3>3. DOMAIN chan'[s] = {}
      BY <2>1, <3>1, <3>2
    <3>4. QED
      BY <1>3, <1>4, <1>6, <3>1, <3>3
  <2>8. CASE m.data = "text"
    <3>1. /\ heard'[s] = Append(heard[s], <<s, m.n>>) /\ chan'[s] = Tail(chan[s])
          /\ m.n = Len(heard[s]) + 1
      <4>1. m.n = Len(heard[s]) + 1
        BY <1>6, <2>1, <2>2, <2>8
      <4>2. QED
        BY <2>3, <2>4, <2>8, <4>1
    <3>2. /\ Len(heard'[s]) = Len(heard[s]) + 1 /\ DOMAIN heard'[s] = 1 .. Len(heard[s]) + 1
          /\ \A k \in 1 .. Len(heard[s]) : heard'[s][k] = heard[s][k]
          /\ heard'[s][Len(heard[s]) + 1] = <<s, m.n>>
          /\ DOMAIN heard[s] = 1 .. Len(heard[s])
      <4>1. heard[s] \in Seq(Sock \X Nat) /\ <<s, m.n>> \in Sock \X Nat
        BY <1>5, <2>1 DEF Inbound
      <4>2. QED
        BY <3>1, <4>1
    <3>3. \A k \in DOMAIN heard'[s] : heard'[s][k] = <<s, k>>
      <4>1. \A k \in 1 .. Len(heard[s]) + 1 : k \in 1 .. Len(heard[s]) \/ k = Len(heard[s]) + 1
        BY <2>5
      <4>2. QED
        BY <1>6, <3>1, <3>2, <4>1
    <3>4. ASSUME NEW i \in DOMAIN chan'[s]
          PROVE  /\ chan'[s][i].data # "eof" => chan'[s][i].n = Len(heard'[s]) + i
                 /\ chan'[s][i].data = "eof" => i = Len(chan'[s])
      <4>1. i \in 1 .. n /\ chan'[s][i] = chan[s][i + 1] /\ i + 1 \in DOMAIN chan[s]
        BY <2>1, <2>2, <3>1, <3>4
      <4>2. /\ chan'[s][i].data # "eof" => chan'[s][i].n = Len(heard[s]) + (i + 1)
            /\ chan'[s][i].data = "eof" => i + 1 = n + 1
        BY <1>6, <2>1, <4>1
      <4>3. /\ \A k \in Nat : k + (i + 1) = (k + 1) + i
            /\ i + 1 = n + 1 => i = n
        <5>1. i \in 1 .. n /\ n \in Nat
          BY <2>1, <4>1
        <5>2. i \in Int
          BY <5>1
        <5>3. \A k \in Nat : k + (i + 1) = (k + 1) + i
          BY <5>2
        <5>4. QED
          BY <5>1, <5>2, <5>3
      <4>4. Len(chan'[s]) = n
        BY <2>1, <3>1
      <4>5. Len(heard'[s]) = Len(heard[s]) + 1
        BY <3>2
      <4>6. QED
        BY <2>5, <4>1, <4>2, <4>3, <4>4, <4>5
    <3>5. EofIn(chan[s], s)' <=> EofIn(chan[s], s)
      <4>1. EofIn(chan[s], s)' => EofIn(chan[s], s)
        BY <2>1, <2>2, <3>1 DEF EofIn
      <4>2. ASSUME EofIn(chan[s], s) PROVE EofIn(chan[s], s)'
        <5>1. PICK i \in 1 .. n + 1 : chan[s][i].sock = s /\ chan[s][i].data = "eof"
          BY <2>1, <4>2 DEF EofIn
        <5>2. i # 1
          BY <2>1, <2>8, <5>1
        <5>3. i - 1 \in DOMAIN chan'[s] /\ chan'[s][i - 1] = chan[s][i]
          BY <2>1, <2>2, <3>1, <5>1, <5>2
        <5>4. QED
          BY <5>1, <5>3 DEF EofIn
      <4>3. QED
        BY <4>1, <4>2
    <3>6. Passed(s)' = Passed(s)
      <4>1. \A h \in Nat : \A d \in {0, 1} : (h + 1) + n - d = h + (n + 1) - d
        OBVIOUS
      <4>2. Len(chan'[s]) = n /\ Len(chan[s]) = n + 1 /\ Len(heard'[s]) = Len(heard[s]) + 1
        BY <2>1, <3>1, <3>2
      <4>3. Passed(s) = Len(heard[s]) + (n + 1) - (IF EofIn(chan[s], s) THEN 1 ELSE 0)
        BY <4>2 DEF Passed
      <4>4. Passed(s)' = (Len(heard[s]) + 1) + n - (IF EofIn(chan'[s], s) THEN 1 ELSE 0)
        BY <4>2 DEF Passed
      <4>5. CASE EofIn(chan[s], s)
        BY <2>5, <3>5, <4>1, <4>3, <4>4, <4>5
      <4>6. CASE ~EofIn(chan[s], s)
        BY <2>5, <3>5, <4>1, <4>3, <4>4, <4>6
      <4>7. QED
        BY <4>5, <4>6
    <3>7. QED
      BY <1>3, <1>4, <2>4, <3>3, <3>4, <3>6
  <2>9. QED
    BY <2>3, <2>6, <2>7, <2>8
<1>10. QED
  BY <1>7, <1>8, <1>9 DEF RxTask

(* A session that begins has nothing in flight.                             *)
LEMMA AcceptChunks ==
  ASSUME IInv, SInv, CInv, NEW s \in Sock, SrvAccept(s) PROVE CInv'
<1>1. /\ UNCHANGED <<held, rxq, chan, heard, nread, connections>>
      /\ pc = "select" /\ pc' = "dns" /\ cur' = s /\ net[s] = "pending"
      /\ net' = [net EXCEPT ![s] = "accepted"]
      /\ rdpc' = [rdpc EXCEPT ![s] = "run"] /\ rxpc' = [rxpc EXCEPT ![s] = "recv"]
  BY DEF SrvAccept
<1>2. /\ rdpc'[s] = "run"
      /\ \A t \in Sock : t # s => /\ rdpc'[t] = rdpc[t] /\ rxpc'[t] = rxpc[t]
                                  /\ net'[t] = net[t]
  BY <1>1 DEF IInv, TypeOK, ConnType, WorldType
<1>3. \A t \in Sock : Inbox(t)' <=> Inbox(t)
  BY <1>1 DEF Inbox
<1>4. Handled'
  BY <1>1 DEF CInv, Handled
<1>5. Unread'
  <2>1. \A t \in Sock : net'[t] # "accepted" => net[t] # "accepted"
    BY <1>1, <1>2
  <2>2. QED
    BY <1>1, <1>3, <2>1 DEF CInv, Unread
<1>6. QueuedOnce(s)'
  <2>1. heard'[s] = <<>> /\ chan'[s] = <<>> /\ nread'[s] = 0 /\ ~Inbox(s)
    BY <1>1 DEF CInv, Unread, SInv, Unopened
  <2>2. DOMAIN chan'[s] = {}
    BY <2>1
  <2>3. ~EofIn(chan[s], s)'
    BY <2>2 DEF EofIn
  <2>4. /\ \A i \in DOMAIN rxq' : ~Chunk(rxq'[i], s)
        /\ \A i \in DOMAIN held' : ~Chunk(held'[i], s)
    BY <1>1, <2>1 DEF Inbox, Chunk
  <2>5. ~InTask(s)'
    BY <2>4 DEF InTask, Chunk
  <2>6. Passed(s)' = 0
    BY <2>1, <2>3 DEF Passed
  <2>7. Fetched(s)' = 0
    BY <2>5, <2>6 DEF Fetched
  <2>8. Produced(s)' = 0
    BY <1>2, <2>1 DEF Produced
  <2>9. QED
    BY <2>4, <2>7, <2>8 DEF QueuedOnce, Chunk
<1>7. ASSUME NEW t \in Sock, t # s, Served(t)', rxpc'[t] = "recv" PROVE QueuedOnce(t)'
  <2>1. Served(t) /\ rxpc[t] = "recv" /\ Produced(t)' = Produced(t)
    BY <1>1, <1>2, <1>7 DEF Served, Produced
  <2>2. QED
    BY <1>1, <2>1, SameQueued DEF CInv, Listed
<1>8. QED
  BY <1>4, <1>5, <1>6, <1>7 DEF CInv, Listed

(* The task takes the oldest message: the next chunk of its session.        *)
LEMMA ReceiveChunks == ASSUME IInv, SInv, CInv, SrvReceive PROVE CInv'
<1>1. /\ pc = "select" /\ pc' = "forward" /\ rxq # <<>>
      /\ UNCHANGED <<cur, chan, heard, nread, rdpc, rxpc, net, connections>>
      /\ held' = <<Head(rxq)>> /\ rxq' = Tail(rxq)
  BY DEF SrvReceive, tables, conn, world
<1>2. PICK n \in Nat : /\ DOMAIN rxq = 1 .. n + 1 /\ DOMAIN rxq' = 1 .. n
                       /\ \A i \in 1 .. n : rxq'[i] = rxq[i + 1]
                       /\ Head(rxq) = rxq[1]
  <2>1. rxq \in Seq(Inbound) /\ Len(rxq) \in Nat \ {0}
    BY <1>1 DEF IInv, TypeOK, QueuesType
  <2>2. /\ DOMAIN rxq = 1 .. Len(rxq) /\ Head(rxq) = rxq[1]
        /\ DOMAIN Tail(rxq) = 1 .. Len(rxq) - 1
        /\ \A i \in 1 .. Len(rxq) - 1 : Tail(rxq)[i] = rxq[i + 1]
    BY <1>1, <2>1
  <2>3. Len(rxq) - 1 \in Nat /\ Len(rxq) = (Len(rxq) - 1) + 1
    BY <2>1
  <2>4. QED
    BY <1>1, <2>2, <2>3
<1>3. DOMAIN held' = {1} /\ held'[1] = rxq[1]
  BY <1>1, <1>2
<1>4. /\ \A i \in 1 .. n : i + 1 \in 1 .. n + 1 /\ 1 < i + 1
      /\ \A i, j \in 1 .. n : i < j => i + 1 < j + 1
      /\ 1 \in 1 .. n + 1
      /\ \A i \in 1 .. n + 1 : i # 1 => 1 < i /\ i - 1 \in 1 .. n /\ (i - 1) + 1 = i
  BY <1>2
<1>5. DOMAIN held = {}
  <2>1. held = <<>>
    BY <1>1 DEF SInv, Idle
  <2>2. QED
    BY <2>1
<1>6. \A t \in Sock : Inbox(t)' => Inbox(t)
  BY <1>2, <1>3, <1>4 DEF Inbox
<1>7. Handled' /\ Unread'
  BY <1>1, <1>3, <1>6 DEF CInv, Handled, Unread
<1>8. ASSUME NEW t \in Sock, QueuedOnce(t) PROVE QueuedOnce(t)'
  <2>1. Passed(t)' = Passed(t) /\ Produced(t)' = Produced(t)
    <3>1. EofIn(chan[t], t)' <=> EofIn(chan[t], t)
      BY <1>1 DEF EofIn
    <3>2. QED
      BY <1>1, <3>1 DEF Passed, Produced
  <2>2. Passed(t) \in Int /\ Produced(t) \in Int /\ Fetched(t) = Passed(t)
    <3>1. ~InTask(t)
      BY <1>5 DEF InTask
    <3>2. QED
      BY <3>1, Positions DEF Fetched
  <2>3. /\ Passed(t) <= Produced(t)
        /\ \A i \in 1 .. n + 1 : Chunk(rxq[i], t) => rxq[i].n \in Passed(t) + 1 .. Produced(t)
        /\ \A i, j \in 1 .. n + 1 : Chunk(rxq[i], t) /\ Chunk(rxq[j], t) /\ i < j
                                      => rxq[i].n < rxq[j].n
        /\ \A k \in Passed(t) + 1 .. Produced(t) :
             \E i \in 1 .. n + 1 : Chunk(rxq[i], t) /\ rxq[i].n = k
    BY <1>2, <1>8, <2>2 DEF QueuedOnce
  <2>4. \A i, j \in 1 .. n : Chunk(rxq'[i], t) /\ Chunk(rxq'[j], t) /\ i < j
                               => rxq'[i].n < rxq'[j].n
    BY <1>2, <1>4, <2>3
  <2>5. CASE Chunk(rxq[1], t)
    <3>1. InTask(t)'
      BY <1>3, <2>5 DEF InTask, Chunk
    <3>2. Fetched(t)' = Passed(t) + 1
      BY <2>1, <3>1 DEF Fetched
    <3>3. Passed(t) + 1 \in Passed(t) + 1 .. Produced(t)
      BY <1>4, <2>2, <2>3, <2>5
    <3>4. rxq[1].n = Passed(t) + 1
      <4>1. PICK i \in 1 .. n + 1 : Chunk(rxq[i], t) /\ rxq[i].n = Passed(t) + 1
        BY <2>3, <3>3
      <4>2. rxq[1].n \in Passed(t) + 1 .. Produced(t)
        BY <1>4, <2>3, <2>5
      <4>3. i # 1 => rxq[1].n < Passed(t) + 1
        BY <1>4, <2>3, <2>5, <4>1
      <4>4. QED
        BY <2>2, <4>1, <4>2, <4>3
    <3>5. \A i \in DOMAIN held' : Chunk(held'[i], t) => held'[i].n = Passed(t) + 1
      BY <1>3, <3>4
    <3>6. ASSUME NEW i \in 1 .. n, Chunk(rxq'[i], t)
          PROVE  rxq'[i].n \in Passed(t) + 1 + 1 .. Produced(t)
      <4>1. rxq[i + 1].n \in Passed(t) + 1 .. Produced(t) /\ rxq[1].n < rxq[i + 1].n
        BY <1>2, <1>4, <2>3, <2>5, <3>6
      <4>2. rxq[i + 1].n \in Passed(t) + 1 + 1 .. Produced(t)
        BY <2>2, <3>4, <4>1
      <4>3. QED
        BY <1>2, <4>2
    <3>7. ASSUME NEW k \in Passed(t) + 1 + 1 .. Produced(t)
          PROVE  \E i \in 1 .. n : Chunk(rxq'[i], t) /\ rxq'[i].n = k
      <4>1. k \in Passed(t) + 1 .. Produced(t) /\ k # Passed(t) + 1
        BY <2>2, <3>7
      <4>2. PICK i \in 1 .. n + 1 : Chunk(rxq[i], t) /\ rxq[i].n = k
        BY <2>3, <4>1
      <4>3. i # 1
        BY <3>4, <4>1, <4>2
      <4>4. i - 1 \in 1 .. n /\ rxq'[i - 1] = rxq[i]
        BY <1>2, <1>4, <4>2, <4>3
      <4>5. QED
        BY <4>2, <4>4
    <3>8. Passed(t) + 1 <= Produced(t)
      BY <2>2, <3>3
    <3>9. QED
      BY <1>2, <2>1, <2>4, <3>2, <3>5, <3>6, <3>7, <3>8 DEF QueuedOnce, Chunk
  <2>6. CASE ~Chunk(rxq[1], t)
    <3>1. ~InTask(t)' /\ \A i \in DOMAIN held' : ~Chunk(held'[i], t)
      BY <1>3, <2>6 DEF InTask, Chunk
    <3>2. Fetched(t)' = Passed(t)
      BY <2>1, <2>2, <3>1 DEF Fetched
    <3>3. \A i \in 1 .. n : Chunk(rxq'[i], t) => rxq'[i].n \in Passed(t) + 1 .. Produced(t)
      BY <1>2, <1>4, <2>3
    <3>4. ASSUME NEW k \in Passed(t) + 1 .. Produced(t)
          PROVE  \E i \in 1 .. n : Chunk(rxq'[i], t) /\ rxq'[i].n = k
      <4>1. PICK i \in 1 .. n + 1 : Chunk(rxq[i], t) /\ rxq[i].n = k
        BY <2>3
      <4>2. i # 1
        BY <2>6, <4>1
      <4>3. i - 1 \in 1 .. n /\ rxq'[i - 1] = rxq[i]
        BY <1>2, <1>4, <4>1, <4>2
      <4>4. QED
        BY <4>1, <4>3
    <3>5. QED
      BY <1>2, <2>1, <2>3, <2>4, <3>1, <3>2, <3>3, <3>4 DEF QueuedOnce, Chunk
  <2>7. QED
    BY <2>5, <2>6
<1>9. \A t \in Sock : Served(t)' => Served(t)
  BY <1>1 DEF Served
<1>10. QED
  BY <1>1, <1>7, <1>8, <1>9 DEF CInv, Listed

(* The held chunk goes to the end of its session's queue; it is dropped     *)
(* only if the session is not served any more.                              *)
LEMMA ForwardChunks == ASSUME IInv, RInv, CInv, SrvForward PROVE CInv'
<1>1. /\ pc = "forward" /\ pc' = "select" /\ held' = <<>>
      /\ UNCHANGED <<cur, rxq, heard, nread, rdpc, rxpc, net, connections>>
  BY DEF SrvForward, tables, conn, world
<1>2. PICK m \in Inbound : /\ DOMAIN held = {1} /\ m = held[1] /\ m = Head(held)
                           /\ m.sock \in Sock
  <2>1. held \in Seq(Inbound) /\ held # <<>>
    BY <1>1 DEF IInv, TypeOK, TaskType, InHand
  <2>2. 1 \in DOMAIN held /\ held[1] = Head(held) /\ held[1] \in Inbound
    BY <2>1
  <2>3. DOMAIN held = {1}
    BY <2>2 DEF CInv, Unread
  <2>4. QED
    BY <2>2, <2>3 DEF Inbound
<1>3. PICK s \in Sock : s = m.sock
  BY <1>2
<1>4. \/ ~Listening(AddrOf[s]) /\ chan' = chan
      \/ /\ Listening(AddrOf[s])
         /\ chan' = [chan EXCEPT ![connections[AddrOf[s]]] = Append(@, m)]
  BY <1>2, <1>3 DEF SrvForward
<1>5. Inbox(s)
  BY <1>2, <1>3 DEF Inbox
<1> USE <1>2, <1>3
<1>6. DOMAIN held' = {}
  BY <1>1
<1>7. \A t \in Sock : Inbox(t)' => Inbox(t)
  BY <1>1, <1>6 DEF Inbox
<1>8. Unread'
  BY <1>1, <1>6, <1>7 DEF CInv, Unread
<1>9. \A t \in Sock : /\ Served(t)' => connections[AddrOf[t]] = t
                      /\ Produced(t)' = Produced(t)
                      /\ ~InTask(t)'
  BY <1>1, <1>6 DEF Served, Produced, InTask
<1>10. ASSUME NEW t \in Sock, QueuedOnce(t), Fetched(t)' = Fetched(t) PROVE QueuedOnce(t)'
  BY <1>1, <1>6, <1>9, <1>10 DEF QueuedOnce, Chunk
<1>11. ASSUME NEW t \in Sock, t # s, chan'[t] = chan[t] PROVE Fetched(t)' = Fetched(t)
  <2>1. EofIn(chan[t], t)' <=> EofIn(chan[t], t)
    BY <1>11 DEF EofIn
  <2>2. ~InTask(t)
    BY <1>11 DEF InTask, Chunk
  <2>3. Passed(t)' = Passed(t)
    BY <1>1, <1>11, <2>1 DEF Passed
  <2>4. QED
    BY <1>9, <2>2, <2>3 DEF Fetched
<1>12. rxpc[s] \notin {"line", "eof", "done"} /\ ~EofIn(chan[s], s)
  BY <1>5 DEF RInv, Ends
<1>13. CASE ~Listening(AddrOf[s]) /\ chan' = chan
  <2>1. Handled'
    BY <1>1, <1>13 DEF CInv, Handled
  <2>2. ~(Served(s)' /\ rxpc'[s] = "recv")
    BY <1>1, <1>9, <1>13, SockAssumption DEF Listening
  <2>3. \A t \in Sock : Served(t)' => Served(t)
    BY <1>9 DEF Served
  <2>4. \A t \in Sock : Served(t)' /\ rxpc'[t] = "recv" => QueuedOnce(t)'
    BY <1>1, <1>10, <1>11, <1>13, <2>2, <2>3 DEF CInv, Listed
  <2>5. QED
    BY <1>8, <2>1, <2>4 DEF CInv, Listed
<1>14. CASE /\ Listening(AddrOf[s])
            /\ chan' = [chan EXCEPT ![connections[AddrOf[s]]] = Append(@, m)]
  <2>1. connections[AddrOf[s]] = s /\ rxpc[s] = "recv" /\ Served(s)
    <3>1. Reading(s)
      BY <1>5 DEF Reading
    <3>2. connections[AddrOf[s]] = s
      BY <1>14, <3>1 DEF RInv, Own, Listening
    <3>3. QED
      BY <1>12, <1>14, <3>2 DEF Listening, Served
  <2>2. QueuedOnce(s)
    BY <2>1 DEF CInv, Listed
  <2>3. /\ \A t \in Sock : t # s => chan'[t] = chan[t]
        /\ chan'[s] = Append(chan[s], m) /\ chan[s] \in Seq(Inbound)
        /\ Len(heard[s]) \in Nat
    BY <1>14, <2>1 DEF IInv, TypeOK, QueuesType, ConnType
  <2>4. PICK n \in Nat : /\ Len(chan[s]) = n /\ Len(chan'[s]) = n + 1
                         /\ DOMAIN chan[s] = 1 .. n /\ DOMAIN chan'[s] = 1 .. n + 1
                         /\ \A i \in 1 .. n : chan'[s][i] = chan[s][i]
                         /\ chan'[s][n + 1] = m
    <3>1. /\ Len(chan[s]) \in Nat /\ DOMAIN chan[s] = 1 .. Len(chan[s])
          /\ Len(Append(chan[s], m)) = Len(chan[s]) + 1
          /\ DOMAIN Append(chan[s], m) = 1 .. Len(chan[s]) + 1
          /\ \A i \in 1 .. Len(chan[s]) : Append(chan[s], m)[i] = chan[s][i]
          /\ Append(chan[s], m)[Len(chan[s]) + 1] = m
      BY <2>3
    <3>2. QED
      BY <2>3, <3>1
  <2>5. /\ \A i \in 1 .. n + 1 : i \in 1 .. n \/ i = n + 1
        /\ n + 1 \in 1 .. n + 1 /\ \A i \in 1 .. n : i \in 1 .. n + 1
    BY <2>4
  <2>6. PICK h \in Nat : Len(heard[s]) = h /\ Len(heard'[s]) = h
    BY <1>1, <2>3
  <2>7. Passed(s) = h + n
    BY <1>12, <2>4, <2>6 DEF Passed
  <2>8. Fetched(s)' = Fetched(s)
    <3>1. EofIn(chan[s], s)' <=> m.data = "eof"
      BY <1>12, <2>4, <2>5 DEF EofIn
    <3>2. CASE m.data = "eof"
      <4>1. Passed(s)' = h + (n + 1) - 1
        BY <2>4, <2>6, <3>1, <3>2 DEF Passed
      <4>2. h + (n + 1) - 1 = h + n
        BY <2>4, <2>6
      <4>3. ~InTask(s) /\ ~InTask(s)'
        BY <1>9, <3>2 DEF InTask, Chunk
      <4>4. QED
        BY <2>7, <4>1, <4>2, <4>3 DEF Fetched
    <3>3. CASE m.data # "eof"
      <4>1. Passed(s)' = h + (n + 1)
        BY <2>4, <2>6, <3>1, <3>3 DEF Passed
      <4>2. InTask(s) /\ ~InTask(s)'
        BY <1>9, <3>3 DEF InTask, Chunk
      <4>3. Fetched(s)' = h + (n + 1) /\ Fetched(s) = (h + n) + 1
        <5>1. h + (n + 1) + 0 = h + (n + 1)
          BY <2>4, <2>6
        <5>2. QED
          BY <2>7, <4>1, <4>2, <5>1 DEF Fetched
      <4>4. QED
        BY <2>4, <2>6, <4>3
    <3>4. QED
      BY <3>2, <3>3
  <2>9. m.data # "eof" => m.n = Len(heard[s]) + (n + 1)
    <3>1. m.data # "eof" => m.n = Passed(s) + 1
      BY <2>2 DEF QueuedOnce, Chunk
    <3>2. (h + n) + 1 = h + (n + 1)
      BY <2>4, <2>6
    <3>3. QED
      BY <2>6, <2>7, <3>1, <3>2
  <2>10. Handled'
    <3>1. ASSUME NEW t \in Sock, t # s
          PROVE  \A i \in DOMAIN chan'[t] :
                   /\ chan'[t][i].data # "eof" => chan'[t][i].n = Len(heard'[t]) + i
                   /\ chan'[t][i].data = "eof" => i = Len(chan'[t])
      BY <1>1, <2>3, <3>1 DEF CInv, Handled
    <3>2. ASSUME NEW i \in 1 .. n
          PROVE  /\ chan'[s][i].data # "eof" => chan'[s][i].n = Len(heard[s]) + i
                 /\ chan'[s][i].data # "eof"
      <4>1. chan[s][i].sock = s
        BY <2>4 DEF RInv, OwnChunks
      <4>2. chan[s][i].data # "eof"
        BY <1>12, <2>4, <4>1 DEF EofIn
      <4>3. chan[s][i].n = Len(heard[s]) + i
        BY <2>4, <4>2 DEF CInv, Handled
      <4>4. QED
        BY <2>4, <4>2, <4>3
    <3>3. \A i \in DOMAIN chan'[s] :
            /\ chan'[s][i].data # "eof" => chan'[s][i].n = Len(heard[s]) + i
            /\ chan'[s][i].data = "eof" => i = Len(chan'[s])
      BY <2>4, <2>5, <2>9, <3>2
    <3>4. QED
      BY <1>1, <3>1, <3>3 DEF CInv, Handled
  <2>11. \A t \in Sock : Served(t)' => Served(t)
    BY <1>9 DEF Served
  <2>12. \A t \in Sock : Served(t)' /\ rxpc'[t] = "recv" => QueuedOnce(t)'
    BY <1>1, <1>10, <1>11, <2>2, <2>3, <2>8, <2>11 DEF CInv, Listed
  <2>13. QED
    BY <1>8, <2>10, <2>12 DEF CInv, Listed
<1>15. QED
  BY <1>13, <1>14, <1>4

LEMMA InitChunks == Init => CInv
<1> SUFFICES ASSUME Init PROVE CInv
  OBVIOUS
<1>1. /\ DOMAIN rxq = {} /\ DOMAIN held = {}
      /\ \A t \in Sock : DOMAIN chan[t] = {} /\ DOMAIN heard[t] = {}
  BY DEF Init
<1>2. Handled
  BY <1>1 DEF Handled
<1>3. Unread
  BY <1>1 DEF Unread, Inbox, Init
<1>4. \A t \in Sock : rxpc[t] # "recv"
  BY DEF Init
<1>5. QED
  BY <1>2, <1>3, <1>4 DEF CInv, Listed

LEMMA NextChunks == ASSUME IInv, SInv, RInv, CInv, [Next]_vars PROVE CInv'
<1>1. CASE Signal \/ (\E s \in Sock : Client(s)) \/ UNCHANGED vars
  BY <1>1, OutsideChunks
<1>2. CASE \E s \in Sock : RdTask(s) \/ RxTask(s)
  BY <1>2, RdChunks, RxChunks
<1>3. CASE \E s \in Sock : SrvAccept(s)
  BY <1>3, AcceptChunks
<1>4. CASE SrvLagged \/ SrvAcceptError \/ SrvStartError
  <2>1. Panic
    BY <1>4 DEF SrvLagged, SrvAcceptError, SrvStartError
  <2>2. /\ DropSessions /\ rxq' = <<>> /\ held' = <<>> /\ pc' = "dead"
        /\ UNCHANGED chan /\ UNCHANGED conn
    BY <2>1 DEF Panic
  <2>3. QED
    BY <2>2, DropChunks
<1>5. CASE SrvReconfSwap
  <2>1. pc' = "select" /\ DropSessions /\ UNCHANGED <<held, rxq, chan>> /\ UNCHANGED conn
    BY <1>5 DEF SrvReconfSwap
  <2>2. QED
    BY <2>1, DropChunks
<1>6. CASE SrvSignal \/ SrvByeEof \/ (\E s \in Sock : SrvByeLine(s)) \/ SrvStopClose
           \/ SrvFinish \/ SrvGreet \/ SrvDnsDone \/ SrvSend
  BY <1>6, QuietSrvChunks
<1>7. CASE SrvReceive \/ SrvForward
  BY <1>7, ReceiveChunks, ForwardChunks
<1>8. QED
  BY <1>1, <1>2, <1>3, <1>4, <1>5, <1>6, <1>7 DEF Next, SrvTask, SrvCommitted

(* f is x, y and z put together.                                            *)
Spliced(f, x, y, z) ==
  /\ DOMAIN f = 1 .. Len(x) + Len(y) + Len(z)
  /\ \A i \in DOMAIN x : f[i] = x[i]
  /\ \A i \in DOMAIN y : f[Len(x) + i] = y[i]
  /\ \A i \in DOMAIN z : f[Len(x) + Len(y) + i] = z[i]
  /\ \A i \in DOMAIN f : \/ i \in DOMAIN x
                         \/ \E j \in DOMAIN y : i = Len(x) + j
                         \/ \E j \in DOMAIN z : i = Len(x) + Len(y) + j

LEMMA Joined ==
  ASSUME NEW x \in Seq(Inbound), NEW y \in Seq(Inbound), NEW z \in Seq(Inbound)
  PROVE  Spliced(x \o y \o z, x, y, z)
<1>1. PICK w \in Seq(Inbound) : w = x \o y
  <2>1. x \o y \in Seq(Inbound)
    OBVIOUS
  <2>2. QED
    BY <2>1, Zenon
<1>2. /\ Len(x) \in Nat /\ Len(y) \in Nat /\ Len(z) \in Nat
      /\ DOMAIN x = 1 .. Len(x) /\ DOMAIN y = 1 .. Len(y) /\ DOMAIN z = 1 .. Len(z)
  OBVIOUS
<1>3. /\ Len(w) = Len(x) + Len(y) /\ DOMAIN w = 1 .. Len(x) + Len(y)
      /\ \A i \in 1 .. Len(x) : w[i] = x[i]
      /\ \A i \in 1 .. Len(y) : w[Len(x) + i] = y[i]
  BY <1>1
<1>4. /\ DOMAIN (w \o z) = 1 .. Len(w) + Len(z)
      /\ \A i \in 1 .. Len(w) : (w \o z)[i] = w[i]
      /\ \A i \in 1 .. Len(z) : (w \o z)[Len(w) + i] = z[i]
  BY <1>1
<1>5. /\ \A i \in 1 .. Len(x) : i \in 1 .. Len(x) + Len(y)
      /\ \A i \in 1 .. Len(y) : Len(x) + i \in 1 .. Len(x) + Len(y)
  BY <1>2
<1>6. ASSUME NEW i \in 1 .. Len(x) + Len(y) + Len(z)
      PROVE  \/ i \in 1 .. Len(x)
             \/ \E j \in 1 .. Len(y) : i = Len(x) + j
             \/ \E j \in 1 .. Len(z) : i = Len(x) + Len(y) + j
  <2>1. CASE i <= Len(x)
    BY <1>2, <2>1
  <2>2. CASE i > Len(x) /\ i <= Len(x) + Len(y)
    <3>1. i - Len(x) \in 1 .. Len(y) /\ i = Len(x) + (i - Len(x))
      BY <1>2, <2>2
    <3>2. QED
      BY <3>1
  <2>3. CASE i > Len(x) + Len(y)
    <3>1. /\ i - (Len(x) + Len(y)) \in 1 .. Len(z)
          /\ i = Len(x) + Len(y) + (i - (Len(x) + Len(y)))
      BY <1>2, <2>3
    <3>2. QED
      BY <3>1
  <2>4. QED
    BY <1>2, <2>1, <2>2, <2>3
<1>7. QED
  BY <1>1, <1>2, <1>3, <1>4, <1>5, <1>6 DEF Spliced

(* What the queues hold of a session's chunks, put together.                *)
LEMMA PutTogether ==
  ASSUME IInv, RInv, CInv, NEW s \in Sock, QueuedOnce(s)
  PROVE  /\ Len(heard[s]) <= Produced(s)
         /\ {InFlight(s)[i].n : i \in Chunks(s)} = Len(heard[s]) + 1 .. Produced(s)
         /\ \A i, j \in Chunks(s) : i < j => InFlight(s)[i].n < InFlight(s)[j].n
<1>1. chan[s] \in Seq(Inbound) /\ held \in Seq(Inbound) /\ rxq \in Seq(Inbound)
  BY DEF IInv, TypeOK, TaskType, QueuesType
<1>2. PICK f : f = InFlight(s)
  OBVIOUS
<1>3. PICK h \in Nat, p \in Int, t \in Int, r \in Int :
        h = Len(heard[s]) /\ p = Passed(s) /\ t = Fetched(s) /\ r = Produced(s)
  <2>1. heard[s] \in Seq(Sock \X Nat)
    BY DEF IInv, TypeOK, ConnType
  <2>2. Len(heard[s]) \in Nat
    BY <2>1
  <2>3. QED
    BY <2>2, Positions
<1>4. PICK c \in Nat, d \in Nat, q \in Nat :
        /\ Len(chan[s]) = c /\ Len(held) = d /\ Len(rxq) = q
        /\ DOMAIN chan[s] = 1 .. c /\ DOMAIN held = 1 .. d /\ DOMAIN rxq = 1 .. q
  <2>1. /\ Len(chan[s]) \in Nat /\ Len(held) \in Nat /\ Len(rxq) \in Nat
        /\ DOMAIN chan[s] = 1 .. Len(chan[s]) /\ DOMAIN held = 1 .. Len(held)
        /\ DOMAIN rxq = 1 .. Len(rxq)
    BY <1>1
  <2>2. QED
    BY <2>1
<1>5. Spliced(f, chan[s], held, rxq)
  BY <1>1, <1>2, Joined DEF InFlight
<1>6. /\ DOMAIN f = 1 .. c + d + q
      /\ \A i \in 1 .. c : f[i] = chan[s][i]
      /\ \A i \in 1 .. d : f[c + i] = held[i]
      /\ \A i \in 1 .. q : f[c + d + i] = rxq[i]
      /\ \A i \in DOMAIN f : \/ i \in 1 .. c
                             \/ \E j \in 1 .. d : i = c + j
                             \/ \E j \in 1 .. q : i = c + d + j
  BY <1>4, <1>5 DEF Spliced
<1>7. PICK C : C = Chunks(s)
  OBVIOUS
<1>8. /\ \A i \in 1 .. c : i \in C <=> chan[s][i].data # "eof"
      /\ \A i \in 1 .. d : c + i \in C <=> Chunk(held[i], s)
      /\ \A i \in 1 .. q : c + d + i \in C <=> Chunk(rxq[i], s)
      /\ C \subseteq DOMAIN f
  <2>1. C = {i \in DOMAIN f : (i \in 1 .. c \/ f[i].sock = s) /\ f[i].data # "eof"}
    BY <1>2, <1>4, <1>7 DEF Chunks
  <2>2. /\ \A i \in 1 .. c : i \in 1 .. c + d + q
        /\ \A i \in 1 .. d : c + i \in 1 .. c + d + q /\ c + i \notin 1 .. c
        /\ \A i \in 1 .. q : c + d + i \in 1 .. c + d + q /\ c + d + i \notin 1 .. c
    BY <1>4
  <2>3. QED
    BY <1>6, <2>1, <2>2 DEF Chunk
<1>9. /\ h <= p /\ p <= t /\ t <= r
      /\ \A i \in 1 .. c : chan[s][i].data # "eof" => chan[s][i].n = h + i /\ h + i <= p
      /\ \A i \in 1 .. c : h + i <= p => chan[s][i].data # "eof"
  <2>1. \A i \in 1 .. c : /\ chan[s][i].data # "eof" => chan[s][i].n = h + i
                          /\ chan[s][i].data = "eof" => i = c
    BY <1>3, <1>4 DEF CInv, Handled
  <2>2. EofIn(chan[s], s) <=> \E i \in 1 .. c : chan[s][i].data = "eof"
    BY <1>4 DEF EofIn, RInv, OwnChunks
  <2>3. p <= t /\ t <= r
    BY <1>3 DEF Fetched, QueuedOnce
  <2>4. CASE EofIn(chan[s], s)
    <3>1. p = h + c - 1
      BY <1>3, <1>4, <2>4 DEF Passed
    <3>2. c \in 1 .. c /\ chan[s][c].data = "eof"
      BY <2>1, <2>2, <2>4
    <3>3. \A i \in 1 .. c : /\ i # c => h + i <= p
                            /\ h + i <= p => i # c
      BY <1>3, <1>4, <3>1
    <3>4. h <= p
      BY <1>3, <1>4, <3>1, <3>2
    <3>5. QED
      BY <2>1, <2>3, <3>2, <3>3, <3>4
  <2>5. CASE ~EofIn(chan[s], s)
    <3>1. p = h + c
      BY <1>3, <1>4, <2>5 DEF Passed
    <3>2. h <= p /\ \A i \in 1 .. c : h + i <= p
      BY <1>3, <1>4, <3>1
    <3>3. QED
      BY <2>1, <2>2, <2>3, <2>5, <3>2
  <2>6. QED
    BY <2>4, <2>5
<1>10. /\ d <= 1
       /\ \A i \in 1 .. d : Chunk(held[i], s) => held[i].n = p + 1 /\ t = p + 1
       /\ t = p \/ (t = p + 1 /\ \E i \in 1 .. d : Chunk(held[i], s))
  <2>1. d <= 1
    BY <1>4 DEF CInv, Unread
  <2>2. \A i \in 1 .. d : Chunk(held[i], s) => held[i].n = p + 1
    BY <1>3, <1>4 DEF QueuedOnce
  <2>3. InTask(s) <=> \E i \in 1 .. d : Chunk(held[i], s)
    BY <1>4 DEF InTask
  <2>4. t = p + (IF InTask(s) THEN 1 ELSE 0)
    BY <1>3 DEF Fetched
  <2>5. (InTask(s) => t = p + 1) /\ (~InTask(s) => t = p)
    BY <1>3, <2>4
  <2>6. \A i \in 1 .. d : Chunk(held[i], s) => t = p + 1
    BY <2>3, <2>5
  <2>7. t = p \/ (t = p + 1 /\ \E i \in 1 .. d : Chunk(held[i], s))
    BY <2>3, <2>5
  <2>8. QED
    BY <2>1, <2>2, <2>6, <2>7
<1>11. /\ \A i \in 1 .. q : Chunk(rxq[i], s) => rxq[i].n \in t + 1 .. r
       /\ \A i, j \in 1 .. q : Chunk(rxq[i], s) /\ Chunk(rxq[j], s) /\ i < j
                                 => rxq[i].n < rxq[j].n
       /\ \A k \in t + 1 .. r : \E i \in 1 .. q : Chunk(rxq[i], s) /\ rxq[i].n = k
  BY <1>3, <1>4 DEF QueuedOnce
(* Where a chunk is tells where its number lies.                            *)
<1>12. ASSUME NEW i \in C
       PROVE  \/ i \in 1 .. c /\ f[i].n = h + i /\ h + i <= p
              \/ i = c + 1 /\ 1 <= d /\ f[i].n = p + 1 /\ t = p + 1
              \/ \E j \in 1 .. q : /\ i = c + d + j /\ Chunk(rxq[j], s)
                                   /\ f[i].n = rxq[j].n /\ rxq[j].n \in t + 1 .. r
  <2>1. CASE i \in 1 .. c
    BY <1>6, <1>8, <1>9, <1>12, <2>1
  <2>2. ASSUME NEW j \in 1 .. d, i = c + j
        PROVE  i = c + 1 /\ 1 <= d /\ f[i].n = p + 1 /\ t = p + 1
    <3>1. j = 1 /\ 1 <= d
      BY <1>4, <1>10, <2>2
    <3>2. Chunk(held[j], s) /\ f[i] = held[j]
      BY <1>6, <1>8, <1>12, <2>2
    <3>3. QED
      BY <1>10, <2>2, <3>1, <3>2
  <2>3. ASSUME NEW j \in 1 .. q, i = c + d + j
        PROVE  /\ Chunk(rxq[j], s) /\ f[i].n = rxq[j].n
               /\ rxq[j].n \in t + 1 .. r
    BY <1>6, <1>8, <1>11, <1>12, <2>3
  <2>4. QED
    BY <1>6, <1>8, <1>12, <2>1, <2>2, <2>3
<1>13. {f[i].n : i \in C} = h + 1 .. r
  <2>1. ASSUME NEW i \in C PROVE f[i].n \in h + 1 .. r
    <3>1. CASE i \in 1 .. c /\ f[i].n = h + i /\ h + i <= p
      BY <1>3, <1>4, <1>9, <3>1
    <3>2. CASE f[i].n = p + 1 /\ t = p + 1
      BY <1>3, <1>9, <3>2
    <3>3. CASE f[i].n \in t + 1 .. r
      BY <1>3, <1>9, <3>3
    <3>4. QED
      BY <1>12, <2>1, <3>1, <3>2, <3>3
  <2>2. ASSUME NEW k \in h + 1 .. r PROVE \E i \in C : f[i].n = k
    <3>1. CASE k <= p
      <4>1. k - h \in 1 .. c /\ h + (k - h) = k
        <5>1. p <= h + c
          <6>1. CASE EofIn(chan[s], s)
            <7>1. p = h + c - 1
              BY <1>3, <1>4, <6>1 DEF Passed
            <7>2. QED
              BY <1>3, <1>4, <7>1
          <6>2. CASE ~EofIn(chan[s], s)
            BY <1>3, <1>4, <6>2 DEF Passed
          <6>3. QED
            BY <6>1, <6>2
        <5>2. QED
          BY <1>3, <1>4, <2>2, <3>1, <5>1
      <4>2. k - h \in C /\ f[k - h].n = k
        BY <1>6, <1>8, <1>9, <3>1, <4>1
      <4>3. QED
        BY <4>2
    <3>2. CASE k = p + 1 /\ t = p + 1
      <4>1. PICK i \in 1 .. d : Chunk(held[i], s)
        BY <1>3, <1>10, <3>2
      <4>2. c + i \in C /\ f[c + i].n = k
        BY <1>6, <1>8, <1>10, <3>2, <4>1
      <4>3. QED
        BY <4>2
    <3>3. CASE k \in t + 1 .. r
      <4>1. PICK i \in 1 .. q : Chunk(rxq[i], s) /\ rxq[i].n = k
        BY <1>11, <3>3
      <4>2. c + d + i \in C /\ f[c + d + i].n = k
        BY <1>6, <1>8, <4>1
      <4>3. QED
        BY <4>2
    <3>4. k <= p \/ (k = p + 1 /\ t = p + 1) \/ k \in t + 1 .. r
      <4>1. t = p \/ t = p + 1
        BY <1>10
      <4>2. QED
        BY <1>3, <2>2, <4>1
    <3>5. QED
      BY <3>1, <3>2, <3>3, <3>4
  <2>3. QED
    BY <2>1, <2>2
<1>14. ASSUME NEW i \in C, NEW j \in C, i < j PROVE f[i].n < f[j].n
  <2>1. CASE i \in 1 .. c /\ f[i].n = h + i /\ h + i <= p
    <3>1. CASE j \in 1 .. c /\ f[j].n = h + j
      BY <1>3, <1>4, <1>14, <2>1, <3>1
    <3>2. CASE f[j].n = p + 1
      BY <1>3, <1>4, <2>1, <3>2
    <3>3. CASE f[j].n \in t + 1 .. r
      BY <1>3, <1>4, <1>9, <2>1, <3>3, SMTT(20)
    <3>4. QED
      BY <1>12, <3>1, <3>2, <3>3
  <2>2. CASE i = c + 1 /\ 1 <= d /\ f[i].n = p + 1 /\ t = p + 1
    <3>1. j \notin 1 .. c /\ j # c + 1
      BY <1>4, <1>14, <2>2
    <3>2. f[j].n \in t + 1 .. r
      BY <1>12, <3>1
    <3>3. QED
      BY <1>3, <2>2, <3>2
  <2>3. ASSUME NEW k \in 1 .. q, i = c + d + k, Chunk(rxq[k], s), f[i].n = rxq[k].n
        PROVE  f[i].n < f[j].n
    <3>1. j \notin 1 .. c /\ (1 <= d => j # c + 1)
      BY <1>4, <1>14, <2>3
    <3>2. PICK l \in 1 .. q : j = c + d + l /\ Chunk(rxq[l], s) /\ f[j].n = rxq[l].n
      BY <1>12, <3>1
    <3>3. k < l
      BY <1>4, <1>14, <2>3, <3>2
    <3>4. QED
      BY <1>11, <2>3, <3>2, <3>3
  <2>4. QED
    BY <1>12, <2>1, <2>2, <2>3
<1>15. QED
  <2>1. Len(heard[s]) <= Produced(s)
    BY <1>3, <1>9
  <2>2. QED
    BY <1>2, <1>3, <1>7, <1>13, <1>14, <2>1

(***************************************************************************)
(* The result.                                                             *)
(***************************************************************************)

(* A session's Rx task handles a prefix of what its client sent, and what   *)
(* was read beyond that is on its way, each chunk once and in order,        *)
(* however full the queues are and whatever the other sessions do.          *)
THEOREM ChunksArrive == Undisturbed => (Spec => []ChunksConserved)
<1> SUFFICES ASSUME Undisturbed PROVE Spec => []ChunksConserved
  OBVIOUS
<1> DEFINE All == IInv /\ SInv /\ Alone /\ OInv /\ Settled /\ RInv
<1>1. Init => CInv
  BY InitChunks
<1>2. All /\ CInv /\ [Next]_vars => CInv'
  BY NextChunks
<1>3. All /\ CInv => ChunksConserved
  <2> SUFFICES ASSUME All, CInv PROVE ChunksConserved
    OBVIOUS
  <2>1. \A s \in Sock : Served(s) /\ rxpc[s] = "recv" => QueuedOnce(s)
    BY DEF CInv, Listed
  <2>2. \A s \in Sock : \A k \in DOMAIN heard[s] : heard[s][k] = <<s, k>>
    BY DEF CInv, Handled
  <2>3. QED
    BY <2>1, <2>2, PutTogether DEF ChunksConserved
<1>4. Spec => []All
  BY ReceiveInvariant, PTL
<1>5. QED
  BY <1>1, <1>2, <1>3, <1>4, PTL DEF Spec
=============================================================================
