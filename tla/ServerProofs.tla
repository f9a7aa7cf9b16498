---------------------------- MODULE ServerProofs ----------------------------
(***************************************************************************)
(* Proofs about Server, for any environment: type correctness, the          *)
(* agreement of the tables, and how sessions begin and end; then, under an  *)
(* assumption of its own, the order of what is written.                     *)
(***************************************************************************)
EXTENDS Server, TLAPS

(* What the task is in the middle of: the connection it accepts or          *)
(* disconnects, the message it forwards, the chunk a read task has in hand. *)
InHand ==
  /\ pc \in {"reconfEof", "stopEof", "dns", "greet"} => cur \in Sock
  /\ pc = "forward" => held # <<>>
  /\ \A s \in Sock : /\ nread[s] <= Len(sent[s])
                     /\ rdpc[s] = "send" => nread[s] > 0

IInv == TypeOK /\ InHand /\ TablesAgree

LEMMA InitInv == Init => IInv
<1> SUFFICES ASSUME Init PROVE IInv
  OBVIOUS
<1> USE DEF Init
<1>1. TaskType
  <2>1. shutdown \in BOOLEAN
    OBVIOUS
  <2>2. QED
    BY <2>1 DEF TaskType
<1>2. ConfigType
  BY DEF ConfigType
<1>3. TablesType
  BY DEF TablesType, Table, Empty
<1>4. QueuesType
  BY DEF QueuesType
<1>5. SignalsType
  BY DEF SignalsType
<1>6. ConnType
  BY DEF ConnType
<1>7. WorldType
  BY DEF WorldType
<1>8. InHand
  BY DEF InHand
<1>9. TablesAgree
  BY DEF TablesAgree, Empty
<1>10. QED
  BY <1>1, <1>2, <1>3, <1>4, <1>5, <1>6, <1>7, <1>8, <1>9 DEF IInv, TypeOK

LEMMA SignalStep == IInv /\ Signal => IInv'
<1> SUFFICES ASSUME IInv, Signal PROVE IInv'
  OBVIOUS
<1>1. /\ UNCHANGED <<task, config, tables, queues, srvpos, rdpos, conn, world>>
      /\ \E e \in Endpoint \cup {Shutdown} : ctl' = Append(ctl, e)
  BY DEF Signal, SendReconfigure, SendShutdown
<1>2. SignalsType'
  BY <1>1 DEF IInv, TypeOK, SignalsType
<1>3. TypeOK'
  BY <1>1, <1>2 DEF IInv, TypeOK, TaskType, ConfigType, TablesType, QueuesType,
     ConnType, WorldType, task, config, tables, queues, conn, world
<1>4. InHand' /\ TablesAgree'
  BY <1>1 DEF IInv, InHand, TablesAgree, task, tables, conn, world
<1>5. QED
  BY <1>3, <1>4 DEF IInv

(* Appending to one of a family of sequences.                               *)
LEMMA AppendAt ==
  ASSUME NEW S, NEW D, NEW f \in [D -> Seq(S)], NEW x \in D, NEW e \in S
  PROVE  /\ [f EXCEPT ![x] = Append(f[x], e)] \in [D -> Seq(S)]
         /\ \A y \in D : /\ Len(f[y]) \in Nat
                         /\ Len([f EXCEPT ![x] = Append(f[x], e)][y]) \in Nat
                         /\ Len(f[y]) <= Len([f EXCEPT ![x] = Append(f[x], e)][y])
<1>1. Append(f[x], e) \in Seq(S) /\ Len(Append(f[x], e)) = Len(f[x]) + 1
  OBVIOUS
<1>2. \A y \in D : f[y] \in Seq(S) /\ Len(f[y]) \in Nat
  OBVIOUS
<1>3. QED
  BY <1>1, <1>2

LEMMA ClientStep == ASSUME IInv, NEW s \in Sock, Client(s) PROVE IInv'
<1>1. UNCHANGED <<task, config, tables, queues, signals, conn>>
  BY DEF Client, ClientConnect, ClientSend, ClientClose, ClientReset
<1>2. /\ UNCHANGED out
      /\ net' = net \/ net' = [net EXCEPT ![s] = "pending"]
      /\ peer' = peer \/ \E p \in {"fin", "rst"} : peer' = [peer EXCEPT ![s] = p]
  BY DEF Client, ClientConnect, ClientSend, ClientClose, ClientReset
<1>3. sent' = sent \/ \E d \in ChunkKind : sent' = [sent EXCEPT ![s] = Append(sent[s], d)]
  BY DEF Client, ClientConnect, ClientSend, ClientClose, ClientReset
<1>4. /\ sent' \in [Sock -> Seq(ChunkKind)]
      /\ \A t \in Sock : Len(sent[t]) \in Nat /\ Len(sent'[t]) \in Nat
                                            /\ Len(sent[t]) <= Len(sent'[t])
  <2>1. sent \in [Sock -> Seq(ChunkKind)]
    BY DEF IInv, TypeOK, WorldType
  <2>2. CASE sent' = sent
    BY <2>1, <2>2
  <2>3. ASSUME NEW d \in ChunkKind, sent' = [sent EXCEPT ![s] = Append(sent[s], d)]
        PROVE  <1>4!1 /\ <1>4!2
    BY <2>1, <2>3, AppendAt
  <2>4. QED
    BY <1>3, <2>2, <2>3
<1>5. WorldType'
  BY <1>2, <1>4 DEF IInv, TypeOK, WorldType
<1>6. TypeOK'
  <2>1. TaskType' /\ ConfigType'
    BY <1>1 DEF IInv, TypeOK, TaskType, ConfigType, task, config
  <2>2. TablesType'
    BY <1>1 DEF IInv, TypeOK, TablesType, tables
  <2>3. QueuesType' /\ SignalsType'
    BY <1>1 DEF IInv, TypeOK, QueuesType, SignalsType, queues, signals
  <2>4. ConnType'
    BY <1>1 DEF IInv, TypeOK, ConnType, conn
  <2>5. QED
    BY <1>5, <2>1, <2>2, <2>3, <2>4 DEF TypeOK
<1>7. InHand'
  <2>1. \A t \in Sock : nread[t] \in Nat
    BY DEF IInv, TypeOK, ConnType
  <2>2. QED
    BY <1>1, <1>4, <2>1 DEF IInv, InHand, task, conn
<1>8. TablesAgree'
  BY <1>1 DEF IInv, TablesAgree, task, tables
<1>9. QED
  BY <1>6, <1>7, <1>8 DEF IInv

LEMMA RdStep == ASSUME IInv, NEW s \in Sock, RdTask(s) PROVE IInv'
<1>1. UNCHANGED <<task, config, tables, ctl, srvpos, txq, chan, attached, rxpc, heard, world>>
  BY DEF RdTask, RdRead, RdEnd, RdSignal, RdSend, RdSendEof, queues, signals
<1>2. rxq' \in Seq(Inbound)
  <2>1. rxq \in Seq(Inbound)
    BY DEF IInv, TypeOK, QueuesType
  <2>2. ASSUME NEW m \in Inbound, ToServer(m) PROVE rxq' \in Seq(Inbound)
    BY <2>1, <2>2 DEF ToServer
  <2>3. CASE RdSend(s)
    <3>1. sent[s] \in Seq(ChunkKind) /\ nread[s] \in 1 .. Len(sent[s])
      BY <2>3 DEF IInv, TypeOK, WorldType, ConnType, InHand, RdSend
    <3>2. In(s, sent[s][nread[s]], nread[s]) \in Inbound
      BY <3>1 DEF In, Inbound
    <3>3. QED
      BY <2>2, <2>3, <3>2 DEF RdSend
  <2>4. CASE RdSendEof(s)
    <3>1. In(s, "eof", 0) \in Inbound
      BY DEF In, Inbound
    <3>2. QED
      BY <2>2, <2>4, <3>1 DEF RdSendEof
  <2>5. CASE RdRead(s) \/ RdEnd(s) \/ RdSignal(s)
    BY <2>1, <2>5 DEF RdRead, RdEnd, RdSignal, queues
  <2>6. QED
    BY <2>3, <2>4, <2>5 DEF RdTask
<1>3. /\ rdpos' = rdpos \/ rdpos' = [rdpos EXCEPT ![s] = rdpos[s] + 1]
      /\ \E q \in {"run", "send", "eof", "done", "dead"} : rdpc' = [rdpc EXCEPT ![s] = q]
  <2>1. CASE RdSignal(s)
    <3>1. \E q \in {"run", "eof", "dead"} : rdpc' = [rdpc EXCEPT ![s] = q]
      BY <2>1 DEF RdSignal
    <3>2. QED
      BY <2>1, <3>1 DEF RdSignal
  <2>2. CASE RdRead(s) \/ RdEnd(s) \/ RdSend(s) \/ RdSendEof(s)
    BY <2>2 DEF RdRead, RdEnd, RdSend, RdSendEof, signals
  <2>3. QED
    BY <2>1, <2>2 DEF RdTask
<1>4. \/ nread' = nread /\ rdpc'[s] # "send"
      \/ nread' = [nread EXCEPT ![s] = nread[s] + 1] /\ nread[s] < Len(sent[s])
  <2>0. DOMAIN rdpc = Sock
    BY DEF IInv, TypeOK, ConnType
  <2>1. CASE RdRead(s)
    BY <2>1 DEF RdRead
  <2>2. CASE RdSignal(s)
    <3>1. \E q \in {"run", "eof", "dead"} : rdpc' = [rdpc EXCEPT ![s] = q]
      BY <2>2 DEF RdSignal
    <3>2. QED
      BY <2>0, <2>2, <3>1 DEF RdSignal
  <2>3. CASE RdEnd(s) \/ RdSend(s) \/ RdSendEof(s)
    BY <2>0, <2>3 DEF RdEnd, RdSend, RdSendEof
  <2>4. QED
    BY <2>1, <2>2, <2>3 DEF RdTask
<1>5. rdpos \in [Sock -> Nat] /\ nread \in [Sock -> Nat]
  BY DEF IInv, TypeOK, SignalsType, ConnType
<1>6. rdpos' \in [Sock -> Nat] /\ nread' \in [Sock -> Nat]
  BY <1>3, <1>4, <1>5
<1>7. TypeOK'
  <2>1. QueuesType'
    BY <1>1, <1>2 DEF IInv, TypeOK, QueuesType
  <2>2. SignalsType'
    BY <1>1, <1>6 DEF IInv, TypeOK, SignalsType
  <2>3. rdpc' \in [Sock -> {"none", "run", "send", "eof", "done", "dead"}]
    BY <1>3 DEF IInv, TypeOK, ConnType
  <2>4. ConnType'
    BY <1>1, <1>6, <2>3 DEF IInv, TypeOK, ConnType
  <2>5. QED
    BY <1>1, <2>1, <2>2, <2>4 DEF IInv, TypeOK, TaskType, ConfigType, TablesType,
       WorldType, task, config, tables, world
<1>8. InHand'
  <2>1. \A t \in Sock : Len(sent[t]) \in Nat
    BY DEF IInv, TypeOK, WorldType
  <2>2. \A t \in Sock : nread'[t] <= Len(sent[t]) /\ (rdpc'[t] = "send" => nread'[t] > 0)
    BY <1>3, <1>4, <1>5, <2>1 DEF IInv, InHand, TypeOK, ConnType
  <2>3. QED
    BY <1>1, <2>2 DEF IInv, InHand, task, world
<1>9. TablesAgree'
  BY <1>1 DEF IInv, TablesAgree, task, tables
<1>10. QED
  BY <1>7, <1>8, <1>9 DEF IInv

LEMMA ToClientType ==
  ASSUME txq \in Seq(Outbound), NEW s, NEW m \in Outbound, ToClient(s, m)
  PROVE  txq' \in Seq(Outbound)
<1>1. Append(txq, m) \in Seq(Outbound)
  OBVIOUS
<1>2. QED
  BY <1>1 DEF ToClient

LEMMA RxStep == ASSUME IInv, NEW s \in Sock, RxTask(s) PROVE IInv'
<1>1. UNCHANGED <<task, config, tables, signals, rxq, attached, rdpc, nread, world>>
  BY DEF RxTask, RxRecv, RxSendLine, RxSendEof
<1>2. /\ chan \in [Sock -> Seq(Inbound)] /\ txq \in Seq(Outbound)
      /\ heard \in [Sock -> Seq(Sock \X Nat)]
      /\ rxpc \in [Sock -> {"none", "recv", "line", "eof", "done", "dead"}]
  BY DEF IInv, TypeOK, QueuesType, ConnType
<1>3. QueuesType' /\ ConnType'
  <2>1. CASE RxRecv(s)
    <3>1. /\ UNCHANGED txq
          /\ \E q \in {"line", "dead", "recv"} : rxpc' = [rxpc EXCEPT ![s] = q]
      <4>1. CASE Head(chan[s]).data = "eof"
        BY <2>1, <4>1 DEF RxRecv
      <4>2. CASE Head(chan[s]).data = "cut"
        BY <2>1, <4>2 DEF RxRecv
      <4>3. CASE Head(chan[s]).data # "eof" /\ Head(chan[s]).data # "cut"
        BY <2>1, <4>3 DEF RxRecv
      <4>4. QED
        BY <4>1, <4>2, <4>3
    <3>2. Head(chan[s]) \in Inbound /\ Tail(chan[s]) \in Seq(Inbound)
      BY <1>2, <2>1 DEF RxRecv
    <3>3. \E c \in Seq(Inbound) : chan' = [chan EXCEPT ![s] = c]
      <4>1. CASE Head(chan[s]).data = "cut"
        <5>1. chan' = [chan EXCEPT ![s] = <<>>] /\ <<>> \in Seq(Inbound)
          BY <2>1, <4>1 DEF RxRecv
        <5>2. QED
          BY <5>1
      <4>2. CASE Head(chan[s]).data # "cut"
        <5>1. chan' = [chan EXCEPT ![s] = Tail(chan[s])]
          BY <2>1, <4>2 DEF RxRecv
        <5>2. QED
          BY <3>2, <5>1
      <4>3. QED
        BY <4>1, <4>2
    <3>4. \E h \in Seq(Sock \X Nat) : heard' = [heard EXCEPT ![s] = h]
      <4>1. <<Head(chan[s]).sock, Head(chan[s]).n>> \in Sock \X Nat
        BY <3>2 DEF Inbound
      <4>2. Append(heard[s], <<Head(chan[s]).sock, Head(chan[s]).n>>) \in Seq(Sock \X Nat)
        BY <1>2, <4>1
      <4>3. QED
        BY <1>2, <2>1, <4>2 DEF RxRecv
    <3>5. rxpc' \in [Sock -> {"none", "recv", "line", "eof", "done", "dead"}]
      BY <1>2, <3>1
    <3>6. chan' \in [Sock -> Seq(Inbound)] /\ heard' \in [Sock -> Seq(Sock \X Nat)]
      BY <1>2, <3>3, <3>4
    <3>7. QED
      BY <1>1, <3>1, <3>5, <3>6 DEF IInv, TypeOK, QueuesType, ConnType
  <2>2. CASE RxSendLine(s)
    <3>1. txq' \in Seq(Outbound)
      <4>1. Out(s, "line") \in Outbound
        BY DEF Out, Outbound
      <4>2. QED
        BY <1>2, <2>2, <4>1, ToClientType DEF RxSendLine
    <3>2. rxpc' \in [Sock -> {"none", "recv", "line", "eof", "done", "dead"}]
      BY <1>2, <2>2 DEF RxSendLine
    <3>3. chan' = chan /\ heard' = heard
      BY <2>2 DEF RxSendLine
    <3>4. QED
      BY <1>1, <3>1, <3>2, <3>3 DEF IInv, TypeOK, QueuesType, ConnType
  <2>3. CASE RxSendEof(s)
    <3>1. txq' \in Seq(Outbound)
      <4>1. Out(s, "eof") \in Outbound
        BY DEF Out, Outbound
      <4>2. QED
        BY <1>2, <2>3, <4>1, ToClientType DEF RxSendEof
    <3>2. /\ rxpc' \in [Sock -> {"none", "recv", "line", "eof", "done", "dead"}]
          /\ chan' \in [Sock -> Seq(Inbound)]
      BY <1>2, <2>3 DEF RxSendEof
    <3>3. heard' = heard
      BY <2>3 DEF RxSendEof
    <3>4. QED
      BY <1>1, <3>1, <3>2, <3>3 DEF IInv, TypeOK, QueuesType, ConnType
  <2>4. QED
    BY <2>1, <2>2, <2>3 DEF RxTask
<1>4. TypeOK'
  BY <1>1, <1>3 DEF IInv, TypeOK, TaskType, ConfigType, TablesType, SignalsType,
     WorldType, task, config, tables, signals, world
<1>5. InHand' /\ TablesAgree'
  <2>1. rdpc' = rdpc /\ nread' = nread /\ sent' = sent
    BY <1>1 DEF world
  <2>2. UNCHANGED <<task, tables>>
    BY <1>1
  <2>3. QED
    BY <2>1, <2>2 DEF IInv, InHand, TablesAgree, task, tables
<1>6. QED
  BY <1>4, <1>5 DEF IInv

(***************************************************************************)
(* The server task.                                                        *)
(***************************************************************************)

(* What every step of the server task but an accept leaves alone.           *)
LEMMA SrvFrame ==
  ASSUME IInv, UNCHANGED <<conn, peer, sent>>,
         TaskType', ConfigType', TablesType', QueuesType', SignalsType',
         net' \in [Sock -> {"idle", "pending", "accepted", "refused"}],
         out' \in [Sock -> Seq({"greet", "line", "shut"})],
         pc' \in {"reconfEof", "stopEof", "dns", "greet"} => cur' \in Sock,
         pc' = "forward" => held' # <<>>,
         TablesAgree'
  PROVE  IInv'
<1>1. ConnType'
  BY DEF IInv, TypeOK, ConnType, conn
<1>2. WorldType'
  BY DEF IInv, TypeOK, WorldType
<1>3. InHand'
  BY DEF IInv, InHand, conn
<1>4. QED
  BY <1>1, <1>2, <1>3 DEF IInv, TypeOK

(* The net effect of taking a signal.                                       *)
LEMMA TakeType == ASSUME IInv, NEW e, SrvTake(e) PROVE SignalsType'
  BY DEF SrvTake, IInv, TypeOK, SignalsType

LEMMA DropType ==
  ASSUME IInv, DropSessions
  PROVE  /\ TablesType'
         /\ txq' \in Seq(Outbound) /\ attached' \in [Sock -> BOOLEAN]
         /\ net' \in [Sock -> {"idle", "pending", "accepted", "refused"}]
         /\ out' \in [Sock -> Seq({"greet", "line", "shut"})]
         /\ (pc' \notin {"dns", "reconf", "reconfEof"} => TablesAgree')
<1>1. TablesType'
  BY DEF DropSessions, TablesType, Table, Empty
<1>2. txq' \in Seq(Outbound)
  BY DEF DropSessions
<1>3. attached' \in [Sock -> BOOLEAN]
  BY DEF DropSessions
<1>4. net' \in [Sock -> {"idle", "pending", "accepted", "refused"}]
  BY DEF DropSessions, IInv, TypeOK, WorldType
<1>5. out' \in [Sock -> Seq({"greet", "line", "shut"})]
  <2>1. out \in [Sock -> Seq({"greet", "line", "shut"})]
    BY DEF IInv, TypeOK, WorldType
  <2>2. \A s \in Sock : /\ out[s] \in Seq({"greet", "line", "shut"})
                        /\ Append(out[s], "shut") \in Seq({"greet", "line", "shut"})
    BY <2>1
  <2>3. QED
    BY <2>2 DEF DropSessions
<1>6. pc' \notin {"dns", "reconf", "reconfEof"} => TablesAgree'
  BY DEF DropSessions, TablesAgree, Empty
<1>7. QED
  BY <1>1, <1>2, <1>3, <1>4, <1>5, <1>6

LEMMA PanicStep == ASSUME IInv, Panic PROVE IInv'
<1>1. TaskType'
  <2>1. shutdown' \in BOOLEAN
    BY DEF Panic, IInv, TypeOK, TaskType
  <2>2. QED
    BY <2>1 DEF Panic, TaskType
<1>2. ConfigType'
  BY DEF Panic, IInv, TypeOK, ConfigType
<1>3. DropSessions /\ pc' = "dead" /\ rxq' = <<>> /\ UNCHANGED <<chan, signals, conn, peer, sent>>
  BY DEF Panic
<1>4. QueuesType'
  BY <1>3, DropType DEF IInv, TypeOK, QueuesType
<1>5. SignalsType'
  BY <1>3 DEF IInv, TypeOK, SignalsType, signals
<1>6. QED
  BY <1>1, <1>2, <1>3, <1>4, <1>5, DropType, SrvFrame

LEMMA SignalTakenStep == ASSUME IInv, SrvSignal PROVE IInv'
<1>1. CASE SrvInitShutdown
  <2>1. UNCHANGED <<pc, cur, held, todo, config, tables, queues, conn, world>> /\ shutdown' = TRUE
    BY <1>1 DEF SrvInitShutdown
  <2>2. SignalsType'
    BY <1>1, TakeType DEF SrvInitShutdown
  <2>3. TaskType'
    <3>1. shutdown' \in BOOLEAN
      BY <2>1
    <3>2. QED
      BY <2>1, <3>1 DEF IInv, TypeOK, TaskType
  <2>4. ConfigType' /\ TablesType' /\ QueuesType'
    BY <2>1 DEF IInv, TypeOK, ConfigType, TablesType, QueuesType, config, tables, queues
  <2>5. TablesAgree'
    BY <2>1 DEF IInv, TablesAgree, tables
  <2>6. QED
    BY <2>1, <2>2, <2>3, <2>4, <2>5, SrvFrame DEF IInv, TypeOK, InHand, WorldType, world
<1>2. CASE SrvShutdown
  <2>1. /\ UNCHANGED <<cur, held, config, tables, queues, conn, world>> /\ shutdown' = TRUE
        /\ pc = "select" /\ pc' = "stop" /\ todo' = {connections[a] : a \in Entry(connections)}
    BY <1>2 DEF SrvShutdown
  <2>2. SignalsType'
    BY <1>2, TakeType DEF SrvShutdown
  <2>3. TaskType'
    <3>1. todo' \in SUBSET Sock
      BY <2>1 DEF Entry, IInv, TypeOK, TablesType, Table
    <3>2. shutdown' \in BOOLEAN
      BY <2>1
    <3>3. QED
      BY <2>1, <3>1, <3>2 DEF IInv, TypeOK, TaskType
  <2>4. ConfigType' /\ TablesType' /\ QueuesType'
    BY <2>1 DEF IInv, TypeOK, ConfigType, TablesType, QueuesType, config, tables, queues
  <2>5. TablesAgree'
    BY <2>1 DEF IInv, TablesAgree, tables
  <2>6. QED
    BY <2>1, <2>2, <2>3, <2>4, <2>5, SrvFrame DEF IInv, TypeOK, WorldType, world
<1>3. ASSUME NEW e \in Endpoint, SrvInitConfigure(e) PROVE IInv'
  <2>1. /\ UNCHANGED <<cur, held, todo, shutdown, tables, queues, conn, world>>
        /\ pc = "init" /\ pc' \in {"stop", "select"}
    BY <1>3 DEF SrvInitConfigure
  <2>2. SignalsType'
    BY <1>3, TakeType DEF SrvInitConfigure
  <2>3. TaskType'
    BY <2>1 DEF IInv, TypeOK, TaskType
  <2>4. ConfigType'
    BY <1>3 DEF SrvInitConfigure, ServerGet, Bind, IInv, TypeOK, ConfigType
  <2>5. TablesType' /\ QueuesType' /\ TablesAgree'
    BY <2>1 DEF IInv, TypeOK, TablesType, QueuesType, TablesAgree, tables, queues
  <2>6. QED
    BY <2>1, <2>2, <2>3, <2>4, <2>5, SrvFrame DEF IInv, TypeOK, WorldType, world
<1>4. ASSUME NEW e \in Endpoint, SrvReconfigure(e) PROVE IInv'
  <2>1. /\ UNCHANGED <<cur, held, shutdown, conf, endpoint, listenAt, wr_streams,
                       rd_streams, rd_handles, queues, conn, world>>
        /\ pc = "select" /\ pc' \in {"select", "reconf"} /\ wanted' = e
        /\ \/ UNCHANGED <<pc, todo, connections>>
           \/ /\ pc' = "reconf" /\ connections' = Empty
              /\ todo' = {connections[a] : a \in Entry(connections)}
    BY <1>4 DEF SrvReconfigure
  <2>2. SignalsType'
    BY <1>4, TakeType DEF SrvReconfigure
  <2>3. TaskType'
    <3>1. todo' \in SUBSET Sock
      BY <2>1 DEF Entry, IInv, TypeOK, TaskType, TablesType, Table
    <3>2. QED
      BY <2>1, <3>1 DEF IInv, TypeOK, TaskType
  <2>4. ConfigType' /\ TablesType' /\ QueuesType'
    BY <2>1 DEF IInv, TypeOK, ConfigType, TablesType, QueuesType, queues, Table, Empty
  <2>5. TablesAgree'
    BY <2>1 DEF IInv, TablesAgree
  <2>6. QED
    BY <2>1, <2>2, <2>3, <2>4, <2>5, SrvFrame DEF IInv, TypeOK, WorldType, world
<1>5. QED
  BY <1>1, <1>2, <1>3, <1>4 DEF SrvSignal

(* Disconnect loops: only the transmit queue and the task's place change.   *)
LEMMA ByeStep ==
  ASSUME IInv, SrvByeEof \/ \E s \in Sock : SrvByeLine(s)
  PROVE  IInv'
<1>1. UNCHANGED <<held, shutdown, config, tables, rxq, chan, attached, signals, conn, world>>
  BY DEF SrvByeEof, SrvByeLine
<1>2. QueuesType'
  <2>1. ASSUME NEW s \in Sock, NEW d \in {"line", "eof"}, ToClient(s, Out(s, d))
        PROVE  txq' \in Seq(Outbound)
    <3>1. Out(s, d) \in Outbound
      BY DEF Out, Outbound
    <3>2. QED
      BY <2>1, <3>1, ToClientType DEF IInv, TypeOK, QueuesType
  <2>2. txq' \in Seq(Outbound)
    BY <2>1 DEF SrvByeEof, SrvByeLine, IInv, InHand
  <2>3. QED
    BY <1>1, <2>2 DEF IInv, TypeOK, QueuesType
<1>3. /\ TaskType' /\ pc' # "forward" /\ pc' # "dns"
      /\ pc \in {"reconf", "reconfEof"} => pc' \in {"reconf", "reconfEof"}
      /\ pc # "dns"
      /\ pc' \in {"reconfEof", "stopEof"} => cur' \in Sock
      /\ pc' # "greet"
  <2>1. CASE SrvByeEof
    BY <1>1, <2>1 DEF SrvByeEof, IInv, TypeOK, TaskType
  <2>2. ASSUME NEW s \in Sock, SrvByeLine(s) PROVE <1>3
    BY <1>1, <2>2 DEF SrvByeLine, IInv, TypeOK, TaskType
  <2>3. QED
    BY <2>1, <2>2
<1>4. ConfigType' /\ TablesType' /\ SignalsType'
  BY <1>1 DEF IInv, TypeOK, ConfigType, TablesType, SignalsType, config, tables, signals
<1>5. TablesAgree'
  BY <1>1, <1>3 DEF IInv, TablesAgree, tables
<1>6. QED
  BY <1>1, <1>2, <1>3, <1>4, <1>5, SrvFrame DEF IInv, TypeOK, WorldType, world

LEMMA ReconfSwapStep == ASSUME IInv, SrvReconfSwap PROVE IInv'
<1>1. /\ DropSessions /\ pc' = "select"
      /\ UNCHANGED <<cur, held, todo, shutdown, wanted, rxq, chan, signals, conn, peer, sent>>
  BY DEF SrvReconfSwap
<1>2. TaskType'
  BY <1>1 DEF IInv, TypeOK, TaskType
<1>3. ConfigType'
  BY DEF SrvReconfSwap, ServerGet, Bind, IInv, TypeOK, ConfigType
<1>4. QueuesType'
  BY <1>1, DropType DEF IInv, TypeOK, QueuesType
<1>5. SignalsType'
  BY <1>1 DEF IInv, TypeOK, SignalsType, signals
<1>6. QED
  BY <1>1, <1>2, <1>3, <1>4, <1>5, DropType, SrvFrame

LEMMA StopStep == ASSUME IInv, SrvStopClose \/ SrvFinish PROVE IInv'
<1>1. /\ UNCHANGED <<cur, held, todo, shutdown, config, tables, rxq, txq, chan,
                     signals, conn, world>>
      /\ pc \in {"stop", "finish"} /\ pc' \in {"finish", "barrier"}
  BY DEF SrvStopClose, SrvFinish, queues
<1>2. attached' \in [Sock -> BOOLEAN]
  <2>1. CASE SrvStopClose
    BY <2>1 DEF SrvStopClose
  <2>2. CASE SrvFinish
    BY <2>2 DEF SrvFinish, queues, IInv, TypeOK, QueuesType
  <2>3. QED
    BY <2>1, <2>2
<1>3. TaskType'
  BY <1>1 DEF IInv, TypeOK, TaskType
<1>4. ConfigType' /\ TablesType' /\ SignalsType' /\ QueuesType'
  <2>1. ConfigType' /\ SignalsType'
    BY <1>1 DEF IInv, TypeOK, ConfigType, SignalsType, config, signals
  <2>2. TablesType'
    BY <1>1 DEF IInv, TypeOK, TablesType, tables
  <2>3. QueuesType'
    BY <1>1, <1>2 DEF IInv, TypeOK, QueuesType
  <2>4. QED
    BY <2>1, <2>2, <2>3
<1>5. TablesAgree'
  BY <1>1 DEF IInv, TablesAgree, tables
<1>6. QED
  BY <1>1, <1>3, <1>4, <1>5, SrvFrame DEF IInv, TypeOK, WorldType, world

(* Between its select! branches the task inserts the new session's streams  *)
(* and read handle first and its connection after the DNS answer.           *)
LEMMA AcceptStep == ASSUME IInv, NEW s \in Sock, SrvAccept(s) PROVE IInv'
<1> DEFINE a == AddrOf[s]
<1>1. /\ UNCHANGED <<held, todo, shutdown, config, connections, rxq, txq, chan,
                     ctl, srvpos, nread, heard, peer, sent>>
      /\ pc = "select" /\ pc' = "dns" /\ cur' = s
      /\ net' = [net EXCEPT ![s] = "accepted"]
      /\ attached' = [attached EXCEPT ![s] = TRUE]
      /\ rdpos' = [rdpos EXCEPT ![s] = Len(ctl)]
      /\ rdpc' = [rdpc EXCEPT ![s] = "run"] /\ rxpc' = [rxpc EXCEPT ![s] = "recv"]
  BY DEF SrvAccept
<1>2. /\ rd_streams' = [rd_streams EXCEPT ![a] = s]
      /\ wr_streams' = [wr_streams EXCEPT ![a] = s]
      /\ rd_handles' = [rd_handles EXCEPT ![a] = s]
      /\ out' = [t \in Sock |-> IF wr_streams[a] = t
                                THEN Append(out[t], "shut") ELSE out[t]]
  BY DEF SrvAccept
<1>3. TaskType'
  BY <1>1 DEF IInv, TypeOK, TaskType
<1>4. ConfigType'
  BY <1>1 DEF IInv, TypeOK, ConfigType, config
<1>5. TablesType'
  BY <1>1, <1>2 DEF IInv, TypeOK, TablesType, Table
<1>6. QueuesType'
  <2>1. attached' \in [Sock -> BOOLEAN]
    BY <1>1 DEF IInv, TypeOK, QueuesType
  <2>2. QED
    BY <1>1, <2>1 DEF IInv, TypeOK, QueuesType
<1>7. SignalsType'
  <2>1. Len(ctl) \in Nat
    BY DEF IInv, TypeOK, SignalsType
  <2>2. QED
    BY <1>1, <2>1 DEF IInv, TypeOK, SignalsType
<1>8. ConnType'
  BY <1>1 DEF IInv, TypeOK, ConnType
<1>9. WorldType'
  <2>1. out \in [Sock -> Seq({"greet", "line", "shut"})]
    BY DEF IInv, TypeOK, WorldType
  <2>2. \A t \in Sock : /\ out[t] \in Seq({"greet", "line", "shut"})
                        /\ Append(out[t], "shut") \in Seq({"greet", "line", "shut"})
    BY <2>1
  <2>3. out' \in [Sock -> Seq({"greet", "line", "shut"})]
    BY <1>2, <2>2
  <2>4. net' \in [Sock -> {"idle", "pending", "accepted", "refused"}]
    BY <1>1 DEF IInv, TypeOK, WorldType
  <2>5. QED
    BY <1>1, <2>3, <2>4 DEF IInv, TypeOK, WorldType
<1>10. InHand'
  BY <1>1 DEF IInv, TypeOK, ConnType, InHand
<1>11. TablesAgree'
  <2>1. a \in Addr
    BY SockAssumption
  <2>2. QED
    BY <1>1, <1>2, <2>1 DEF IInv, TypeOK, TablesType, Table, TablesAgree
<1>12. QED
  BY <1>3, <1>4, <1>5, <1>6, <1>7, <1>8, <1>9, <1>10, <1>11 DEF IInv, TypeOK

LEMMA DnsDoneStep == ASSUME IInv, SrvDnsDone PROVE IInv'
<1>1. /\ UNCHANGED <<cur, held, todo, shutdown, config, wr_streams, rd_streams,
                     rd_handles, queues, signals, conn, world>>
      /\ pc = "dns" /\ pc' = "greet" /\ cur \in Sock
      /\ connections' = [connections EXCEPT ![AddrOf[cur]] = cur]
  BY DEF SrvDnsDone, IInv, InHand
<1>2. TaskType'
  BY <1>1 DEF IInv, TypeOK, TaskType
<1>3. ConfigType' /\ QueuesType' /\ SignalsType' /\ TablesType'
  BY <1>1 DEF IInv, TypeOK, ConfigType, QueuesType, SignalsType, TablesType, Table,
     config, queues, signals
<1>4. TablesAgree'
  <2>1. AddrOf[cur] \in Addr /\ connections \in Table
    BY <1>1, SockAssumption DEF IInv, TypeOK, TablesType
  <2>2. QED
    BY <1>1, <2>1 DEF IInv, TablesAgree, Table
<1>5. QED
  BY <1>1, <1>2, <1>3, <1>4, SrvFrame DEF IInv, TypeOK, WorldType, world

LEMMA GreetStep == ASSUME IInv, SrvGreet PROVE IInv'
<1>1. /\ UNCHANGED <<held, todo, shutdown, config, tables, rxq, chan, attached, signals,
                     conn, world>>
      /\ pc = "greet" /\ pc' = "select" /\ cur' = NoSock /\ cur \in Sock
      /\ ToClient(cur, Out(cur, "greet"))
  BY DEF SrvGreet, IInv, InHand
<1>2. TaskType'
  BY <1>1 DEF IInv, TypeOK, TaskType
<1>3. QueuesType'
  <2>1. Out(cur, "greet") \in Outbound
    BY <1>1 DEF Out, Outbound
  <2>2. txq' \in Seq(Outbound)
    BY <1>1, <2>1, ToClientType DEF IInv, TypeOK, QueuesType
  <2>3. QED
    BY <1>1, <2>2 DEF IInv, TypeOK, QueuesType
<1>4. ConfigType' /\ SignalsType' /\ TablesType'
  BY <1>1 DEF IInv, TypeOK, ConfigType, SignalsType, TablesType, config, signals, tables
<1>5. TablesAgree'
  BY <1>1 DEF IInv, TablesAgree, tables
<1>6. QED
  BY <1>1, <1>2, <1>3, <1>4, <1>5, SrvFrame DEF IInv, TypeOK, WorldType, world

(* send_message: an empty message takes the address out of three tables at  *)
(* once, in the two states in which all of them agree.                      *)
LEMMA SendStep == ASSUME IInv, SrvSend PROVE IInv'
<1> DEFINE m == Head(txq)
           a == AddrOf[m.sock]
           s == wr_streams[a]
<1>1. /\ UNCHANGED <<task, config, rd_handles, rxq, chan, attached, signals, conn,
                     net, peer, sent>>
      /\ pc \in {"select", "finish"} /\ txq # <<>> /\ txq' = Tail(txq) /\ Transmit(m)
  BY DEF SrvSend
<1>2. m \in Outbound /\ txq' \in Seq(Outbound)
  BY <1>1 DEF IInv, TypeOK, QueuesType
<1>3. a \in Addr /\ s \in Sock \cup {NoSock}
  BY <1>2, SockAssumption DEF Outbound, IInv, TypeOK, TablesType, Table
<1>4. out' \in [Sock -> Seq({"greet", "line", "shut"})]
  <2>1. out \in [Sock -> Seq({"greet", "line", "shut"})]
    BY DEF IInv, TypeOK, WorldType
  <2>2. m.data \in {"greet", "line", "eof"}
    BY <1>2 DEF Outbound
  <2>3. CASE s = NoSock
    BY <1>1, <2>1, <2>3 DEF Transmit
  <2>4. CASE s # NoSock /\ m.data = "eof"
    <3>1. out' = [out EXCEPT ![s] = Append(out[s], "shut")]
      BY <1>1, <2>4 DEF Transmit
    <3>2. QED
      BY <1>3, <2>1, <2>4, <3>1, AppendAt
  <2>5. CASE s # NoSock /\ m.data # "eof"
    <3>1. out' = [out EXCEPT ![s] = Append(out[s], m.data)]
      BY <1>1, <2>5 DEF Transmit
    <3>2. QED
      BY <1>3, <2>1, <2>2, <2>5, <3>1, AppendAt
  <2>6. QED
    BY <2>3, <2>4, <2>5
<1>5. \/ UNCHANGED <<connections, wr_streams, rd_streams>>
      \/ /\ wr_streams' = [wr_streams EXCEPT ![a] = NoSock]
         /\ rd_streams' = [rd_streams EXCEPT ![a] = NoSock]
         /\ connections' = [connections EXCEPT ![a] = NoSock]
  BY <1>1 DEF Transmit
<1>6. TablesType'
  BY <1>1, <1>5 DEF IInv, TypeOK, TablesType, Table
<1>7. TablesAgree'
  BY <1>1, <1>3, <1>5 DEF IInv, TypeOK, TablesType, Table, TablesAgree, task
<1>8. TaskType' /\ ConfigType' /\ SignalsType'
  BY <1>1 DEF IInv, TypeOK, TaskType, ConfigType, SignalsType, task, config, signals
<1>9. QueuesType'
  BY <1>1, <1>2 DEF IInv, TypeOK, QueuesType
<1>10. QED
  BY <1>1, <1>4, <1>6, <1>7, <1>8, <1>9, SrvFrame DEF IInv, TypeOK, WorldType, task

LEMMA ReceiveStep == ASSUME IInv, SrvReceive PROVE IInv'
<1>1. /\ UNCHANGED <<cur, todo, shutdown, config, tables, txq, chan, attached, signals,
                     conn, world>>
      /\ pc = "select" /\ pc' = "forward"
      /\ rxq # <<>> /\ held' = <<Head(rxq)>> /\ rxq' = Tail(rxq)
  BY DEF SrvReceive
<1>2. rxq \in Seq(Inbound)
  BY DEF IInv, TypeOK, QueuesType
<1>3. held' \in Seq(Inbound) /\ held' # <<>> /\ rxq' \in Seq(Inbound)
  <2>1. Head(rxq) \in Inbound
    BY <1>1, <1>2
  <2>2. QED
    BY <1>1, <1>2, <2>1
<1>4. TaskType'
  BY <1>1, <1>3 DEF IInv, TypeOK, TaskType
<1>5. ConfigType' /\ TablesType' /\ SignalsType' /\ QueuesType'
  BY <1>1, <1>3 DEF IInv, TypeOK, ConfigType, TablesType, SignalsType, QueuesType,
     config, tables, signals
<1>6. TablesAgree'
  BY <1>1 DEF IInv, TablesAgree, tables
<1>7. QED
  BY <1>1, <1>3, <1>4, <1>5, <1>6, SrvFrame DEF IInv, TypeOK, WorldType, world

LEMMA ForwardStep == ASSUME IInv, SrvForward PROVE IInv'
<1> DEFINE m == Head(held)
           s == connections[AddrOf[m.sock]]
<1>1. /\ UNCHANGED <<cur, todo, shutdown, config, tables, rxq, txq, attached, signals,
                     conn, world>>
      /\ pc = "forward" /\ pc' = "select" /\ held' = <<>> /\ held # <<>>
      /\ chan' = chan \/ chan' = [chan EXCEPT ![s] = Append(chan[s], m)]
  BY DEF SrvForward, IInv, InHand
<1>2. chan' \in [Sock -> Seq(Inbound)]
  <2>1. chan \in [Sock -> Seq(Inbound)] /\ m \in Inbound
    <3>1. held \in Seq(Inbound) /\ held # <<>>
      BY <1>1 DEF IInv, TypeOK, TaskType
    <3>2. m \in Inbound
      BY <3>1
    <3>3. QED
      BY <3>2 DEF IInv, TypeOK, QueuesType
  <2>2. CASE s \in Sock /\ chan' = [chan EXCEPT ![s] = Append(chan[s], m)]
    BY <2>1, <2>2, AppendAt
  <2>3. CASE s \notin Sock /\ chan' = [chan EXCEPT ![s] = Append(chan[s], m)]
    BY <2>1, <2>3
  <2>4. QED
    BY <1>1, <2>1, <2>2, <2>3
<1>3. TaskType'
  <2>1. held' \in Seq(Inbound)
    <3>1. held' = <<>>
      BY <1>1
    <3>2. QED
      BY <3>1
  <2>2. UNCHANGED <<cur, todo, shutdown>> /\ pc' = "select"
    BY <1>1
  <2>3. QED
    BY <2>1, <2>2 DEF IInv, TypeOK, TaskType
<1>4. ConfigType' /\ TablesType' /\ SignalsType' /\ QueuesType'
  <2>1. ConfigType' /\ SignalsType'
    BY <1>1 DEF IInv, TypeOK, ConfigType, SignalsType, config, signals
  <2>2. TablesType'
    BY <1>1 DEF IInv, TypeOK, TablesType, tables
  <2>3. QueuesType'
    BY <1>1, <1>2 DEF IInv, TypeOK, QueuesType
  <2>4. QED
    BY <2>1, <2>2, <2>3
<1>5. TablesAgree'
  BY <1>1 DEF IInv, TablesAgree, tables
<1>6. QED
  BY <1>1, <1>3, <1>4, <1>5, SrvFrame DEF IInv, TypeOK, WorldType, world

LEMMA NextStep == IInv /\ [Next]_vars => IInv'
<1> SUFFICES ASSUME IInv, [Next]_vars PROVE IInv'
  OBVIOUS
<1>1. CASE Signal
  BY <1>1, SignalStep
<1>2. ASSUME NEW s \in Sock, Client(s) \/ RdTask(s) \/ RxTask(s) PROVE IInv'
  BY <1>2, ClientStep, RdStep, RxStep
<1>3. CASE SrvTask
  <2>1. CASE SrvLagged \/ SrvAcceptError \/ SrvStartError
    BY <2>1, PanicStep DEF SrvLagged, SrvAcceptError, SrvStartError
  <2>2. CASE \E s \in Sock : SrvAccept(s)
    BY <2>2, AcceptStep
  <2>3. CASE SrvCommitted
    BY <2>3, ByeStep, ReconfSwapStep, StopStep, DnsDoneStep, GreetStep, ForwardStep
    DEF SrvCommitted
  <2>4. QED
    BY <1>3, <2>1, <2>2, <2>3, SignalTakenStep, SendStep, ReceiveStep DEF SrvTask
<1>4. CASE UNCHANGED vars
  <2>1. UNCHANGED <<task, config, tables, queues, signals, conn, world>>
    BY <1>4 DEF vars
  <2>2. TaskType' /\ ConfigType'
    BY <2>1 DEF IInv, TypeOK, TaskType, ConfigType, task, config
  <2>3. TablesType' /\ TablesAgree'
    <3>1. UNCHANGED <<connections, wr_streams, rd_streams, rd_handles>>
      BY <2>1 DEF tables
    <3>2. TablesType'
      BY <3>1 DEF IInv, TypeOK, TablesType
    <3>3. TablesAgree'
      BY <2>1, <3>1 DEF IInv, TablesAgree, task
    <3>4. QED
      BY <3>2, <3>3
  <2>4. QueuesType' /\ SignalsType'
    BY <2>1 DEF IInv, TypeOK, QueuesType, SignalsType, queues, signals
  <2>5. ConnType' /\ WorldType'
    BY <2>1 DEF IInv, TypeOK, ConnType, WorldType, conn, world
  <2>6. InHand'
    BY <2>1 DEF IInv, InHand, task, conn, world
  <2>7. QED
    BY <2>2, <2>3, <2>4, <2>5, <2>6 DEF IInv, TypeOK
<1>5. QED
  BY <1>1, <1>2, <1>3, <1>4 DEF Next

(***************************************************************************)
(* The results.                                                            *)
(***************************************************************************)

(* Every reachable state satisfies the inductive invariant.                 *)
THEOREM InductiveInvariant == Spec => []IInv
<1>1. QED
  BY InitInv, NextStep, PTL DEF Spec

(* Every variable of the server, its tasks and its clients keeps its type.  *)
THEOREM TypeCorrect == Spec => []TypeOK
<1>1. IInv => TypeOK
  BY DEF IInv
<1>2. QED
  BY <1>1, InductiveInvariant, PTL

(* For any number of connections, addresses and endpoints and any queue     *)
(* capacities, the four tables of the server agree.                         *)
THEOREM SessionsAgree == Spec => []TablesAgree
<1>1. IInv => TablesAgree
  BY DEF IInv
<1>2. QED
  BY <1>1, InductiveInvariant, PTL

-----------------------------------------------------------------------------
(***************************************************************************)
(* Sessions: a socket is open exactly as long as it is in the tables, it is *)
(* closed once, and the shutdown leaves none.                               *)
(***************************************************************************)

IsOpen(s) == wr_streams[AddrOf[s]] = s
Shuts(s)  == \E i \in DOMAIN out[s] : out[s][i] = "shut"

(* What the task has in hand only in some of its places.                    *)
Idle ==
  /\ pc \notin {"reconf", "reconfEof", "stop", "stopEof"} => todo = {}
  /\ pc \notin {"reconfEof", "stopEof", "dns", "greet"} => cur = NoSock
  /\ pc # "forward" => held = <<>>
  /\ pc = "init" => connections = Empty /\ txq = <<>> /\ \A s \in Sock : ~attached[s]
  /\ pc \in {"stop", "stopEof", "finish", "barrier"} => shutdown
  /\ pc \in {"finish", "barrier"} => \A s \in Sock : ~attached[s]

(* A session is in the tables under its own address, accepted, and its Rx   *)
(* task can send.                                                           *)
Entries ==
  /\ \A a \in Addr : wr_streams[a] # NoSock =>
       /\ AddrOf[wr_streams[a]] = a /\ net[wr_streams[a]] = "accepted"
       /\ pc \notin {"finish", "barrier"} => attached[wr_streams[a]]
  /\ \A a \in Addr : connections[a] # NoSock => AddrOf[connections[a]] = a

(* An accepted socket is open or closed, never both.                        *)
Sockets ==
  /\ \A s \in Sock : net[s] = "accepted" => IsOpen(s) \/ Shuts(s)
  /\ \A s \in Sock : IsOpen(s) => ~Shuts(s)
  /\ \A s \in Sock : \A i \in DOMAIN out[s] : out[s][i] = "shut" => i = Len(out[s])

(* Nothing has happened for a connection that is not accepted.              *)
Unopened ==
  \A s \in Sock : net[s] # "accepted" =>
    /\ out[s] = <<>> /\ rdpc[s] = "none" /\ rxpc[s] = "none"
    /\ ~attached[s] /\ chan[s] = <<>>

(* A session the shutdown finds is closed by a message on its way.          *)
EofQueued(a) == \E i \in DOMAIN txq : txq[i].data = "eof" /\ AddrOf[txq[i].sock] = a
Leaving ==
  /\ pc \in {"stop", "stopEof", "finish"} =>
       \A a \in Addr : connections[a] # NoSock =>
         \/ connections[a] \in todo \/ (pc = "stopEof" /\ connections[a] = cur)
         \/ EofQueued(a)
  /\ pc = "barrier" => connections = Empty

SInv == Idle /\ Entries /\ Sockets /\ Unopened /\ Leaving

-----------------------------------------------------------------------------
(* The transmit queue after a message was added, and after one was taken.   *)

LEMMA Enqueued ==
  ASSUME txq \in Seq(Outbound), NEW s, NEW m \in Outbound, ToClient(s, m)
  PROVE  \/ ~attached[s] /\ txq' = txq
         \/ /\ attached[s] /\ Len(txq) \in Nat
            /\ DOMAIN txq = 1 .. Len(txq) /\ DOMAIN txq' = 1 .. Len(txq) + 1
            /\ Len(txq') = Len(txq) + 1
            /\ \A i \in 1 .. Len(txq) : txq'[i] = txq[i]
            /\ txq'[Len(txq) + 1] = m
<1>1. CASE attached[s]
  <2>1. txq' = Append(txq, m)
    BY <1>1 DEF ToClient
  <2>2. QED
    BY <1>1, <2>1
<1>2. CASE ~attached[s]
  BY <1>2 DEF ToClient
<1>3. QED
  BY <1>1, <1>2

LEMMA Dequeued ==
  ASSUME txq \in Seq(Outbound), txq # <<>>, txq' = Tail(txq)
  PROVE  /\ Len(txq) \in Nat \ {0} /\ Len(txq') = Len(txq) - 1
         /\ DOMAIN txq = 1 .. Len(txq) /\ DOMAIN txq' = 1 .. Len(txq) - 1
         /\ Head(txq) = txq[1] /\ txq[1] \in Outbound
         /\ \A i \in 1 .. Len(txq) - 1 : txq'[i] = txq[i + 1]
  OBVIOUS

(* What is written to a socket is added to what was written before.         *)
LEMMA Written ==
  ASSUME NEW o \in Seq({"greet", "line", "shut"}), NEW d \in {"greet", "line", "shut"}
  PROVE  /\ Len(o) \in Nat /\ Len(Append(o, d)) = Len(o) + 1 /\ Append(o, d) # <<>>
         /\ DOMAIN o = 1 .. Len(o) /\ DOMAIN Append(o, d) = 1 .. Len(o) + 1
         /\ \A i \in 1 .. Len(o) : Append(o, d)[i] = o[i]
         /\ Append(o, d)[Len(o) + 1] = d
  OBVIOUS

(* The signals, the clients and the read tasks leave the sessions alone.    *)
Outside == Signal \/ (\E s \in Sock : Client(s) \/ RdTask(s)) \/ UNCHANGED vars

LEMMA OutsideFrame ==
  ASSUME IInv, Outside
  PROVE  /\ UNCHANGED <<pc, cur, held, todo, shutdown, connections, wr_streams, rd_streams,
                        txq, chan, attached, rxpc, out>>
         /\ \A t \in Sock : net'[t] = net[t] \/ (net[t] = "idle" /\ net'[t] = "pending")
         /\ \A t \in Sock : rdpc[t] = "none" => rdpc'[t] = "none"
<1> DEFINE Same == UNCHANGED <<pc, cur, held, todo, shutdown, connections, wr_streams,
                               rd_streams, txq, chan, attached, rxpc, out>>
           Netted == \A t \in Sock : net'[t] = net[t] \/ (net[t] = "idle" /\ net'[t] = "pending")
<1>0. rdpc \in [Sock -> {"none", "run", "send", "eof", "done", "dead"}]
      /\ net \in [Sock -> {"idle", "pending", "accepted", "refused"}]
  BY DEF IInv, TypeOK, ConnType, WorldType
<1>1. CASE Signal \/ UNCHANGED vars
  BY <1>1 DEF Signal, SendReconfigure, SendShutdown, vars, task, tables, queues, conn, world
<1>2. ASSUME NEW s \in Sock, Client(s)
      PROVE  Same /\ Netted /\ rdpc' = rdpc
  <2>1. Same /\ rdpc' = rdpc
    BY <1>2 DEF Client, ClientConnect, ClientClose, ClientReset, ClientSend, task, tables,
       queues, conn
  <2>2. Netted
    BY <1>0, <1>2 DEF Client, ClientConnect, ClientClose, ClientReset, ClientSend
  <2>3. QED
    BY <2>1, <2>2
<1>3. ASSUME NEW s \in Sock, RdTask(s)
      PROVE  /\ Same /\ Netted
             /\ \A t \in Sock : rdpc[t] = "none" => rdpc'[t] = "none"
  <2>1. Same /\ Netted
    BY <1>3 DEF RdTask, RdRead, RdEnd, RdSignal, RdSend, RdSendEof, task, tables, queues, world
  <2>2. rdpc[s] # "none" /\ \A t \in Sock : t # s => rdpc'[t] = rdpc[t]
    BY <1>0, <1>3 DEF RdTask, RdRead, RdEnd, RdSignal, RdSend, RdSendEof
  <2>3. QED
    BY <2>1, <2>2
<1>4. QED
  BY <1>1, <1>2, <1>3 DEF Outside

LEMMA OutsideStep == ASSUME IInv, SInv, Outside PROVE SInv'
<1>1. /\ UNCHANGED <<pc, cur, held, todo, shutdown, connections, wr_streams, rd_streams,
                     txq, chan, attached, rxpc, out>>
      /\ \A t \in Sock : net'[t] = net[t] \/ (net[t] = "idle" /\ net'[t] = "pending")
      /\ \A t \in Sock : rdpc[t] = "none" => rdpc'[t] = "none"
  BY OutsideFrame
<1>2. Idle' /\ Leaving'
  BY <1>1 DEF SInv, Idle, Leaving, EofQueued
<1>3. Entries'
  <2>1. \A a \in Addr : wr_streams[a] # NoSock => wr_streams[a] \in Sock
    BY DEF IInv, TypeOK, TablesType, Table
  <2>2. QED
    BY <1>1, <2>1 DEF SInv, Entries
<1>4. Sockets'
  BY <1>1 DEF SInv, Sockets, IsOpen, Shuts
<1>5. Unopened'
  BY <1>1 DEF SInv, Unopened
<1>6. QED
  BY <1>2, <1>3, <1>4, <1>5 DEF SInv

(* Rx tasks and everything that only adds to the transmit queue.            *)
LEMMA LeavingQueued ==
  ASSUME TypeOK, NEW s, NEW m \in Outbound, ToClient(s, m)
  PROVE  \A a \in Addr : EofQueued(a) => EofQueued(a)'
<1>1. txq \in Seq(Outbound)
  BY DEF TypeOK, QueuesType
<1>2. \A i \in DOMAIN txq : i \in DOMAIN txq' /\ txq'[i] = txq[i]
  BY <1>1, Enqueued
<1>3. QED
  BY <1>2 DEF EofQueued

LEMMA RxSessions == ASSUME IInv, SInv, NEW s \in Sock, RxTask(s) PROVE SInv'
<1>1. UNCHANGED <<task, config, tables, signals, rxq, attached, rdpc, nread, world>>
  BY DEF RxTask, RxRecv, RxSendLine, RxSendEof
<1>2. /\ rxpc[s] # "none" /\ \A t \in Sock : t # s => rxpc'[t] = rxpc[t] /\ chan'[t] = chan[t]
      /\ UNCHANGED txq \/ \E d \in {"line", "eof"} : ToClient(s, Out(s, d))
  BY DEF RxTask, RxRecv, RxSendLine, RxSendEof, IInv, TypeOK, ConnType, QueuesType
<1>3. \A d \in {"line", "eof"} : Out(s, d) \in Outbound
  BY DEF Out, Outbound
<1>4. pc = "init" => txq' = txq
  BY <1>2 DEF SInv, Idle, ToClient
<1>5. Idle'
  BY <1>1, <1>4 DEF SInv, Idle, task, tables
<1>6. Entries' /\ Sockets'
  BY <1>1 DEF SInv, Entries, Sockets, IsOpen, Shuts, task, tables, world
<1>7. Unopened'
  BY <1>1, <1>2 DEF SInv, Unopened, world
<1>8. Leaving'
  <2>1. \A a \in Addr : EofQueued(a) => EofQueued(a)'
    BY <1>2, <1>3, LeavingQueued DEF IInv, EofQueued
  <2>2. QED
    BY <1>1, <2>1 DEF SInv, Leaving, task, tables
<1>9. QED
  BY <1>5, <1>6, <1>7, <1>8 DEF SInv

(***************************************************************************)
(* The server task.                                                        *)
(***************************************************************************)

LEMMA InitSessions == Init => SInv
<1> SUFFICES ASSUME Init PROVE SInv
  OBVIOUS
<1> USE DEF Init
<1>1. Idle
  BY DEF Idle
<1>2. Entries
  BY DEF Entries, Empty
<1>3. Sockets
  BY SockAssumption DEF Sockets, IsOpen, Empty
<1>4. Unopened
  BY DEF Unopened
<1>5. Leaving
  BY DEF Leaving
<1>6. QED
  BY <1>1, <1>2, <1>3, <1>4, <1>5 DEF SInv

(* Closing a socket by writing "shut" to it.                                *)
LEMMA Closed ==
  ASSUME IInv, SInv, NEW s \in Sock, IsOpen(s), out'[s] = Append(out[s], "shut")
  PROVE  Shuts(s)' /\ \A i \in DOMAIN out'[s] : out'[s][i] = "shut" => i = Len(out'[s])
<1>1. out[s] \in Seq({"greet", "line", "shut"})
  BY DEF IInv, TypeOK, WorldType
<1>2. ~Shuts(s)
  BY DEF SInv, Sockets
<1>3. /\ DOMAIN out[s] = 1 .. Len(out[s]) /\ Len(out[s]) \in Nat
      /\ DOMAIN out'[s] = 1 .. Len(out[s]) + 1 /\ Len(out'[s]) = Len(out[s]) + 1
      /\ \A i \in 1 .. Len(out[s]) : out'[s][i] = out[s][i]
      /\ out'[s][Len(out[s]) + 1] = "shut"
  BY <1>1, Written
<1>4. Len(out[s]) + 1 \in DOMAIN out'[s]
  BY <1>3
<1>5. Shuts(s)'
  BY <1>3, <1>4 DEF Shuts
<1>6. \A i \in DOMAIN out'[s] : out'[s][i] = "shut" => i = Len(out'[s])
  BY <1>2, <1>3 DEF Shuts
<1>7. QED
  BY <1>5, <1>6

(* Whatever drops the tables closes every socket that is open.              *)
LEMMA DropEach ==
  ASSUME IInv, SInv, DropSessions, UNCHANGED <<chan, conn>>
  PROVE  Entries' /\ Sockets' /\ Unopened'
<1>1. /\ connections' = Empty /\ wr_streams' = Empty
      /\ \A s \in Sock : ~attached'[s]
      /\ \A s \in Sock : out'[s] = IF IsOpen(s) THEN Append(out[s], "shut") ELSE out[s]
      /\ \A s \in Sock : net'[s] = "accepted" => net[s] = "accepted"
  BY DEF DropSessions, IsOpen
<1>2. Entries'
  BY <1>1 DEF Entries, Empty
<1>3. \A s \in Sock : ~IsOpen(s)'
  BY <1>1, SockAssumption DEF IsOpen, Empty
<1>4. Sockets'
  <2>1. ASSUME NEW s \in Sock
        PROVE  /\ net'[s] = "accepted" => Shuts(s)'
               /\ \A i \in DOMAIN out'[s] : out'[s][i] = "shut" => i = Len(out'[s])
    <3>1. CASE IsOpen(s)
      BY <1>1, <3>1, Closed
    <3>2. CASE ~IsOpen(s)
      BY <1>1, <3>2 DEF SInv, Sockets, Shuts
    <3>3. QED
      BY <3>1, <3>2
  <2>2. QED
    BY <1>3, <2>1 DEF Sockets
<1>5. Unopened'
  <2>1. ASSUME NEW s \in Sock, net'[s] # "accepted"
        PROVE  net[s] # "accepted" /\ ~IsOpen(s)
    <3>1. net[s] # "accepted"
      BY <2>1 DEF DropSessions
    <3>2. IsOpen(s) => net[s] = "accepted"
      BY SockAssumption DEF SInv, Entries, IsOpen
    <3>3. QED
      BY <3>1, <3>2
  <2>2. QED
    BY <1>1, <2>1 DEF SInv, Unopened, conn
<1>6. QED
  BY <1>2, <1>4, <1>5

LEMMA PanicSessions == ASSUME IInv, SInv, Panic PROVE SInv'
<1>1. /\ DropSessions /\ UNCHANGED <<chan, conn>>
      /\ pc' = "dead" /\ cur' = NoSock /\ held' = <<>> /\ todo' = {}
  BY DEF Panic
<1>2. Idle' /\ Leaving'
  BY <1>1 DEF Idle, Leaving
<1>3. QED
  BY <1>1, <1>2, DropEach DEF SInv

LEMMA SwapSessions == ASSUME IInv, SInv, SrvReconfSwap PROVE SInv'
<1>1. /\ DropSessions /\ UNCHANGED <<chan, conn, cur, held, todo, shutdown>>
      /\ pc = "reconf" /\ pc' = "select" /\ todo = {}
  BY DEF SrvReconfSwap
<1>2. Idle' /\ Leaving'
  BY <1>1 DEF SInv, Idle, Leaving
<1>3. QED
  BY <1>1, <1>2, DropEach DEF SInv

(* Steps that leave the tables and the sockets as they are.                 *)
LEMMA TablesStay ==
  ASSUME IInv, SInv, UNCHANGED <<wr_streams, connections, attached, chan, conn, net, out>>,
         pc \in {"finish", "barrier"} => pc' \in {"finish", "barrier"}
  PROVE  Entries' /\ Sockets' /\ Unopened'
<1>1. Entries'
  BY DEF SInv, Entries
<1>2. Sockets'
  BY DEF SInv, Sockets, IsOpen, Shuts
<1>3. Unopened'
  BY DEF SInv, Unopened, conn
<1>4. QED
  BY <1>1, <1>2, <1>3

LEMMA SignalSessions == ASSUME IInv, SInv, SrvSignal PROVE SInv'
<1>1. CASE SrvInitShutdown
  <2>1. /\ UNCHANGED <<pc, cur, held, todo, tables, queues, conn, world>>
        /\ pc = "init"
    BY <1>1 DEF SrvInitShutdown
  <2>2. Idle' /\ Leaving'
    BY <2>1 DEF SInv, Idle, Leaving, tables, queues
  <2>3. QED
    BY <2>1, <2>2, TablesStay DEF SInv, tables, queues, world
<1>2. ASSUME NEW e \in Endpoint, SrvInitConfigure(e) PROVE SInv'
  <2>1. /\ UNCHANGED <<cur, held, todo, shutdown, tables, queues, conn, world>>
        /\ pc = "init" /\ pc' = IF shutdown THEN "stop" ELSE "select"
    BY <1>2 DEF SrvInitConfigure
  <2>2. Idle'
    BY <2>1 DEF SInv, Idle, tables, queues
  <2>3. Leaving'
    <3>1. connections' = Empty
      BY <2>1 DEF SInv, Idle, tables
    <3>2. QED
      BY <2>1, <3>1 DEF Leaving, Empty
  <2>4. QED
    BY <2>1, <2>2, <2>3, TablesStay DEF SInv, tables, queues, world
<1>3. CASE SrvShutdown
  <2>1. /\ UNCHANGED <<cur, held, tables, queues, conn, world>> /\ shutdown' = TRUE
        /\ pc = "select" /\ pc' = "stop"
        /\ todo' = {connections[a] : a \in Entry(connections)}
    BY <1>3 DEF SrvShutdown
  <2>2. Idle'
    BY <2>1 DEF SInv, Idle
  <2>3. Leaving'
    BY <2>1 DEF Leaving, Entry, tables
  <2>4. QED
    BY <2>1, <2>2, <2>3, TablesStay DEF SInv, tables, queues, world
<1>4. ASSUME NEW e \in Endpoint, SrvReconfigure(e) PROVE SInv'
  <2>1. /\ UNCHANGED <<cur, held, shutdown, wr_streams, queues, conn, world>>
        /\ pc = "select"
        /\ \/ pc' = "select" /\ UNCHANGED <<todo, connections>>
           \/ pc' = "reconf" /\ connections' = Empty
    BY <1>4 DEF SrvReconfigure
  <2>2. Idle' /\ Leaving'
    BY <2>1 DEF SInv, Idle, Leaving
  <2>3. CASE UNCHANGED connections
    BY <2>1, <2>2, <2>3, TablesStay DEF SInv, queues, world
  <2>4. CASE connections' = Empty
    <3>1. Entries'
      BY <2>1, <2>4 DEF SInv, Entries, Empty, queues, world
    <3>2. Sockets'
      BY <2>1 DEF SInv, Sockets, IsOpen, Shuts, world
    <3>3. Unopened'
      BY <2>1 DEF SInv, Unopened, queues, conn, world
    <3>4. QED
      BY <2>2, <3>1, <3>2, <3>3 DEF SInv
  <2>5. QED
    BY <2>1, <2>3, <2>4
<1>5. QED
  BY <1>1, <1>2, <1>3, <1>4 DEF SrvSignal

(* connection.disconnect of the server task: the line, then the message     *)
(* that closes the socket.                                                  *)
LEMMA ByeSessions ==
  ASSUME IInv, SInv, SrvByeEof \/ \E s \in Sock : SrvByeLine(s) PROVE SInv'
<1>1. ASSUME NEW s \in Sock, SrvByeLine(s) PROVE SInv'
  <2>1. /\ UNCHANGED <<held, shutdown, tables, rxq, chan, attached, conn, world>>
        /\ s \in todo /\ ToClient(s, Out(s, "line"))
        /\ cur' = s /\ todo' = todo \ {s}
        /\ \/ pc = "reconf" /\ pc' = "reconfEof"
           \/ pc = "stop" /\ pc' = "stopEof"
    BY <1>1 DEF SrvByeLine
  <2>2. Out(s, "line") \in Outbound
    BY DEF Out, Outbound
  <2>3. Idle'
    BY <2>1 DEF SInv, Idle
  <2>4. Leaving'
    <3>1. \A a \in Addr : EofQueued(a) => EofQueued(a)'
      BY <2>1, <2>2, LeavingQueued DEF IInv
    <3>2. QED
      BY <2>1, <3>1 DEF SInv, Leaving, tables
  <2>5. QED
    BY <2>1, <2>3, <2>4, TablesStay DEF SInv, tables, world
<1>2. CASE SrvByeEof
  <2>1. /\ UNCHANGED <<held, todo, shutdown, tables, rxq, chan, attached, conn, world>>
        /\ ToClient(cur, Out(cur, "eof")) /\ cur' = NoSock /\ cur \in Sock
        /\ \/ pc = "reconfEof" /\ pc' = "reconf"
           \/ pc = "stopEof" /\ pc' = "stop"
    BY <1>2 DEF SrvByeEof, IInv, InHand
  <2>2. Out(cur, "eof") \in Outbound
    BY <2>1 DEF Out, Outbound
  <2>3. Idle'
    BY <2>1 DEF SInv, Idle
  <2>4. Leaving'
    <3>1. \A a \in Addr : EofQueued(a) => EofQueued(a)'
      BY <2>1, <2>2, LeavingQueued DEF IInv
    <3>2. ASSUME NEW a \in Addr, connections[a] = cur, pc = "stopEof"
          PROVE  EofQueued(a)'
      <4>1. AddrOf[cur] = a /\ wr_streams[a] = cur /\ attached[cur]
        <5>1. cur # NoSock /\ connections[a] = wr_streams[a]
          BY <2>1, <3>2, SockAssumption DEF IInv, TablesAgree
        <5>2. QED
          BY <3>2, <5>1 DEF SInv, Entries
      <4>2. txq \in Seq(Outbound)
        BY DEF IInv, TypeOK, QueuesType
      <4>3. \E i \in DOMAIN txq' : txq'[i] = Out(cur, "eof")
        BY <2>1, <2>2, <4>1, <4>2, Enqueued
      <4>4. QED
        BY <4>1, <4>3 DEF EofQueued, Out
    <3>3. QED
      BY <2>1, <3>1, <3>2 DEF SInv, Leaving, tables
  <2>5. QED
    BY <2>1, <2>3, <2>4, TablesStay DEF SInv, tables, world
<1>3. QED
  BY <1>1, <1>2

LEMMA StopSessions == ASSUME IInv, SInv, SrvStopClose \/ SrvFinish PROVE SInv'
<1>1. CASE SrvStopClose
  <2>1. /\ UNCHANGED <<cur, held, todo, shutdown, tables, txq, chan, conn, world>>
        /\ pc = "stop" /\ pc' = "finish" /\ todo = {}
        /\ \A s \in Sock : ~attached'[s]
    BY <1>1 DEF SrvStopClose
  <2>2. Idle'
    BY <2>1 DEF SInv, Idle
  <2>3. Entries'
    BY <2>1 DEF SInv, Entries, tables, world
  <2>4. Sockets'
    BY <2>1 DEF SInv, Sockets, IsOpen, Shuts, tables, world
  <2>5. Unopened'
    BY <2>1 DEF SInv, Unopened, conn, world
  <2>6. Leaving'
    BY <2>1 DEF SInv, Leaving, EofQueued, tables
  <2>7. QED
    BY <2>2, <2>3, <2>4, <2>5, <2>6 DEF SInv
<1>2. CASE SrvFinish
  <2>1. /\ UNCHANGED <<cur, held, todo, shutdown, tables, queues, conn, world>>
        /\ pc = "finish" /\ pc' = "barrier" /\ txq = <<>>
    BY <1>2 DEF SrvFinish
  <2>2. Idle'
    BY <2>1 DEF SInv, Idle, queues
  <2>3. Leaving'
    <3>1. DOMAIN txq = {}
      BY <2>1
    <3>2. \A a \in Addr : connections[a] = NoSock
      BY <2>1, <3>1 DEF SInv, Idle, Leaving, EofQueued
    <3>3. connections = Empty
      BY <3>2 DEF Empty, IInv, TypeOK, TablesType, Table
    <3>4. QED
      BY <2>1, <3>3 DEF Leaving, tables
  <2>4. QED
    BY <2>1, <2>2, <2>3, TablesStay DEF SInv, tables, queues, world
<1>3. QED
  BY <1>1, <1>2

(* An accepted connection takes its address; if a session was still there,  *)
(* its socket is closed by the overwritten entry.                           *)
LEMMA AcceptSessions == ASSUME IInv, SInv, NEW s \in Sock, SrvAccept(s) PROVE SInv'
<1> DEFINE a == AddrOf[s]
<1>1. /\ UNCHANGED <<held, todo, shutdown, connections, txq, chan>>
      /\ pc = "select" /\ pc' = "dns" /\ net[s] = "pending"
      /\ wr_streams' = [wr_streams EXCEPT ![a] = s]
      /\ \A t \in Sock : out'[t] = IF wr_streams[a] = t THEN Append(out[t], "shut") ELSE out[t]
  BY DEF SrvAccept
<1>2. /\ net'[s] = "accepted" /\ attached'[s]
      /\ \A t \in Sock : t # s => /\ net'[t] = net[t] /\ attached'[t] = attached[t]
                                  /\ rdpc'[t] = rdpc[t] /\ rxpc'[t] = rxpc[t]
  BY DEF SrvAccept, IInv, TypeOK, ConnType, QueuesType, WorldType
<1>3. /\ a \in Addr /\ wr_streams'[a] = s
      /\ \A b \in Addr : b # a => wr_streams'[b] = wr_streams[b]
      /\ \A b \in Addr : wr_streams[b] \in Sock \cup {NoSock}
  BY <1>1, SockAssumption DEF IInv, TypeOK, TablesType, Table
<1>4. out[s] = <<>> /\ wr_streams[a] # s
  BY <1>1, <1>3, SockAssumption DEF SInv, Unopened, Entries
<1>5. Idle'
  BY <1>1 DEF SInv, Idle
<1>6. Leaving'
  BY <1>1 DEF Leaving
<1>7. Entries'
  <2>1. ASSUME NEW b \in Addr, wr_streams'[b] # NoSock
        PROVE  AddrOf[wr_streams'[b]] = b /\ net'[wr_streams'[b]] = "accepted"
               /\ attached'[wr_streams'[b]]
    <3>1. CASE b = a
      BY <1>2, <1>3, <3>1
    <3>2. CASE b # a
      <4>1. /\ wr_streams'[b] = wr_streams[b] /\ wr_streams[b] \in Sock
            /\ AddrOf[wr_streams[b]] = b /\ net[wr_streams[b]] = "accepted"
            /\ attached[wr_streams[b]]
        BY <1>1, <1>3, <2>1, <3>2 DEF SInv, Entries
      <4>2. QED
        BY <1>2, <3>2, <4>1
    <3>3. QED
      BY <3>1, <3>2
  <2>2. QED
    BY <1>1, <2>1 DEF SInv, Entries
<1>8. Sockets'
  <2>1. ASSUME NEW t \in Sock
        PROVE  /\ net'[t] = "accepted" => IsOpen(t)' \/ Shuts(t)'
               /\ IsOpen(t)' => ~Shuts(t)'
               /\ \A i \in DOMAIN out'[t] : out'[t][i] = "shut" => i = Len(out'[t])
    <3>0. AddrOf[t] \in Addr
      BY SockAssumption
    <3>1. CASE t = s
      BY <1>1, <1>3, <1>4, <3>1 DEF IsOpen, Shuts
    <3>2. CASE t # s /\ wr_streams[a] = t
      <4>1. AddrOf[t] = a
        BY <1>3, <3>2, SockAssumption DEF SInv, Entries
      <4>2. IsOpen(t) /\ ~IsOpen(t)'
        BY <1>3, <3>2, <4>1 DEF IsOpen
      <4>3. QED
        BY <1>1, <3>2, <4>2, Closed
    <3>3. CASE t # s /\ wr_streams[a] # t
      <4>1. out'[t] = out[t] /\ net'[t] = net[t] /\ (IsOpen(t)' <=> IsOpen(t))
        BY <1>1, <1>2, <1>3, <3>0, <3>3 DEF IsOpen
      <4>2. QED
        BY <4>1 DEF SInv, Sockets, Shuts
    <3>4. QED
      BY <3>1, <3>2, <3>3
  <2>2. QED
    BY <2>1 DEF Sockets
<1>9. Unopened'
  <2>1. ASSUME NEW t \in Sock, net'[t] # "accepted"
        PROVE  t # s /\ net[t] # "accepted" /\ wr_streams[a] # t
    BY <1>2, <1>3, <2>1, SockAssumption DEF SInv, Entries
  <2>2. QED
    BY <1>1, <1>2, <2>1 DEF SInv, Unopened
<1>10. QED
  BY <1>5, <1>6, <1>7, <1>8, <1>9 DEF SInv

LEMMA SetUpSessions == ASSUME IInv, SInv, SrvDnsDone \/ SrvGreet PROVE SInv'
<1>1. CASE SrvDnsDone
  <2>1. /\ UNCHANGED <<cur, held, todo, shutdown, wr_streams, queues, conn, world>>
        /\ pc = "dns" /\ pc' = "greet" /\ cur \in Sock
        /\ connections' = [connections EXCEPT ![AddrOf[cur]] = cur]
    BY <1>1 DEF SrvDnsDone, IInv, InHand
  <2>2. Idle' /\ Leaving'
    BY <2>1 DEF SInv, Idle, Leaving
  <2>3. Entries'
    <3>1. \A b \in Addr : \/ connections'[b] = connections[b]
                          \/ b = AddrOf[cur] /\ connections'[b] = cur
      BY <2>1 DEF IInv, TypeOK, TablesType, Table
    <3>2. \A b \in Addr : connections'[b] # NoSock => AddrOf[connections'[b]] = b
      BY <3>1 DEF SInv, Entries
    <3>3. QED
      BY <2>1, <3>2 DEF SInv, Entries, queues, world
  <2>4. Sockets'
    BY <2>1 DEF SInv, Sockets, IsOpen, Shuts, world
  <2>5. Unopened'
    BY <2>1 DEF SInv, Unopened, queues, conn, world
  <2>6. QED
    BY <2>2, <2>3, <2>4, <2>5 DEF SInv
<1>2. CASE SrvGreet
  <2>1. /\ UNCHANGED <<held, todo, shutdown, tables, chan, attached, conn, world>>
        /\ pc = "greet" /\ pc' = "select" /\ cur' = NoSock
    BY <1>2 DEF SrvGreet
  <2>2. Idle' /\ Leaving'
    BY <2>1 DEF SInv, Idle, Leaving
  <2>3. QED
    BY <2>1, <2>2, TablesStay DEF SInv, tables, world
<1>3. QED
  BY <1>1, <1>2

(* The rest of the transmit queue, after its head was taken.                *)
LEMMA EofStays ==
  ASSUME IInv, txq # <<>>, txq' = Tail(txq), NEW b, EofQueued(b),
         txq[1].data = "eof" => AddrOf[txq[1].sock] # b
  PROVE  EofQueued(b)'
<1>1. txq \in Seq(Outbound)
  BY DEF IInv, TypeOK, QueuesType
<1>2. PICK i \in DOMAIN txq : txq[i].data = "eof" /\ AddrOf[txq[i].sock] = b
  BY DEF EofQueued
<1>3. /\ Len(txq) \in Nat \ {0} /\ DOMAIN txq = 1 .. Len(txq)
      /\ DOMAIN txq' = 1 .. Len(txq) - 1
      /\ \A j \in 1 .. Len(txq) - 1 : txq'[j] = txq[j + 1]
  BY <1>1, Dequeued
<1>4. i - 1 \in DOMAIN txq' /\ txq'[i - 1] = txq[i]
  BY <1>2, <1>3
<1>5. QED
  BY <1>2, <1>4 DEF EofQueued

(* What SrvSend does, with the names of Transmit: nothing for an address    *)
(* without a session, a write, or the close of the session.                 *)
LEMMA SendCases ==
  ASSUME IInv, SrvSend
  PROVE  /\ UNCHANGED <<task, chan, attached, conn, net>>
         /\ pc \in {"select", "finish"} /\ txq # <<>> /\ txq' = Tail(txq)
         /\ \E a \in Addr, m \in Outbound :
              /\ m = txq[1] /\ a = AddrOf[m.sock]
              /\ \/ wr_streams[a] = NoSock /\ UNCHANGED <<connections, wr_streams, out>>
                 \/ \E s \in Sock :
                      /\ s = wr_streams[a] /\ m.data # "eof"
                      /\ UNCHANGED <<connections, wr_streams>>
                      /\ out' = [out EXCEPT ![s] = Append(out[s], m.data)]
                 \/ \E s \in Sock :
                      /\ s = wr_streams[a] /\ m.data = "eof"
                      /\ out' = [out EXCEPT ![s] = Append(out[s], "shut")]
                      /\ wr_streams' = [wr_streams EXCEPT ![a] = NoSock]
                      /\ connections' = [connections EXCEPT ![a] = NoSock]
<1>1. /\ UNCHANGED <<task, chan, attached, conn, net>>
      /\ pc \in {"select", "finish"} /\ txq # <<>> /\ txq' = Tail(txq)
      /\ Transmit(Head(txq))
  BY DEF SrvSend
<1>2. Head(txq) = txq[1] /\ txq[1] \in Outbound
  BY <1>1, Dequeued DEF IInv, TypeOK, QueuesType
<1>3. AddrOf[txq[1].sock] \in Addr
  BY <1>2, SockAssumption DEF Outbound
<1>4. wr_streams[AddrOf[txq[1].sock]] \in Sock \cup {NoSock}
  BY <1>3 DEF IInv, TypeOK, TablesType, Table
<1>5. QED
  BY <1>1, <1>2, <1>3, <1>4 DEF Transmit

LEMMA SendNothing ==
  ASSUME IInv, SInv, UNCHANGED <<task, chan, attached, conn, net, connections, wr_streams, out>>,
         txq # <<>>, txq' = Tail(txq), pc \in {"select", "finish"},
         wr_streams[AddrOf[txq[1].sock]] = NoSock
  PROVE  SInv'
<1>1. Idle'
  BY DEF SInv, Idle, task
<1>2. Leaving'
  <2>1. \A b \in Addr : pc = "finish" /\ connections[b] # NoSock => EofQueued(b)
    BY DEF SInv, Leaving, Idle
  <2>2. \A b \in Addr : pc = "finish" /\ connections[b] # NoSock => wr_streams[b] # NoSock
    BY DEF IInv, TablesAgree
  <2>3. \A b \in Addr : pc = "finish" /\ connections[b] # NoSock => EofQueued(b)'
    BY <2>1, <2>2, EofStays
  <2>4. QED
    BY <2>3 DEF Leaving, task
<1>3. QED
  BY <1>1, <1>2, TablesStay DEF SInv, task

LEMMA SendText ==
  ASSUME IInv, SInv, UNCHANGED <<task, chan, attached, conn, net, connections, wr_streams>>,
         txq # <<>>, txq' = Tail(txq), pc \in {"select", "finish"},
         NEW s \in Sock, IsOpen(s), txq[1].data # "eof",
         NEW d \in {"greet", "line"}, out' = [out EXCEPT ![s] = Append(out[s], d)]
  PROVE  SInv'
<1>1. Idle'
  BY DEF SInv, Idle, task
<1>2. Leaving'
  <2>1. \A b \in Addr : pc = "finish" /\ connections[b] # NoSock => EofQueued(b)
    BY DEF SInv, Leaving, Idle
  <2>2. \A b \in Addr : pc = "finish" /\ connections[b] # NoSock => EofQueued(b)'
    BY <2>1, EofStays
  <2>3. QED
    BY <2>2 DEF Leaving, task
<1>3. /\ out[s] \in Seq({"greet", "line", "shut"}) /\ out'[s] = Append(out[s], d)
      /\ \A t \in Sock : t # s => out'[t] = out[t]
  BY DEF IInv, TypeOK, WorldType
<1>4. \A i \in DOMAIN out'[s] : out'[s][i] # "shut"
  <2>1. /\ Len(out[s]) \in Nat /\ DOMAIN out[s] = 1 .. Len(out[s])
        /\ DOMAIN out'[s] = 1 .. Len(out[s]) + 1
        /\ \A i \in 1 .. Len(out[s]) : out'[s][i] = out[s][i]
        /\ out'[s][Len(out[s]) + 1] = d
    BY <1>3, Written
  <2>2. \A i \in DOMAIN out[s] : out[s][i] # "shut"
    BY DEF SInv, Sockets, Shuts
  <2>3. QED
    BY <2>1, <2>2
<1>5. Sockets'
  <2>1. \A t \in Sock : IsOpen(t)' <=> IsOpen(t)
    BY DEF IsOpen
  <2>2. \A t \in Sock : t # s => (Shuts(t)' <=> Shuts(t))
    BY <1>3 DEF Shuts
  <2>3. ~Shuts(s)'
    BY <1>4 DEF Shuts
  <2>4. ASSUME NEW t \in Sock
        PROVE  /\ net'[t] = "accepted" => IsOpen(t)' \/ Shuts(t)'
               /\ IsOpen(t)' => ~Shuts(t)'
               /\ \A i \in DOMAIN out'[t] : out'[t][i] = "shut" => i = Len(out'[t])
    <3>1. CASE t = s
      BY <1>4, <2>1, <2>3, <3>1
    <3>2. CASE t # s
      BY <1>3, <2>1, <2>2, <3>2 DEF SInv, Sockets
    <3>3. QED
      BY <3>1, <3>2
  <2>5. QED
    BY <2>4 DEF Sockets
<1>6. Entries'
  BY DEF SInv, Entries, task
<1>7. Unopened'
  <2>1. net[s] = "accepted"
    BY SockAssumption DEF SInv, Entries, IsOpen
  <2>2. QED
    BY <1>3, <2>1 DEF SInv, Unopened, conn
<1>8. QED
  BY <1>1, <1>2, <1>5, <1>6, <1>7 DEF SInv

LEMMA SendClose ==
  ASSUME IInv, SInv, UNCHANGED <<task, chan, attached, conn, net>>,
         txq # <<>>, txq' = Tail(txq), pc \in {"select", "finish"},
         NEW s \in Sock, NEW a \in Addr, AddrOf[txq[1].sock] = a, wr_streams[a] = s,
         out' = [out EXCEPT ![s] = Append(out[s], "shut")],
         wr_streams' = [wr_streams EXCEPT ![a] = NoSock],
         connections' = [connections EXCEPT ![a] = NoSock]
  PROVE  SInv'
<1>1. Idle'
  BY DEF SInv, Idle, task
<1>2. AddrOf[s] = a /\ IsOpen(s) /\ net[s] = "accepted"
  BY SockAssumption DEF SInv, Entries, IsOpen
<1>3. /\ out'[s] = Append(out[s], "shut") /\ \A t \in Sock : t # s => out'[t] = out[t]
      /\ wr_streams'[a] = NoSock /\ connections'[a] = NoSock
      /\ \A b \in Addr : b # a => /\ wr_streams'[b] = wr_streams[b]
                                  /\ connections'[b] = connections[b]
  BY DEF IInv, TypeOK, TablesType, Table, WorldType
<1>4. Leaving'
  <2>1. \A b \in Addr : pc = "finish" /\ connections[b] # NoSock => EofQueued(b)
    BY DEF SInv, Leaving, Idle
  <2>2. \A b \in Addr : pc = "finish" /\ connections'[b] # NoSock => EofQueued(b)'
    BY <1>3, <2>1, EofStays
  <2>3. QED
    BY <2>2 DEF Leaving, task
<1>5. ~IsOpen(s)' /\ \A t \in Sock : t # s => (IsOpen(t)' <=> IsOpen(t))
  BY <1>2, <1>3, SockAssumption DEF IsOpen
<1>6. Shuts(s)' /\ \A i \in DOMAIN out'[s] : out'[s][i] = "shut" => i = Len(out'[s])
  BY <1>2, <1>3, Closed
<1>7. Sockets'
  <2>1. ASSUME NEW t \in Sock
        PROVE  /\ net'[t] = "accepted" => IsOpen(t)' \/ Shuts(t)'
               /\ IsOpen(t)' => ~Shuts(t)'
               /\ \A i \in DOMAIN out'[t] : out'[t][i] = "shut" => i = Len(out'[t])
    <3>1. CASE t = s
      BY <1>5, <1>6, <3>1
    <3>2. CASE t # s
      BY <1>3, <1>5, <3>2 DEF SInv, Sockets, Shuts
    <3>3. QED
      BY <3>1, <3>2
  <2>2. QED
    BY <2>1 DEF Sockets
<1>8. Entries'
  BY <1>3 DEF SInv, Entries, task
<1>9. Unopened'
  BY <1>2, <1>3 DEF SInv, Unopened, conn
<1>10. QED
  BY <1>1, <1>4, <1>7, <1>8, <1>9 DEF SInv

LEMMA SendSessions == ASSUME IInv, SInv, SrvSend PROVE SInv'
<1>1. /\ UNCHANGED <<task, chan, attached, conn, net>>
      /\ pc \in {"select", "finish"} /\ txq # <<>> /\ txq' = Tail(txq)
  BY SendCases
<1>2. PICK a \in Addr, m \in Outbound :
        /\ m = txq[1] /\ a = AddrOf[m.sock]
        /\ \/ wr_streams[a] = NoSock /\ UNCHANGED <<connections, wr_streams, out>>
           \/ \E s \in Sock :
                /\ s = wr_streams[a] /\ m.data # "eof"
                /\ UNCHANGED <<connections, wr_streams>>
                /\ out' = [out EXCEPT ![s] = Append(out[s], m.data)]
           \/ \E s \in Sock :
                /\ s = wr_streams[a] /\ m.data = "eof"
                /\ out' = [out EXCEPT ![s] = Append(out[s], "shut")]
                /\ wr_streams' = [wr_streams EXCEPT ![a] = NoSock]
                /\ connections' = [connections EXCEPT ![a] = NoSock]
  BY SendCases
<1>3. CASE wr_streams[a] = NoSock /\ UNCHANGED <<connections, wr_streams, out>>
  BY <1>1, <1>2, <1>3, SendNothing
<1>4. ASSUME NEW s \in Sock, s = wr_streams[a], m.data # "eof",
             UNCHANGED <<connections, wr_streams>>,
             out' = [out EXCEPT ![s] = Append(out[s], m.data)]
      PROVE  SInv'
  <2>1. IsOpen(s)
    BY <1>2, <1>4, SockAssumption DEF SInv, Entries, IsOpen
  <2>2. m.data \in {"greet", "line"}
    BY <1>2, <1>4 DEF Outbound
  <2>3. QED
    BY <1>1, <1>2, <1>4, <2>1, <2>2, SendText
<1>5. ASSUME NEW s \in Sock, s = wr_streams[a],
             out' = [out EXCEPT ![s] = Append(out[s], "shut")],
             wr_streams' = [wr_streams EXCEPT ![a] = NoSock],
             connections' = [connections EXCEPT ![a] = NoSock]
      PROVE  SInv'
  BY <1>1, <1>2, <1>5, SendClose
<1>6. QED
  BY <1>2, <1>3, <1>4, <1>5

(* A message is forwarded to a session of the tables, which is accepted.    *)
LEMMA ReceiveSessions == ASSUME IInv, SInv, SrvReceive \/ SrvForward PROVE SInv'
<1>1. CASE SrvReceive
  <2>1. /\ UNCHANGED <<cur, todo, shutdown, tables, txq, chan, attached, conn, world>>
        /\ pc = "select" /\ pc' = "forward"
    BY <1>1 DEF SrvReceive
  <2>2. Idle' /\ Leaving'
    BY <2>1 DEF SInv, Idle, Leaving
  <2>3. QED
    BY <2>1, <2>2, TablesStay DEF SInv, tables, world
<1>2. CASE SrvForward
  <2> DEFINE a == AddrOf[Head(held).sock]
             s == connections[a]
  <2>1. /\ UNCHANGED <<cur, todo, shutdown, tables, rxq, txq, attached, conn, world>>
        /\ pc = "forward" /\ pc' = "select" /\ held' = <<>>
        /\ \/ chan' = chan
           \/ Listening(a) /\ chan' = [chan EXCEPT ![s] = Append(chan[s], Head(held))]
    BY <1>2 DEF SrvForward
  <2>2. Idle' /\ Leaving'
    BY <2>1 DEF SInv, Idle, Leaving
  <2>3. Entries' /\ Sockets'
    <3>1. Entries'
      BY <2>1 DEF SInv, Entries, tables, world
    <3>2. Sockets'
      BY <2>1 DEF SInv, Sockets, IsOpen, Shuts, tables, world
    <3>3. QED
      BY <3>1, <3>2
  <2>4. Unopened'
    <3>1. \A t \in Sock : chan'[t] = chan[t] \/ (Listening(a) /\ t = s)
      BY <2>1 DEF IInv, TypeOK, QueuesType
    <3>2. ASSUME Listening(a), s \in Sock PROVE net[s] = "accepted"
      BY <3>2 DEF SInv, Unopened, Listening
    <3>3. QED
      BY <2>1, <3>1, <3>2 DEF SInv, Unopened, conn, world
  <2>5. QED
    BY <2>2, <2>3, <2>4 DEF SInv
<1>3. QED
  BY <1>1, <1>2

LEMMA NextSessions == IInv /\ SInv /\ [Next]_vars => SInv'
<1> SUFFICES ASSUME IInv, SInv, [Next]_vars PROVE SInv'
  OBVIOUS
<1>1. CASE Outside
  BY <1>1, OutsideStep
<1>2. ASSUME NEW s \in Sock, RxTask(s) PROVE SInv'
  BY <1>2, RxSessions
<1>3. CASE SrvTask
  <2>1. CASE SrvLagged \/ SrvAcceptError \/ SrvStartError
    BY <2>1, PanicSessions DEF SrvLagged, SrvAcceptError, SrvStartError
  <2>2. CASE SrvCommitted
    BY <2>2, ByeSessions, SwapSessions, StopSessions, SetUpSessions, ReceiveSessions
    DEF SrvCommitted
  <2>3. CASE (\E s \in Sock : SrvAccept(s)) \/ SrvSignal \/ SrvSend \/ SrvReceive
    BY <2>3, AcceptSessions, SignalSessions, SendSessions, ReceiveSessions
  <2>4. QED
    BY <1>3, <2>1, <2>2, <2>3 DEF SrvTask
<1>4. QED
  BY <1>1, <1>2, <1>3 DEF Next, Outside

(***************************************************************************)
(* The results.                                                            *)
(***************************************************************************)

(* Every reachable state satisfies the invariant of the sessions.           *)
THEOREM SessionInvariant == Spec => [](IInv /\ SInv)
<1>1. IInv /\ SInv /\ [Next]_vars => (IInv /\ SInv)'
  BY NextStep, NextSessions
<1>2. Init => IInv /\ SInv
  BY InitInv, InitSessions
<1>3. QED
  BY <1>1, <1>2, PTL DEF Spec

(* At the shutdown barrier the tables are empty and every connection that   *)
(* was ever accepted has been closed, whatever its client, its tasks and    *)
(* the signals did.                                                         *)
THEOREM ShutdownLeavesNone == Spec => []ShutdownClosesAll
<1>1. IInv /\ SInv => ShutdownClosesAll
  <2> SUFFICES ASSUME IInv, SInv, pc = "barrier"
               PROVE  /\ connections = Empty /\ wr_streams = Empty /\ rd_streams = Empty
                      /\ \A s \in Sock : net[s] = "accepted" =>
                            out[s] # <<>> /\ out[s][Len(out[s])] = "shut"
    BY DEF ShutdownClosesAll
  <2>1. connections = Empty
    BY DEF SInv, Leaving
  <2>2. \A a \in Addr : wr_streams[a] = NoSock
    BY <2>1 DEF IInv, TablesAgree, Empty
  <2>3. wr_streams = Empty /\ rd_streams = Empty
    BY <2>2 DEF IInv, TypeOK, TablesType, Table, TablesAgree, Empty
  <2>4. ASSUME NEW s \in Sock, net[s] = "accepted"
        PROVE  out[s] # <<>> /\ out[s][Len(out[s])] = "shut"
    <3>1. AddrOf[s] \in Addr /\ ~IsOpen(s)
      BY <2>2, SockAssumption DEF IsOpen
    <3>2. PICK i \in DOMAIN out[s] : out[s][i] = "shut"
      BY <2>4, <3>1 DEF SInv, Sockets, Shuts
    <3>3. i = Len(out[s])
      BY <3>2 DEF SInv, Sockets
    <3>4. out[s] # <<>>
      BY <3>2
    <3>5. QED
      BY <3>2, <3>3, <3>4
  <2>5. QED
    BY <2>1, <2>3, <2>4
<1>2. QED
  BY <1>1, SessionInvariant, PTL

(* Nothing is ever written to a socket after it was closed, and it is       *)
(* closed once.                                                             *)
THEOREM NothingAfterClose ==
  Spec => [](\A s \in Sock : \A i \in DOMAIN out[s] : out[s][i] = "shut" => i = Len(out[s]))
<1>1. IInv /\ SInv =>
        \A s \in Sock : \A i \in DOMAIN out[s] : out[s][i] = "shut" => i = Len(out[s])
  BY DEF SInv, Sockets
<1>2. QED
  BY <1>1, SessionInvariant, PTL

(* A socket that was accepted and not closed is in the tables under its own *)
(* address, and no other is: the server never forgets a connection it has   *)
(* to close, and never keeps one it has closed.                             *)
THEOREM OpenAreListed ==
  Spec => [](\A s \in Sock : (net[s] = "accepted" /\ ~Shuts(s)) <=> IsOpen(s))
<1>1. IInv /\ SInv => \A s \in Sock : (net[s] = "accepted" /\ ~Shuts(s)) <=> IsOpen(s)
  <2>1. \A s \in Sock : AddrOf[s] \in Addr /\ s # NoSock
    BY SockAssumption
  <2>2. QED
    BY <2>1 DEF SInv, Sockets, Entries, IsOpen
<1>2. QED
  BY <1>1, SessionInvariant, PTL

-----------------------------------------------------------------------------
(***************************************************************************)
(* The order of what Server writes to a socket.  These proofs need          *)
(* that no connection takes over the address of a session: either clients   *)
(* do not abort connections (an address is then free only after the server  *)
(* closed the old socket), or no two connections come from one address.     *)
(* Without it a queued line of the old session may be written to the new    *)
(* one before its greeting.                                                 *)
(***************************************************************************)

NoTakeover ==
  ~AllowReset \/ \A s, t \in Sock : AddrOf[s] = AddrOf[t] => s = t

(* Outside these the task is closing every session, and no session that is  *)
(* closed comes back.                                                       *)
Running == {"init", "select", "dns", "greet", "forward"}
Live(s) == attached[s] /\ rxpc[s] \in {"recv", "line", "eof"}

(* Of the connections from one address at most one still holds it.          *)
Alone ==
  /\ AllowReset \/ \A s \in Sock : peer[s] # "rst"
  /\ \A s, t \in Sock : AddrOf[s] = AddrOf[t] => s = t \/ Gone(s) \/ Gone(t)

(* A message in the transmit queue, and one that can still be put there,    *)
(* belongs to the session in the tables or finds no session there; while    *)
(* the task runs its select! the session is always there.                   *)
Present ==
  /\ \A i \in DOMAIN txq : net[txq[i].sock] = "accepted"
  /\ \A i \in DOMAIN txq : wr_streams[AddrOf[txq[i].sock]] \in {NoSock, txq[i].sock}
  /\ \A s \in Sock : Live(s) => wr_streams[AddrOf[s]] \in {NoSock, s}
  /\ \A s \in todo : IsOpen(s)
  /\ cur # NoSock => IsOpen(cur)
  /\ pc \in Running =>
       /\ \A i \in DOMAIN txq : IsOpen(txq[i].sock)
       /\ \A s \in Sock : Live(s) => IsOpen(s)

(* The message that closes a socket is the last its Rx task sends.          *)
LastWords ==
  pc \in Running =>
    \A i \in DOMAIN txq : txq[i].data = "eof" =>
      /\ rxpc[txq[i].sock] = "done"
      /\ \A j \in DOMAIN txq : j > i => txq[j].sock # txq[i].sock

(* The connection being accepted has nothing to read or to say yet.         *)
Fresh ==
  pc \in {"dns", "greet"} =>
    /\ rxpc[cur] = "recv" /\ chan[cur] = <<>> /\ out[cur] = <<>>
    /\ \A i \in DOMAIN txq : txq[i].sock # cur

(* The greeting is the first message of a session.                          *)
Greeted(s) == out[s] # <<>> \/ \E i \in DOMAIN txq : txq[i] = Out(s, "greet")
FirstWords ==
  /\ \A s \in Sock : out[s] # <<>> => out[s][1] \in {"greet", "shut"}
  /\ \A s \in Sock : attached[s] => Greeted(s) \/ (pc \in {"dns", "greet"} /\ cur = s)
  /\ \A i \in DOMAIN txq : txq[i].data = "line" =>
       \/ out[txq[i].sock] # <<>>
       \/ \E j \in DOMAIN txq : j <= i /\ txq[j] = Out(txq[i].sock, "greet")
  /\ \A i \in DOMAIN txq : txq[i].data = "greet" =>
       /\ IsOpen(txq[i].sock) /\ out[txq[i].sock] = <<>>
       /\ \A j \in DOMAIN txq : j < i => txq[j].sock # txq[i].sock

OInv == Present /\ LastWords /\ Fresh /\ FirstWords

-----------------------------------------------------------------------------
(* The tables only lose sessions, but for an accept.                        *)
LEMMA NoneReturns ==
  ASSUME IInv, SInv, [Next]_vars, \A s \in Sock : ~SrvAccept(s)
  PROVE  /\ \A s \in Sock : IsOpen(s)' => IsOpen(s)
         /\ \A s \in Sock : net'[s] = net[s] \/ (net[s] = "idle" /\ net'[s] = "pending")
                            \/ (net[s] = "pending" /\ net'[s] = "refused")
<1> DEFINE Shrinks == /\ \A s \in Sock : IsOpen(s)' => IsOpen(s)
                      /\ \A s \in Sock : \/ net'[s] = net[s]
                                         \/ (net[s] = "idle" /\ net'[s] = "pending")
                                         \/ (net[s] = "pending" /\ net'[s] = "refused")
<1>1. CASE Outside
  BY <1>1, OutsideFrame DEF IsOpen
<1>2. ASSUME NEW s \in Sock, RxTask(s) PROVE Shrinks
  BY <1>2 DEF RxTask, RxRecv, RxSendLine, RxSendEof, tables, world, IsOpen
<1>3. CASE SrvTask
  <2>1. ASSUME DropSessions PROVE Shrinks
    <3>1. \A s \in Sock : ~IsOpen(s)'
      BY <2>1, SockAssumption DEF DropSessions, IsOpen, Empty
    <3>2. QED
      BY <2>1, <3>1 DEF DropSessions
  <2>2. CASE SrvSignal
    BY <2>2 DEF SrvSignal, SrvInitShutdown, SrvShutdown, SrvInitConfigure, SrvReconfigure,
       tables, world, IsOpen
  <2>3. CASE SrvLagged \/ SrvAcceptError \/ SrvStartError \/ SrvReconfSwap
    BY <2>1, <2>3 DEF SrvLagged, SrvAcceptError, SrvStartError, SrvReconfSwap, Panic
  <2>4. CASE SrvSend
    <3>1. UNCHANGED net
      BY <2>4, SendCases
    <3>2. \A a \in Addr : wr_streams'[a] \in {wr_streams[a], NoSock}
      BY <2>4, SendCases DEF IInv, TypeOK, TablesType, Table
    <3>3. QED
      BY <3>1, <3>2, SockAssumption DEF IsOpen
  <2>5. CASE (\E s \in Sock : SrvByeLine(s)) \/ SrvByeEof \/ SrvStopClose \/ SrvDnsDone
    BY <2>5 DEF SrvByeLine, SrvByeEof, SrvStopClose, SrvDnsDone, tables, world, IsOpen
  <2>6. CASE SrvGreet \/ SrvForward \/ SrvFinish \/ SrvReceive
    BY <2>6 DEF SrvGreet, SrvForward, SrvFinish, SrvReceive, tables, world, IsOpen
  <2>7. QED
    BY <1>3, <2>2, <2>3, <2>4, <2>5, <2>6 DEF SrvTask, SrvCommitted
<1>4. QED
  BY <1>1, <1>2, <1>3 DEF Next, Outside

(* A socket that was closed stays closed.                                   *)
LEMMA StaysShut ==
  ASSUME IInv, SInv, [Next]_vars, NEW s \in Sock, Shuts(s)
  PROVE  Shuts(s)'
<1>1. net[s] = "accepted" /\ ~IsOpen(s)
  <2>1. out[s] # <<>>
    BY DEF Shuts
  <2>2. QED
    BY <2>1 DEF SInv, Sockets, Unopened
<1>2. SInv'
  BY NextSessions
<1>3. CASE \A t \in Sock : ~SrvAccept(t)
  <2>1. net'[s] = "accepted" /\ ~IsOpen(s)'
    BY <1>1, <1>3, NoneReturns
  <2>2. QED
    BY <1>2, <2>1 DEF SInv, Sockets
<1>4. ASSUME NEW t \in Sock, SrvAccept(t) PROVE Shuts(s)'
  <2>1. /\ net[t] = "pending" /\ net' = [net EXCEPT ![t] = "accepted"]
        /\ wr_streams' = [wr_streams EXCEPT ![AddrOf[t]] = t]
    BY <1>4 DEF SrvAccept
  <2>2. net'[s] = "accepted"
    BY <1>1, <2>1 DEF IInv, TypeOK, WorldType
  <2>3. ~IsOpen(s)'
    BY <1>1, <2>1, SockAssumption DEF IsOpen, IInv, TypeOK, TablesType, Table
  <2>4. QED
    BY <1>2, <2>2, <2>3 DEF SInv, Sockets
<1>5. QED
  BY <1>3, <1>4

(* An address is given to a new connection only when its last holder gave   *)
(* it up.                                                                   *)
LEMMA AloneStep == IInv /\ SInv /\ Alone /\ [Next]_vars => Alone'
<1> SUFFICES ASSUME IInv, SInv, Alone, [Next]_vars PROVE Alone'
  OBVIOUS
<1>0. /\ net \in [Sock -> {"idle", "pending", "accepted", "refused"}]
      /\ peer \in [Sock -> {"up", "fin", "rst"}]
  BY DEF IInv, TypeOK, WorldType
<1>1. \A t \in Sock : Shuts(t) => Shuts(t)'
  BY StaysShut
<1>2. ASSUME NEW t \in Sock, Gone(t), peer'[t] = peer[t] \/ peer'[t] = "rst",
             net[t] \in {"idle", "refused"} => net'[t] = net[t]
      PROVE  Gone(t)'
  BY <1>1, <1>2 DEF Gone, Shuts
<1>3. CASE \E s \in Sock : Client(s)
  <2> PICK s \in Sock : Client(s)
    BY <1>3
  <2>1. CASE ClientConnect(s)
    <3>1. /\ UNCHANGED peer /\ \A t \in Sock : t # s => net'[t] = net[t]
          /\ \A t \in Sock : AddrOf[t] = AddrOf[s] => Gone(t)
      BY <1>0, <2>1 DEF ClientConnect
    <3>2. \A t \in Sock : t # s /\ Gone(t) => Gone(t)'
      BY <1>2, <3>1
    <3>3. QED
      BY <3>1, <3>2 DEF Alone
  <2>2. CASE ClientClose(s) \/ ClientReset(s) \/ \E d \in ChunkKind : ClientSend(s, d)
    <3>1. /\ UNCHANGED net /\ \A t \in Sock : t # s => peer'[t] = peer[t]
          /\ \/ peer'[s] = peer[s] \/ (peer'[s] = "fin" /\ peer[s] = "up")
             \/ (peer'[s] = "rst" /\ AllowReset)
      BY <1>0, <2>2 DEF ClientClose, ClientReset, ClientSend
    <3>2. \A t \in Sock : Gone(t) => Gone(t)'
      <4>1. peer[s] = "up" /\ peer'[s] = "fin" /\ Gone(s) => Gone(s)'
        BY <3>1 DEF Gone
      <4>2. QED
        BY <1>2, <3>1, <4>1
    <3>3. QED
      BY <3>1, <3>2 DEF Alone
  <2>3. QED
    BY <2>1, <2>2 DEF Client
<1>4. CASE ~\E s \in Sock : Client(s)
  <2>1. UNCHANGED peer
    <3>1. CASE Signal \/ UNCHANGED vars
      BY <3>1 DEF Signal, SendReconfigure, SendShutdown, vars, world
    <3>2. CASE \E s \in Sock : RdTask(s) \/ RxTask(s)
      BY <3>2 DEF RdTask, RdRead, RdEnd, RdSignal, RdSend, RdSendEof, RxTask, RxRecv,
         RxSendLine, RxSendEof, world
    <3>3. CASE SrvSignal \/ SrvLagged \/ SrvAcceptError \/ SrvStartError \/ \E s \in Sock : SrvAccept(s)
      BY <3>3 DEF SrvSignal, SrvInitShutdown, SrvShutdown, SrvInitConfigure, SrvReconfigure,
         SrvLagged, SrvAcceptError, SrvStartError, SrvAccept, Panic, world
    <3>4. CASE SrvSend \/ SrvReceive \/ SrvCommitted
      BY <3>4 DEF SrvSend, SrvReceive, SrvCommitted, SrvByeLine, SrvByeEof, SrvReconfSwap,
         SrvStopClose, SrvDnsDone, SrvGreet, SrvForward, SrvFinish, world
    <3>5. QED
      BY <1>4, <3>1, <3>2, <3>3, <3>4 DEF Next, SrvTask
  <2>2. \A t \in Sock : net[t] \in {"idle", "refused"} => net'[t] = net[t]
    <3>1. CASE Outside
      <4>1. CASE Signal \/ UNCHANGED vars
        BY <4>1 DEF Signal, SendReconfigure, SendShutdown, vars, world
      <4>2. CASE \E s \in Sock : RdTask(s)
        BY <4>2 DEF RdTask, RdRead, RdEnd, RdSignal, RdSend, RdSendEof, world
      <4>3. QED
        BY <1>4, <3>1, <4>1, <4>2 DEF Outside
    <3>2. ASSUME NEW s \in Sock, SrvAccept(s)
          PROVE  \A t \in Sock : net[t] \in {"idle", "refused"} => net'[t] = net[t]
      BY <1>0, <3>2 DEF SrvAccept
    <3>3. CASE (\E s \in Sock : RxTask(s)) \/ SrvTask
      <4>1. CASE \A s \in Sock : ~SrvAccept(s)
        <5>1. UNCHANGED net \/ DropSessions
          <6>1. CASE SrvSignal \/ SrvLagged \/ SrvAcceptError \/ SrvStartError
            BY <6>1 DEF SrvSignal, SrvInitShutdown, SrvShutdown, SrvInitConfigure,
               SrvReconfigure, SrvLagged, SrvAcceptError, SrvStartError, Panic, world
          <6>2. CASE SrvSend \/ SrvReceive \/ SrvCommitted
            BY <6>2 DEF SrvSend, SrvReceive, SrvCommitted, SrvByeLine, SrvByeEof,
               SrvReconfSwap, SrvStopClose, SrvDnsDone, SrvGreet, SrvForward, SrvFinish, world
          <6>3. CASE \E s \in Sock : RxTask(s)
            BY <6>3 DEF RxTask, RxRecv, RxSendLine, RxSendEof, world
          <6>4. QED
            BY <3>3, <4>1, <6>1, <6>2, <6>3 DEF SrvTask
        <5>2. QED
          BY <1>0, <5>1 DEF DropSessions
      <4>2. QED
        BY <3>2, <4>1
    <3>4. QED
      BY <3>1, <3>3 DEF Next, Outside
  <2>3. \A t \in Sock : Gone(t) => Gone(t)'
    BY <1>2, <2>1, <2>2
  <2>4. QED
    BY <2>1, <2>3 DEF Alone
<1>5. QED
  BY <1>3, <1>4

(* So when a connection is accepted, its address has no session.            *)
LEMMA AddressFree ==
  ASSUME NoTakeover, IInv, SInv, Alone, NEW s \in Sock, SrvAccept(s)
  PROVE  wr_streams[AddrOf[s]] = NoSock
<1>1. SUFFICES ASSUME wr_streams[AddrOf[s]] # NoSock PROVE FALSE
  OBVIOUS
<1>2. PICK t \in Sock : t = wr_streams[AddrOf[s]]
  BY <1>1, SockAssumption DEF IInv, TypeOK, TablesType, Table
<1>3. AddrOf[t] = AddrOf[s] /\ net[t] = "accepted" /\ IsOpen(t)
  BY <1>1, <1>2, SockAssumption DEF SInv, Entries, IsOpen
<1>4. net[s] = "pending" /\ s # t
  BY <1>3 DEF SrvAccept
<1>5. ~AllowReset
  BY <1>3, <1>4 DEF NoTakeover
<1>6. ~Gone(s)
  BY <1>4, <1>5 DEF Alone, Gone, SInv, Unopened
<1>7. ~Gone(t)
  BY <1>3, <1>5 DEF Alone, Gone, SInv, Sockets, Shuts
<1>8. QED
  BY <1>3, <1>4, <1>6, <1>7 DEF Alone

-----------------------------------------------------------------------------
LEMMA Senders ==
  ASSUME IInv, NEW i \in DOMAIN txq
  PROVE  txq[i] \in Outbound /\ txq[i].sock \in Sock /\ txq[i].data \in {"greet", "line", "eof"}
<1>1. txq \in Seq(Outbound)
  BY DEF IInv, TypeOK, QueuesType
<1>2. txq[i] \in Outbound
  BY <1>1
<1>3. QED
  BY <1>2 DEF Outbound

(* Steps that neither say anything nor give a session to the tables.        *)
LEMMA Quiet ==
  ASSUME IInv, SInv, OInv,
         UNCHANGED <<txq, wr_streams, out>>,
         \A t \in Sock : net[t] = "accepted" => net'[t] = "accepted",
         \A t \in Sock : Live(t)' => Live(t),
         \A t \in Sock : attached'[t] => attached[t],
         \A t \in Sock : rxpc[t] = "done" => rxpc'[t] = "done",
         pc' \in Running => pc \in Running,
         \A t \in todo' : IsOpen(t),
         cur' # NoSock => IsOpen(cur'),
         pc \in {"dns", "greet"} => pc' \in {"dns", "greet"} /\ cur' = cur,
         pc' \in {"dns", "greet"} =>
           pc \in {"dns", "greet"} /\ rxpc'[cur] = rxpc[cur] /\ chan'[cur] = chan[cur]
  PROVE  OInv'
<1>1. \A i \in DOMAIN txq : txq[i].sock \in Sock
  BY Senders
<1>2. Present'
  BY <1>1 DEF OInv, Present, IsOpen
<1>3. LastWords'
  BY <1>1 DEF OInv, LastWords
<1>4. Fresh'
  BY DEF OInv, Fresh
<1>5. FirstWords'
  <2>1. \A t \in Sock : attached'[t] => Greeted(t)' \/ (pc' \in {"dns", "greet"} /\ cur' = t)
    BY DEF OInv, FirstWords, Greeted
  <2>2. QED
    BY <2>1 DEF OInv, FirstWords, IsOpen
<1>6. QED
  BY <1>2, <1>3, <1>4, <1>5 DEF OInv

(* Steps that put the last line or the closing message of s in the queue.   *)
LEMMA Says ==
  ASSUME IInv, SInv, OInv, NEW s \in Sock, NEW d \in {"line", "eof"},
         attached[s], ToClient(s, Out(s, d)),
         UNCHANGED <<wr_streams, out, net, attached>>,
         wr_streams[AddrOf[s]] \in {NoSock, s}, net[s] = "accepted",
         \A t \in Sock : Live(t)' => Live(t),
         \A t \in Sock : rxpc[t] = "done" => rxpc'[t] = "done",
         pc' \in Running => /\ pc \in Running /\ IsOpen(s) /\ rxpc[s] # "done"
                            /\ d = "eof" => rxpc'[s] = "done",
         d = "line" => Greeted(s),
         \A t \in todo' : IsOpen(t),
         cur' # NoSock => IsOpen(cur'),
         pc \in {"dns", "greet"} => pc' = pc /\ cur' = cur,
         pc' \in {"dns", "greet"} => pc' = pc /\ cur # s /\ rxpc'[cur] = rxpc[cur]
                                     /\ chan'[cur] = chan[cur]
  PROVE  OInv'
<1> DEFINE n == Len(txq)
           m == Out(s, d)
<1>1. /\ n \in Nat /\ DOMAIN txq = 1 .. n /\ DOMAIN txq' = 1 .. n + 1
      /\ \A i \in 1 .. n : txq'[i] = txq[i]
      /\ txq'[n + 1] = m
  <2>1. m \in Outbound /\ txq \in Seq(Outbound)
    BY DEF Out, Outbound, IInv, TypeOK, QueuesType
  <2>2. QED
    BY <2>1, Enqueued
<1>2. m.sock = s /\ m.data = d
  BY DEF Out
<1>3. \A i \in 1 .. n : txq[i].sock \in Sock
  BY <1>1, Senders
<1> HIDE DEF n, m
<1>4. \A i \in 1 .. n + 1 : i \in 1 .. n \/ i = n + 1
  BY <1>1
<1>5. Present'
  BY <1>1, <1>2, <1>3, <1>4 DEF OInv, Present, IsOpen
<1>6. LastWords'
  <2> SUFFICES ASSUME pc' \in Running, NEW i \in 1 .. n + 1, txq'[i].data = "eof"
               PROVE  /\ rxpc'[txq'[i].sock] = "done"
                      /\ \A j \in 1 .. n + 1 : j > i => txq'[j].sock # txq'[i].sock
    BY <1>1 DEF LastWords
  <2>1. CASE i \in 1 .. n
    <3>1. /\ rxpc[txq[i].sock] = "done" /\ txq[i].sock # s
          /\ \A j \in 1 .. n : j > i => txq[j].sock # txq[i].sock
      BY <1>1, <2>1 DEF OInv, LastWords
    <3>2. QED
      BY <1>1, <1>2, <1>3, <1>4, <2>1, <3>1
  <2>2. CASE i = n + 1
    BY <1>1, <1>2, <2>2
  <2>3. QED
    BY <1>4, <2>1, <2>2
<1>7. Fresh'
  BY <1>1, <1>2, <1>4 DEF OInv, Fresh
<1>8. FirstWords'
  <2>1. \A t \in Sock : Greeted(t) => Greeted(t)'
    BY <1>1 DEF Greeted
  <2>2. \A t \in Sock : attached'[t] => Greeted(t)' \/ (pc' \in {"dns", "greet"} /\ cur' = t)
    BY <2>1 DEF OInv, FirstWords
  <2>3. ASSUME NEW i \in 1 .. n + 1, txq'[i].data = "line"
        PROVE  \/ out[txq'[i].sock] # <<>>
               \/ \E j \in 1 .. n + 1 : j <= i /\ txq'[j] = Out(txq'[i].sock, "greet")
    <3>1. CASE i \in 1 .. n
      BY <1>1, <2>3, <3>1 DEF OInv, FirstWords
    <3>2. CASE i = n + 1
      <4>1. \A j \in 1 .. n : j \in 1 .. n + 1 /\ j <= i
        BY <1>1, <3>2
      <4>2. QED
        BY <1>1, <1>2, <2>3, <3>2, <4>1 DEF Greeted
    <3>3. QED
      BY <1>4, <3>1, <3>2
  <2>4. ASSUME NEW i \in 1 .. n + 1, txq'[i].data = "greet"
        PROVE  /\ wr_streams[AddrOf[txq'[i].sock]] = txq'[i].sock
               /\ out[txq'[i].sock] = <<>>
               /\ \A j \in 1 .. n + 1 : j < i => txq'[j].sock # txq'[i].sock
    <3>1. i \in 1 .. n
      BY <1>1, <1>2, <1>4, <2>4
    <3>2. \A j \in 1 .. n + 1 : j < i => j \in 1 .. n
      BY <1>1, <3>1
    <3>3. QED
      BY <1>1, <2>4, <3>1, <3>2 DEF OInv, FirstWords, IsOpen
  <2>5. \A t \in Sock : out'[t] # <<>> => out'[t][1] \in {"greet", "shut"}
    BY DEF OInv, FirstWords
  <2>6. QED
    BY <1>1, <2>2, <2>3, <2>4, <2>5 DEF FirstWords, IsOpen
<1>9. QED
  BY <1>5, <1>6, <1>7, <1>8 DEF OInv

LEMMA OutsideOrder == ASSUME IInv, SInv, OInv, Outside PROVE OInv'
<1>1. /\ UNCHANGED <<pc, cur, todo, wr_streams, txq, chan, attached, rxpc, out>>
      /\ \A t \in Sock : net[t] = "accepted" => net'[t] = "accepted"
  BY OutsideFrame
<1>2. (\A t \in todo' : IsOpen(t)) /\ (cur' # NoSock => IsOpen(cur'))
  BY <1>1 DEF OInv, Present
<1>3. \A t \in Sock : Live(t)' => Live(t)
  BY <1>1 DEF Live
<1>4. QED
  BY <1>1, <1>2, <1>3, Quiet

LEMMA RxOrder == ASSUME IInv, SInv, OInv, NEW s \in Sock, RxTask(s) PROVE OInv'
<1>1. UNCHANGED <<task, config, tables, signals, rxq, attached, rdpc, nread, world>>
  BY DEF RxTask, RxRecv, RxSendLine, RxSendEof
<1>2. /\ rxpc \in [Sock -> {"none", "recv", "line", "eof", "done", "dead"}]
      /\ DOMAIN chan = Sock
  BY DEF IInv, TypeOK, ConnType, QueuesType
<1>3. /\ rxpc[s] \in {"recv", "line", "eof"}
      /\ \A t \in Sock : t # s => rxpc'[t] = rxpc[t] /\ chan'[t] = chan[t]
  BY <1>2 DEF RxTask, RxRecv, RxSendLine, RxSendEof
<1>4. /\ \A t \in todo' : IsOpen(t)
      /\ cur' # NoSock => IsOpen(cur')
      /\ \A t \in Sock : Live(t)' => Live(t)
      /\ \A t \in Sock : rxpc[t] = "done" => rxpc'[t] = "done"
  BY <1>1, <1>3 DEF OInv, Present, Live, task
<1>5. net[s] = "accepted"
  BY <1>3 DEF SInv, Unopened
<1>6. ~(pc \in {"dns", "greet"} /\ cur = s)
  BY <1>2 DEF OInv, Fresh, RxTask, RxRecv, RxSendLine, RxSendEof
<1>7. pc \in {"dns", "greet"} => cur \in Sock /\ rxpc'[cur] = rxpc[cur] /\ chan'[cur] = chan[cur]
  BY <1>3, <1>6 DEF IInv, InHand
<1>8. CASE txq' = txq
  BY <1>1, <1>4, <1>7, <1>8, Quiet DEF task, tables, world
<1>9. CASE attached[s] /\ RxSendLine(s) /\ ToClient(s, Out(s, "line"))
  <2>1. Live(s)
    BY <1>3, <1>9 DEF Live
  <2>2. /\ wr_streams[AddrOf[s]] \in {NoSock, s}
        /\ pc' \in Running => pc \in Running /\ IsOpen(s) /\ rxpc[s] # "done"
    BY <1>1, <1>3, <2>1 DEF OInv, Present, task
  <2>3. Greeted(s)
    BY <1>6, <1>9 DEF OInv, FirstWords
  <2>4. QED
    BY <1>1, <1>4, <1>5, <1>6, <1>7, <1>9, <2>2, <2>3, Says DEF task, tables, world
<1>10. CASE attached[s] /\ RxSendEof(s) /\ ToClient(s, Out(s, "eof"))
  <2>1. Live(s)
    BY <1>3, <1>10 DEF Live
  <2>2. rxpc'[s] = "done"
    BY <1>2, <1>10 DEF RxSendEof
  <2>3. /\ wr_streams[AddrOf[s]] \in {NoSock, s}
        /\ pc' \in Running => pc \in Running /\ IsOpen(s) /\ rxpc[s] # "done"
    BY <1>1, <1>3, <2>1 DEF OInv, Present, task
  <2>4. QED
    BY <1>1, <1>4, <1>5, <1>6, <1>7, <1>10, <2>2, <2>3, Says DEF task, tables, world
<1>11. QED
  BY <1>8, <1>9, <1>10 DEF RxTask, RxRecv, RxSendLine, RxSendEof, ToClient

(* The sessions in the tables, which a reconfiguration and the shutdown     *)
(* disconnect.                                                              *)
LEMMA ListedAreOpen ==
  ASSUME IInv, SInv, pc = "select", NEW t \in {connections[a] : a \in Entry(connections)}
  PROVE  IsOpen(t)
BY DEF Entry, IInv, TablesAgree, SInv, Entries, IsOpen

LEMMA SignalOrder == ASSUME IInv, SInv, OInv, SrvSignal PROVE OInv'
<1>1. /\ UNCHANGED <<cur, wr_streams, queues, conn, world>>
      /\ pc \in {"init", "select"} /\ pc' \in {"init", "select", "stop", "reconf"}
      /\ todo' = todo \/ (pc = "select" /\ todo' = {connections[a] : a \in Entry(connections)})
  BY DEF SrvSignal, SrvInitShutdown, SrvInitConfigure, SrvShutdown, SrvReconfigure, tables
<1>2. (\A t \in todo' : IsOpen(t)) /\ cur' = NoSock
  BY <1>1, ListedAreOpen DEF OInv, Present, SInv, Idle
<1>3. \A t \in Sock : Live(t)' => Live(t)
  BY <1>1 DEF Live, queues, conn
<1>4. QED
  BY <1>1, <1>2, <1>3, Quiet DEF queues, conn, world, Running

LEMMA ByeOrder ==
  ASSUME IInv, SInv, OInv, SrvByeEof \/ \E s \in Sock : SrvByeLine(s) PROVE OInv'
<1>1. ASSUME NEW s \in Sock, SrvByeLine(s) PROVE OInv'
  <2>1. /\ UNCHANGED <<wr_streams, chan, attached, rxpc, out, net>>
        /\ s \in todo /\ ToClient(s, Out(s, "line"))
        /\ cur' = s /\ todo' = todo \ {s}
        /\ pc \in {"reconf", "stop"} /\ pc' \in {"reconfEof", "stopEof"}
    BY <1>1 DEF SrvByeLine, tables, conn, world
  <2>2. IsOpen(s) /\ \A t \in todo' : IsOpen(t)
    BY <2>1 DEF OInv, Present
  <2>3. wr_streams[AddrOf[s]] = s /\ net[s] = "accepted"
    BY <2>2, SockAssumption DEF IsOpen, SInv, Entries
  <2>4. \A t \in Sock : Live(t)' => Live(t)
    BY <2>1 DEF Live
  <2>5. CASE attached[s]
    <3>1. Greeted(s)
      BY <2>1, <2>5 DEF OInv, FirstWords
    <3>2. QED
      BY <2>1, <2>2, <2>3, <2>4, <2>5, <3>1, Says DEF Running
  <2>6. CASE ~attached[s]
    <3>1. txq' = txq
      BY <2>1, <2>6 DEF ToClient
    <3>2. QED
      BY <2>1, <2>2, <2>4, <3>1, Quiet DEF Running
  <2>7. QED
    BY <2>5, <2>6
<1>2. CASE SrvByeEof
  <2>1. /\ UNCHANGED <<todo, wr_streams, chan, attached, rxpc, out, net>>
        /\ ToClient(cur, Out(cur, "eof")) /\ cur' = NoSock /\ cur \in Sock
        /\ pc \in {"reconfEof", "stopEof"} /\ pc' \in {"reconf", "stop"}
    BY <1>2 DEF SrvByeEof, IInv, InHand, tables, conn, world
  <2>2. IsOpen(cur) /\ \A t \in todo' : IsOpen(t)
    BY <2>1, SockAssumption DEF OInv, Present
  <2>3. wr_streams[AddrOf[cur]] = cur /\ net[cur] = "accepted"
    BY <2>1, <2>2, SockAssumption DEF IsOpen, SInv, Entries
  <2>4. \A t \in Sock : Live(t)' => Live(t)
    BY <2>1 DEF Live
  <2>5. CASE attached[cur]
    BY <2>1, <2>2, <2>3, <2>4, <2>5, Says DEF Running
  <2>6. CASE ~attached[cur]
    <3>1. txq' = txq
      BY <2>1, <2>6 DEF ToClient
    <3>2. QED
      BY <2>1, <2>2, <2>4, <3>1, Quiet DEF Running
  <2>7. QED
    BY <2>5, <2>6
<1>3. QED
  BY <1>1, <1>2

(* After the sessions were dropped there is nothing left to say.            *)
LEMMA DropOrder ==
  ASSUME IInv, SInv, OInv, DropSessions, cur' = NoSock, todo' = {}, pc' \in {"dead", "select"}
  PROVE  OInv'
<1>1. /\ txq' = <<>> /\ \A t \in Sock : ~attached'[t]
      /\ \A t \in Sock : out'[t] = out[t] \/ out'[t] = Append(out[t], "shut")
  BY DEF DropSessions
<1>2. DOMAIN txq' = {}
  BY <1>1
<1>3. \A t \in Sock : out'[t] # <<>> => out'[t][1] \in {"greet", "shut"}
  <2> TAKE t \in Sock
  <2>1. out[t] \in Seq({"greet", "line", "shut"})
    BY DEF IInv, TypeOK, WorldType
  <2>2. out[t] # <<>> => out[t][1] \in {"greet", "shut"}
    BY DEF OInv, FirstWords
  <2>3. CASE out'[t] = Append(out[t], "shut") /\ out[t] = <<>>
    BY <2>3
  <2>4. CASE out'[t] = Append(out[t], "shut") /\ out[t] # <<>>
    BY <2>1, <2>2, <2>4
  <2>5. QED
    BY <1>1, <2>2, <2>3, <2>4
<1>4. Present' /\ LastWords' /\ Fresh'
  BY <1>1, <1>2 DEF Present, LastWords, Fresh, Live
<1>5. FirstWords'
  BY <1>1, <1>2, <1>3 DEF FirstWords
<1>6. QED
  BY <1>4, <1>5 DEF OInv

(* The other steps of the server task that say nothing.                     *)
LEMMA QuietOrder ==
  ASSUME IInv, SInv, OInv,
         SrvStopClose \/ SrvFinish \/ SrvDnsDone \/ SrvReceive \/ SrvForward
  PROVE  OInv'
<1>1. /\ UNCHANGED <<cur, todo, wr_streams, txq, rxpc, out, net>>
      /\ \A t \in Sock : attached'[t] => attached[t]
      /\ \/ pc = "stop" /\ pc' = "finish"
         \/ pc = "finish" /\ pc' = "barrier"
         \/ pc = "dns" /\ pc' = "greet" /\ UNCHANGED chan
         \/ pc = "select" /\ pc' = "forward"
         \/ pc = "forward" /\ pc' = "select"
  BY DEF SrvStopClose, SrvFinish, SrvDnsDone, SrvReceive, SrvForward, tables, queues, conn, world
<1>2. (\A t \in todo' : IsOpen(t)) /\ (cur' # NoSock => IsOpen(cur'))
  BY <1>1 DEF OInv, Present
<1>3. \A t \in Sock : Live(t)' => Live(t)
  BY <1>1 DEF Live
<1>4. QED
  BY <1>1, <1>2, <1>3, Quiet DEF Running

(* The accepted connection finds its address free and has everything of its *)
(* life before it.                                                          *)
LEMMA AcceptOrder ==
  ASSUME NoTakeover, IInv, SInv, OInv, Alone, NEW s \in Sock, SrvAccept(s) PROVE OInv'
<1> DEFINE a == AddrOf[s]
<1>1. /\ UNCHANGED <<todo, txq, chan>>
      /\ pc = "select" /\ pc' = "dns" /\ cur' = s /\ net[s] = "pending"
      /\ wr_streams' = [wr_streams EXCEPT ![a] = s]
      /\ \A t \in Sock : out'[t] = IF wr_streams[a] = t THEN Append(out[t], "shut") ELSE out[t]
  BY DEF SrvAccept
<1>2. /\ net'[s] = "accepted" /\ rxpc'[s] = "recv"
      /\ \A t \in Sock : t # s => /\ net'[t] = net[t] /\ attached'[t] = attached[t]
                                  /\ rxpc'[t] = rxpc[t]
  BY DEF SrvAccept, IInv, TypeOK, ConnType, QueuesType, WorldType
<1>3. wr_streams[a] = NoSock /\ \A t \in Sock : out'[t] = out[t]
  BY <1>1, AddressFree, SockAssumption
<1>4. /\ wr_streams'[a] = s /\ a \in Addr
      /\ \A b \in Addr : b # a => wr_streams'[b] = wr_streams[b]
  BY <1>1, SockAssumption DEF IInv, TypeOK, TablesType, Table
<1>5. \A t \in Sock : IsOpen(t) => t # s /\ wr_streams'[AddrOf[t]] = t
  BY <1>3, <1>4, SockAssumption DEF IsOpen
<1>6. \A i \in DOMAIN txq : txq[i].sock \in Sock /\ IsOpen(txq[i].sock)
  BY <1>1, Senders DEF OInv, Present, Running
<1>7. out[s] = <<>> /\ chan[s] = <<>>
  BY <1>1 DEF SInv, Unopened
<1>8. Present'
  <2>1. ASSUME NEW i \in DOMAIN txq
        PROVE  /\ net'[txq[i].sock] = "accepted"
               /\ wr_streams'[AddrOf[txq[i].sock]] = txq[i].sock
    BY <1>2, <1>5, <1>6 DEF OInv, Present
  <2>2. ASSUME NEW t \in Sock, Live(t)'
        PROVE  wr_streams'[AddrOf[t]] = t
    BY <1>1, <1>2, <1>4, <1>5, <2>2 DEF OInv, Present, Live, Running
  <2>3. todo' = {}
    BY <1>1 DEF SInv, Idle
  <2>4. QED
    BY <1>1, <1>4, <2>1, <2>2, <2>3 DEF Present, IsOpen
<1>9. LastWords'
  BY <1>1, <1>2, <1>5, <1>6 DEF OInv, LastWords, Running
<1>10. Fresh'
  BY <1>1, <1>2, <1>3, <1>5, <1>6, <1>7 DEF Fresh
<1>11. FirstWords'
  <2>1. \A t \in Sock : out'[t] # <<>> => out'[t][1] \in {"greet", "shut"}
    BY <1>3 DEF OInv, FirstWords
  <2>2. \A t \in Sock : attached'[t] => Greeted(t)' \/ (pc' \in {"dns", "greet"} /\ cur' = t)
    BY <1>1, <1>2, <1>3 DEF OInv, FirstWords, Greeted
  <2>3. ASSUME NEW i \in DOMAIN txq, txq[i].data = "line"
        PROVE  \/ out'[txq[i].sock] # <<>>
               \/ \E j \in DOMAIN txq : j <= i /\ txq[j] = Out(txq[i].sock, "greet")
    BY <1>3, <1>6, <2>3 DEF OInv, FirstWords
  <2>4. ASSUME NEW i \in DOMAIN txq, txq[i].data = "greet"
        PROVE  /\ wr_streams'[AddrOf[txq[i].sock]] = txq[i].sock /\ out'[txq[i].sock] = <<>>
               /\ \A j \in DOMAIN txq : j < i => txq[j].sock # txq[i].sock
    BY <1>3, <1>5, <1>6, <2>4 DEF OInv, FirstWords
  <2>5. QED
    BY <1>1, <2>1, <2>2, <2>3, <2>4 DEF FirstWords, IsOpen
<1>12. QED
  BY <1>8, <1>9, <1>10, <1>11 DEF OInv

(* The greeting is queued before anything else the session says.            *)
LEMMA GreetOrder == ASSUME IInv, SInv, OInv, SrvGreet PROVE OInv'
<1> DEFINE n == Len(txq)
           m == Out(cur, "greet")
<1>1. /\ UNCHANGED <<todo, wr_streams, attached, rxpc, out, net>>
      /\ pc = "greet" /\ pc' = "select" /\ cur' = NoSock /\ cur \in Sock /\ cur # NoSock
      /\ ToClient(cur, m)
  BY SockAssumption DEF SrvGreet, IInv, InHand, tables, conn, world
<1>2. IsOpen(cur) /\ wr_streams[AddrOf[cur]] = cur
  BY <1>1 DEF OInv, Present, IsOpen
<1>3. attached[cur] /\ net[cur] = "accepted"
  BY <1>1, <1>2, SockAssumption DEF SInv, Entries
<1>4. /\ n \in Nat /\ DOMAIN txq = 1 .. n /\ DOMAIN txq' = 1 .. n + 1
      /\ \A i \in 1 .. n : txq'[i] = txq[i]
      /\ txq'[n + 1] = m
  <2>1. m \in Outbound /\ txq \in Seq(Outbound)
    BY <1>1 DEF Out, Outbound, IInv, TypeOK, QueuesType
  <2>2. QED
    BY <1>1, <1>3, <2>1, Enqueued
<1>5. m.sock = cur /\ m.data = "greet"
  BY DEF Out
<1>6. \A i \in 1 .. n : txq[i].sock \in Sock
  BY <1>4, Senders
<1>7. out[cur] = <<>> /\ \A i \in 1 .. n : txq[i].sock # cur
  BY <1>1, <1>4 DEF OInv, Fresh
<1> HIDE DEF n
<1>8. \A i \in 1 .. n + 1 : i \in 1 .. n \/ i = n + 1
  BY <1>4
<1>9. Present'
  BY <1>1, <1>2, <1>3, <1>4, <1>5, <1>8 DEF OInv, Present, IsOpen, Live, Running
<1>10. LastWords' /\ Fresh'
  BY <1>1, <1>4, <1>5, <1>7, <1>8 DEF OInv, LastWords, Fresh, Running
<1>11. FirstWords'
  <2>1. \A t \in Sock : out'[t] # <<>> => out'[t][1] \in {"greet", "shut"}
    BY <1>1 DEF OInv, FirstWords
  <2>2. \A t \in Sock : attached'[t] => Greeted(t)'
    <3>1. \A t \in Sock : Greeted(t) => Greeted(t)'
      BY <1>1, <1>4 DEF Greeted
    <3>2. \A t \in Sock : t = cur => Greeted(t)'
      <4>1. n + 1 \in DOMAIN txq'
        BY <1>4
      <4>2. \E i \in DOMAIN txq' : txq'[i] = Out(cur, "greet")
        BY <1>4, <4>1
      <4>3. QED
        BY <4>2 DEF Greeted
    <3>3. QED
      BY <1>1, <3>1, <3>2 DEF OInv, FirstWords
  <2>3. ASSUME NEW i \in 1 .. n + 1, txq'[i].data = "line"
        PROVE  \/ out[txq'[i].sock] # <<>>
               \/ \E j \in 1 .. n + 1 : j <= i /\ txq'[j] = Out(txq'[i].sock, "greet")
    BY <1>4, <1>5, <1>8, <2>3 DEF OInv, FirstWords
  <2>4. ASSUME NEW i \in 1 .. n + 1, txq'[i].data = "greet"
        PROVE  /\ wr_streams[AddrOf[txq'[i].sock]] = txq'[i].sock
               /\ out[txq'[i].sock] = <<>>
               /\ \A j \in 1 .. n + 1 : j < i => txq'[j].sock # txq'[i].sock
    <3>1. CASE i \in 1 .. n
      <4>1. \A j \in 1 .. n + 1 : j < i => j \in 1 .. n
        BY <1>4, <3>1
      <4>2. QED
        BY <1>4, <2>4, <3>1, <4>1 DEF OInv, FirstWords, IsOpen
    <3>2. CASE i = n + 1
      <4>1. \A j \in 1 .. n + 1 : j < i => j \in 1 .. n
        BY <1>4, <3>2
      <4>2. QED
        BY <1>2, <1>4, <1>5, <1>7, <3>2, <4>1
    <3>3. QED
      BY <1>8, <3>1, <3>2
  <2>5. QED
    BY <1>1, <1>4, <2>1, <2>2, <2>3, <2>4 DEF FirstWords, IsOpen
<1>12. QED
  BY <1>9, <1>10, <1>11 DEF OInv

(* SrvSend takes the head of the queue.  The remaining queue, one place on. *)
LEMMA Shifted ==
  ASSUME IInv, txq # <<>>, txq' = Tail(txq)
  PROVE  \E n \in Nat :
           /\ DOMAIN txq = 1 .. n + 1 /\ DOMAIN txq' = 1 .. n
           /\ \A i \in 1 .. n : i + 1 \in 1 .. n + 1 /\ txq'[i] = txq[i + 1]
           /\ \A i \in 1 .. n + 1 : i = 1 \/ (i - 1 \in 1 .. n /\ txq'[i - 1] = txq[i])
<1>1. /\ Len(txq) \in Nat \ {0} /\ DOMAIN txq = 1 .. Len(txq)
      /\ DOMAIN txq' = 1 .. Len(txq) - 1
      /\ \A i \in 1 .. Len(txq) - 1 : txq'[i] = txq[i + 1]
  BY Dequeued DEF IInv, TypeOK, QueuesType
<1>2. PICK n \in Nat : n = Len(txq) - 1
  <2>1. Len(txq) - 1 \in Nat
    BY <1>1
  <2>2. QED
    BY <2>1
<1>3. /\ DOMAIN txq = 1 .. n + 1 /\ DOMAIN txq' = 1 .. n
      /\ \A i \in 1 .. n : i + 1 \in 1 .. n + 1 /\ txq'[i] = txq[i + 1]
  BY <1>1, <1>2
<1>4. \A i \in 1 .. n + 1 : i = 1 \/ (i - 1 \in 1 .. n /\ txq'[i - 1] = txq[i])
  BY <1>2, <1>3
<1>5. QED
  BY <1>3, <1>4

(* A greeting or a line is written to the socket of its own session.        *)
LEMMA SendTextOrder ==
  ASSUME IInv, SInv, OInv, UNCHANGED <<task, attached, conn, net, wr_streams>>,
         txq # <<>>, txq' = Tail(txq), pc \in {"select", "finish"},
         NEW s \in Sock, s = txq[1].sock, NEW d \in {"greet", "line"}, d = txq[1].data,
         out' = [out EXCEPT ![s] = Append(out[s], d)]
  PROVE  OInv'
<1>1. PICK n \in Nat :
        /\ DOMAIN txq = 1 .. n + 1 /\ DOMAIN txq' = 1 .. n
        /\ \A i \in 1 .. n : i + 1 \in 1 .. n + 1 /\ txq'[i] = txq[i + 1]
        /\ \A i \in 1 .. n + 1 : i = 1 \/ (i - 1 \in 1 .. n /\ txq'[i - 1] = txq[i])
  BY Shifted
<1>2. /\ out[s] \in Seq({"greet", "line", "shut"}) /\ out'[s] = Append(out[s], d)
      /\ \A t \in Sock : t # s => out'[t] = out[t]
  BY DEF IInv, TypeOK, WorldType
<1>3. out'[s] # <<>> /\ out'[s][1] = IF out[s] = <<>> THEN d ELSE out[s][1]
  BY <1>2
<1>4. \A i \in 1 .. n : txq[i + 1].sock \in Sock
  BY <1>1, Senders
<1>5. 1 \in 1 .. n + 1
  OBVIOUS
<1>6. UNCHANGED <<pc, cur, todo, rxpc>>
  BY DEF task, conn
<1>7. Present'
  BY <1>1, <1>4, <1>6 DEF OInv, Present, IsOpen, Live
<1>8. LastWords'
  BY <1>1, <1>4, <1>6 DEF OInv, LastWords
<1>9. Fresh'
  BY <1>6 DEF Fresh
<1>10. FirstWords'
  <2>1. \A t \in Sock : out'[t] # <<>> => out'[t][1] \in {"greet", "shut"}
    <3>1. out[s] = <<>> => d = "greet"
      <4>1. d = "line" => out[s] # <<>> \/ \E j \in 1 .. n + 1 : j <= 1 /\ txq[j] = Out(s, "greet")
        BY <1>1, <1>5 DEF OInv, FirstWords
      <4>2. \A j \in 1 .. n + 1 : j <= 1 => j = 1
        OBVIOUS
      <4>3. QED
        BY <4>1, <4>2 DEF Out
    <3>2. \A t \in Sock : out[t] # <<>> => out[t][1] \in {"greet", "shut"}
      BY DEF OInv, FirstWords
    <3>3. QED
      BY <1>2, <1>3, <3>1, <3>2
  <2>2. \A t \in Sock : Greeted(t) => Greeted(t)'
    <3> SUFFICES ASSUME NEW t \in Sock, Greeted(t), t # s PROVE Greeted(t)'
      BY <1>3 DEF Greeted
    <3>1. Out(t, "greet") # txq[1]
      BY DEF Out
    <3>2. CASE out[t] # <<>>
      BY <1>2, <3>2 DEF Greeted
    <3>3. ASSUME NEW i \in DOMAIN txq, txq[i] = Out(t, "greet") PROVE Greeted(t)'
      <4>1. i - 1 \in DOMAIN txq' /\ txq'[i - 1] = Out(t, "greet")
        BY <1>1, <3>1, <3>3
      <4>2. QED
        BY <4>1 DEF Greeted
    <3>4. QED
      BY <3>2, <3>3 DEF Greeted
  <2>3. \A t \in Sock : attached'[t] => Greeted(t)' \/ (pc' \in {"dns", "greet"} /\ cur' = t)
    BY <1>6, <2>2 DEF OInv, FirstWords
  <2>4. ASSUME NEW i \in 1 .. n, txq'[i].data = "line"
        PROVE  \/ out'[txq'[i].sock] # <<>>
               \/ \E j \in 1 .. n : j <= i /\ txq'[j] = Out(txq'[i].sock, "greet")
    <3>1. CASE txq'[i].sock = s
      BY <1>3, <3>1
    <3>2. CASE txq'[i].sock # s
      <4>1. \/ out[txq'[i].sock] # <<>>
            \/ \E j \in 1 .. n + 1 : j <= i + 1 /\ txq[j] = Out(txq'[i].sock, "greet")
        BY <1>1, <2>4 DEF OInv, FirstWords
      <4>2. Out(txq'[i].sock, "greet") # txq[1]
        <5>1. \A t : t # s => Out(t, "greet") # txq[1]
          BY DEF Out
        <5>2. QED
          BY <3>2, <5>1
      <4>3. ASSUME NEW j \in 1 .. n + 1, j <= i + 1, txq[j] = Out(txq'[i].sock, "greet")
            PROVE  j - 1 \in 1 .. n /\ j - 1 <= i /\ txq'[j - 1] = Out(txq'[i].sock, "greet")
        BY <1>1, <4>2, <4>3
      <4>4. QED
        BY <1>1, <1>2, <1>4, <3>2, <4>1, <4>3
    <3>3. QED
      BY <3>1, <3>2
  <2>5. ASSUME NEW i \in 1 .. n, txq'[i].data = "greet"
        PROVE  /\ wr_streams[AddrOf[txq'[i].sock]] = txq'[i].sock
               /\ out'[txq'[i].sock] = <<>>
               /\ \A j \in 1 .. n : j < i => txq'[j].sock # txq'[i].sock
    <3>1. /\ wr_streams[AddrOf[txq'[i].sock]] = txq'[i].sock
          /\ out[txq'[i].sock] = <<>>
          /\ \A j \in 1 .. n + 1 : j < i + 1 => txq[j].sock # txq'[i].sock
      BY <1>1, <2>5 DEF OInv, FirstWords, IsOpen
    <3>2. txq'[i].sock # s
      <4>1. 1 < i + 1
        OBVIOUS
      <4>2. QED
        BY <1>5, <3>1, <4>1
    <3>3. out'[txq'[i].sock] = <<>>
      BY <1>1, <1>2, <1>4, <3>1, <3>2
    <3>4. \A j \in 1 .. n : j < i => j + 1 \in 1 .. n + 1 /\ j + 1 < i + 1
      OBVIOUS
    <3>5. \A j \in 1 .. n : txq'[j] = txq[j + 1]
      BY <1>1
    <3>6. QED
      BY <3>1, <3>3, <3>4, <3>5
  <2>6. DOMAIN txq' = 1 .. n
    BY <1>1
  <2>7. \A i \in DOMAIN txq' : txq'[i].data = "line" =>
           \/ out'[txq'[i].sock] # <<>>
           \/ \E j \in DOMAIN txq' : j <= i /\ txq'[j] = Out(txq'[i].sock, "greet")
    BY <2>4, <2>6
  <2>8. \A i \in DOMAIN txq' : txq'[i].data = "greet" =>
          /\ wr_streams[AddrOf[txq'[i].sock]] = txq'[i].sock
          /\ out'[txq'[i].sock] = <<>>
          /\ \A j \in DOMAIN txq' : j < i => txq'[j].sock # txq'[i].sock
    BY <2>5, <2>6
  <2>9. wr_streams' = wr_streams
    BY <1>4
  <2>10. QED
    BY <2>1, <2>3, <2>7, <2>8, <2>9 DEF FirstWords, IsOpen
<1>11. QED
  BY <1>7, <1>8, <1>9, <1>10 DEF OInv

(* A message finds no session only while the shutdown drains the queue.     *)
LEMMA SendNothingOrder ==
  ASSUME IInv, SInv, OInv, UNCHANGED <<task, attached, conn, net, wr_streams, out>>,
         txq # <<>>, txq' = Tail(txq), pc \in {"select", "finish"},
         wr_streams[AddrOf[txq[1].sock]] = NoSock
  PROVE  OInv'
<1>1. PICK n \in Nat :
        /\ DOMAIN txq = 1 .. n + 1 /\ DOMAIN txq' = 1 .. n
        /\ \A i \in 1 .. n : i + 1 \in 1 .. n + 1 /\ txq'[i] = txq[i + 1]
        /\ \A i \in 1 .. n + 1 : i = 1 \/ (i - 1 \in 1 .. n /\ txq'[i - 1] = txq[i])
  BY Shifted
<1>2. 1 \in 1 .. n + 1 /\ txq[1].sock \in Sock
  BY <1>1, Senders
<1>3. ~IsOpen(txq[1].sock)
  BY <1>2, SockAssumption DEF IsOpen
<1>4. pc = "finish" /\ \A t \in Sock : ~attached[t]
  BY <1>1, <1>2, <1>3 DEF OInv, Present, Running, SInv, Idle
<1>5. UNCHANGED <<pc, cur, todo, rxpc>> /\ wr_streams' = wr_streams /\ out' = out
  BY DEF task, conn
<1>6. Present' /\ LastWords' /\ Fresh'
  <2>1. Present'
    BY <1>1, <1>4, <1>5 DEF OInv, Present, IsOpen, Live, Running
  <2>2. QED
    BY <1>4, <1>5, <2>1 DEF LastWords, Fresh, Running
<1>7. FirstWords'
  <2>1. txq[1].data # "greet"
    BY <1>1, <1>2, <1>3 DEF OInv, FirstWords
  <2>2. ASSUME NEW i \in 1 .. n, txq'[i].data = "line"
        PROVE  \/ out[txq'[i].sock] # <<>>
               \/ \E j \in 1 .. n : j <= i /\ txq'[j] = Out(txq'[i].sock, "greet")
    <3>1. \/ out[txq'[i].sock] # <<>>
          \/ \E j \in 1 .. n + 1 : j <= i + 1 /\ txq[j] = Out(txq'[i].sock, "greet")
      BY <1>1, <2>2 DEF OInv, FirstWords
    <3>2. \A t : Out(t, "greet") # txq[1]
      BY <2>1 DEF Out
    <3>3. ASSUME NEW j \in 1 .. n + 1, j <= i + 1, txq[j] = Out(txq'[i].sock, "greet")
          PROVE  j - 1 \in 1 .. n /\ j - 1 <= i /\ txq'[j - 1] = Out(txq'[i].sock, "greet")
      BY <1>1, <3>2, <3>3
    <3>4. QED
      BY <3>1, <3>3
  <2>3. ASSUME NEW i \in 1 .. n, txq'[i].data = "greet"
        PROVE  /\ wr_streams[AddrOf[txq'[i].sock]] = txq'[i].sock
               /\ out[txq'[i].sock] = <<>>
               /\ \A j \in 1 .. n : j < i => txq'[j].sock # txq'[i].sock
    <3>1. /\ wr_streams[AddrOf[txq'[i].sock]] = txq'[i].sock
          /\ out[txq'[i].sock] = <<>>
          /\ \A j \in 1 .. n + 1 : j < i + 1 => txq[j].sock # txq'[i].sock
      BY <1>1, <2>3 DEF OInv, FirstWords, IsOpen
    <3>2. \A j \in 1 .. n : j < i => j + 1 \in 1 .. n + 1 /\ j + 1 < i + 1
      OBVIOUS
    <3>3. \A j \in 1 .. n : txq'[j] = txq[j + 1]
      BY <1>1
    <3>4. QED
      BY <3>1, <3>2, <3>3
  <2>4. \A t \in Sock : out[t] # <<>> => out[t][1] \in {"greet", "shut"}
    BY DEF OInv, FirstWords
  <2>5. \A t \in Sock : attached'[t] => Greeted(t)' \/ (pc' \in {"dns", "greet"} /\ cur' = t)
    BY <1>4
  <2>6. \A i \in DOMAIN txq' : txq'[i].data = "line" =>
          \/ out'[txq'[i].sock] # <<>>
          \/ \E j \in DOMAIN txq' : j <= i /\ txq'[j] = Out(txq'[i].sock, "greet")
    BY <1>1, <1>5, <2>2
  <2>7. \A i \in DOMAIN txq' : txq'[i].data = "greet" =>
          /\ wr_streams'[AddrOf[txq'[i].sock]] = txq'[i].sock
          /\ out'[txq'[i].sock] = <<>>
          /\ \A j \in DOMAIN txq' : j < i => txq'[j].sock # txq'[i].sock
    <3>1. DOMAIN txq' = 1 .. n
      BY <1>1
    <3>2. QED
      BY <1>5, <2>3, <3>1
  <2>8. \A t \in Sock : out'[t] # <<>> => out'[t][1] \in {"greet", "shut"}
    BY <1>5, <2>4
  <2>9. QED
    BY <2>5, <2>6, <2>7, <2>8 DEF FirstWords, IsOpen
<1>8. QED
  BY <1>6, <1>7 DEF OInv

(* The closing message takes its own session out of the tables; nothing of  *)
(* that session is left in the queue while the task runs its select!.       *)
LEMMA SendCloseOrder ==
  ASSUME IInv, SInv, OInv, UNCHANGED <<task, attached, conn, net>>,
         txq # <<>>, txq' = Tail(txq), pc \in {"select", "finish"},
         NEW s \in Sock, s = txq[1].sock, txq[1].data = "eof",
         NEW a \in Addr, a = AddrOf[s], wr_streams[a] = s,
         out' = [out EXCEPT ![s] = Append(out[s], "shut")],
         wr_streams' = [wr_streams EXCEPT ![a] = NoSock]
  PROVE  OInv'
<1>1. PICK n \in Nat :
        /\ DOMAIN txq = 1 .. n + 1 /\ DOMAIN txq' = 1 .. n
        /\ \A i \in 1 .. n : i + 1 \in 1 .. n + 1 /\ txq'[i] = txq[i + 1]
        /\ \A i \in 1 .. n + 1 : i = 1 \/ (i - 1 \in 1 .. n /\ txq'[i - 1] = txq[i])
  BY Shifted
<1>2. /\ out[s] \in Seq({"greet", "line", "shut"}) /\ out'[s] = Append(out[s], "shut")
      /\ \A t \in Sock : t # s => out'[t] = out[t]
  BY DEF IInv, TypeOK, WorldType
<1>3. out'[s] # <<>> /\ out'[s][1] = IF out[s] = <<>> THEN "shut" ELSE out[s][1]
  BY <1>2
<1>4. \A i \in 1 .. n : txq[i + 1].sock \in Sock
  BY <1>1, Senders
<1>5. 1 \in 1 .. n + 1 /\ \A i \in 1 .. n : 1 < i + 1
  OBVIOUS
<1>6. UNCHANGED <<pc, cur, todo, rxpc>> /\ todo = {} /\ cur = NoSock
  BY DEF task, conn, SInv, Idle
<1>7. /\ wr_streams'[a] = NoSock
      /\ \A b \in Addr : b # a => wr_streams'[b] = wr_streams[b]
      /\ \A t \in Sock : AddrOf[t] \in Addr /\ t # NoSock
  BY SockAssumption DEF IInv, TypeOK, TablesType, Table
<1>8. \A t \in Sock : IsOpen(t) /\ t # s => AddrOf[t] # a /\ wr_streams'[AddrOf[t]] = t
  BY <1>7 DEF IsOpen
<1>9. pc = "select" => /\ rxpc[s] = "done"
                       /\ \A i \in 1 .. n : IsOpen(txq[i + 1].sock) /\ txq[i + 1].sock # s
                       /\ \A t \in Sock : Live(t) => IsOpen(t) /\ t # s
  <2>1. ASSUME pc = "select"
        PROVE  /\ rxpc[s] = "done"
               /\ \A i \in 1 .. n : IsOpen(txq[i + 1].sock) /\ txq[i + 1].sock # s
    BY <1>1, <1>5, <2>1 DEF OInv, Present, LastWords, Running
  <2>2. ASSUME pc = "select", NEW t \in Sock, Live(t) PROVE IsOpen(t) /\ t # s
    BY <2>1, <2>2 DEF OInv, Present, Running, Live
  <2>3. QED
    BY <2>1, <2>2
<1>10. Present'
  <2>1. ASSUME NEW i \in 1 .. n
        PROVE  /\ net'[txq'[i].sock] = "accepted"
               /\ wr_streams'[AddrOf[txq'[i].sock]] \in {NoSock, txq'[i].sock}
               /\ pc = "select" => wr_streams'[AddrOf[txq'[i].sock]] = txq'[i].sock
    <3>1. /\ net[txq[i + 1].sock] = "accepted"
          /\ wr_streams[AddrOf[txq[i + 1].sock]] \in {NoSock, txq[i + 1].sock}
      BY <1>1 DEF OInv, Present
    <3>2. QED
      BY <1>1, <1>4, <1>7, <1>8, <1>9, <3>1
  <2>2. ASSUME NEW t \in Sock, Live(t)'
        PROVE  /\ wr_streams'[AddrOf[t]] \in {NoSock, t}
               /\ pc = "select" => wr_streams'[AddrOf[t]] = t
    <3>1. Live(t)
      BY <1>6, <2>2 DEF Live
    <3>2. wr_streams[AddrOf[t]] \in {NoSock, t}
      BY <3>1 DEF OInv, Present
    <3>3. QED
      BY <1>7, <1>8, <1>9, <3>1, <3>2
  <2>3. QED
    BY <1>1, <1>6, <2>1, <2>2 DEF Present, IsOpen, Running
<1>11. LastWords' /\ Fresh'
  <2>1. LastWords'
    BY <1>1, <1>4, <1>6 DEF OInv, LastWords
  <2>2. QED
    BY <1>6, <2>1 DEF Fresh
<1>12. FirstWords'
  <2>1. \A t \in Sock : out'[t] # <<>> => out'[t][1] \in {"greet", "shut"}
    <3>1. \A t \in Sock : out[t] # <<>> => out[t][1] \in {"greet", "shut"}
      BY DEF OInv, FirstWords
    <3>2. QED
      BY <1>2, <1>3, <3>1
  <2>2. \A t \in Sock : Out(t, "greet") # txq[1]
    BY DEF Out
  <2>3. \A t \in Sock : Greeted(t) => Greeted(t)'
    <3> SUFFICES ASSUME NEW t \in Sock, Greeted(t) PROVE Greeted(t)'
      OBVIOUS
    <3>1. CASE out[t] # <<>>
      BY <1>2, <1>3, <3>1 DEF Greeted
    <3>2. ASSUME NEW i \in DOMAIN txq, txq[i] = Out(t, "greet") PROVE Greeted(t)'
      <4>1. i - 1 \in DOMAIN txq' /\ txq'[i - 1] = Out(t, "greet")
        BY <1>1, <2>2, <3>2
      <4>2. QED
        BY <4>1 DEF Greeted
    <3>3. QED
      BY <3>1, <3>2 DEF Greeted
  <2>4. \A t \in Sock : attached'[t] => Greeted(t)' \/ (pc' \in {"dns", "greet"} /\ cur' = t)
    BY <1>6, <2>3 DEF OInv, FirstWords
  <2>5. ASSUME NEW i \in 1 .. n, txq'[i].data = "line"
        PROVE  \/ out'[txq'[i].sock] # <<>>
               \/ \E j \in 1 .. n : j <= i /\ txq'[j] = Out(txq'[i].sock, "greet")
    <3>1. \/ out[txq'[i].sock] # <<>>
          \/ \E j \in 1 .. n + 1 : j <= i + 1 /\ txq[j] = Out(txq'[i].sock, "greet")
      BY <1>1, <2>5 DEF OInv, FirstWords
    <3>2. Out(txq'[i].sock, "greet") # txq[1]
      BY <1>1, <1>4, <2>2
    <3>3. ASSUME NEW j \in 1 .. n + 1, j <= i + 1, txq[j] = Out(txq'[i].sock, "greet")
          PROVE  j - 1 \in 1 .. n /\ j - 1 <= i /\ txq'[j - 1] = Out(txq'[i].sock, "greet")
      BY <1>1, <3>2, <3>3
    <3>4. out[txq'[i].sock] # <<>> => out'[txq'[i].sock] # <<>>
      BY <1>1, <1>2, <1>3, <1>4
    <3>5. QED
      BY <3>1, <3>3, <3>4
  <2>6. ASSUME NEW i \in 1 .. n, txq'[i].data = "greet"
        PROVE  /\ wr_streams'[AddrOf[txq'[i].sock]] = txq'[i].sock
               /\ out'[txq'[i].sock] = <<>>
               /\ \A j \in 1 .. n : j < i => txq'[j].sock # txq'[i].sock
    <3>1. /\ IsOpen(txq[i + 1].sock) /\ out[txq[i + 1].sock] = <<>>
          /\ \A j \in 1 .. n + 1 : j < i + 1 => txq[j].sock # txq[i + 1].sock
      BY <1>1, <2>6 DEF OInv, FirstWords
    <3>2. txq[i + 1].sock # s
      BY <1>5, <3>1
    <3>3. PICK t \in Sock : t = txq[i + 1].sock /\ txq'[i].sock = t
      <4>1. txq'[i] = txq[i + 1]
        BY <1>1
      <4>2. QED
        BY <1>4, <4>1
    <3>4. wr_streams'[AddrOf[t]] = t /\ out'[t] = <<>>
      BY <1>2, <1>8, <3>1, <3>2, <3>3
    <3>5. \A j \in 1 .. n : j < i => txq'[j].sock # t
      <4>1. \A j \in 1 .. n : j < i => j + 1 \in 1 .. n + 1 /\ j + 1 < i + 1
        OBVIOUS
      <4>2. \A j \in 1 .. n : txq'[j] = txq[j + 1]
        BY <1>1
      <4>3. QED
        BY <3>1, <3>3, <4>1, <4>2
    <3>6. QED
      BY <3>3, <3>4, <3>5, Zenon
  <2>7. DOMAIN txq' = 1 .. n
    BY <1>1
  <2>8. \A i \in DOMAIN txq' : txq'[i].data = "line" =>
           \/ out'[txq'[i].sock] # <<>>
           \/ \E j \in DOMAIN txq' : j <= i /\ txq'[j] = Out(txq'[i].sock, "greet")
    BY <2>5, <2>7
  <2>9. \A i \in DOMAIN txq' : txq'[i].data = "greet" =>
          /\ wr_streams'[AddrOf[txq'[i].sock]] = txq'[i].sock
          /\ out'[txq'[i].sock] = <<>>
          /\ \A j \in DOMAIN txq' : j < i => txq'[j].sock # txq'[i].sock
    BY <2>6, <2>7
  <2>10. QED
    BY <2>1, <2>4, <2>8, <2>9 DEF FirstWords, IsOpen
<1>13. QED
  BY <1>10, <1>11, <1>12 DEF OInv

LEMMA SendOrder == ASSUME IInv, SInv, OInv, SrvSend PROVE OInv'
<1>1. /\ UNCHANGED <<task, attached, conn, net>>
      /\ pc \in {"select", "finish"} /\ txq # <<>> /\ txq' = Tail(txq)
  BY SendCases
<1>2. PICK a \in Addr, m \in Outbound :
        /\ m = txq[1] /\ a = AddrOf[m.sock]
        /\ \/ wr_streams[a] = NoSock /\ UNCHANGED <<connections, wr_streams, out>>
           \/ \E s \in Sock :
                /\ s = wr_streams[a] /\ m.data # "eof"
                /\ UNCHANGED <<connections, wr_streams>>
                /\ out' = [out EXCEPT ![s] = Append(out[s], m.data)]
           \/ \E s \in Sock :
                /\ s = wr_streams[a] /\ m.data = "eof"
                /\ out' = [out EXCEPT ![s] = Append(out[s], "shut")]
                /\ wr_streams' = [wr_streams EXCEPT ![a] = NoSock]
                /\ connections' = [connections EXCEPT ![a] = NoSock]
  BY SendCases
<1>3. wr_streams[a] \in {NoSock, txq[1].sock}
  <2>1. 1 \in DOMAIN txq
    <3>1. PICK n \in Nat : DOMAIN txq = 1 .. n + 1
      BY <1>1, Shifted
    <3>2. QED
      BY <3>1
  <2>2. QED
    BY <1>2, <2>1 DEF OInv, Present
<1>4. CASE wr_streams[a] = NoSock /\ UNCHANGED <<connections, wr_streams, out>>
  BY <1>1, <1>2, <1>4, SendNothingOrder
<1>5. ASSUME NEW s \in Sock, s = wr_streams[a], m.data # "eof",
             UNCHANGED <<connections, wr_streams>>,
             out' = [out EXCEPT ![s] = Append(out[s], m.data)]
      PROVE  OInv'
  <2>1. s = txq[1].sock
    BY <1>3, <1>5, SockAssumption
  <2>2. m.data \in {"greet", "line"}
    BY <1>2, <1>5 DEF Outbound
  <2>3. QED
    BY <1>1, <1>2, <1>5, <2>1, <2>2, SendTextOrder
<1>6. ASSUME NEW s \in Sock, s = wr_streams[a], m.data = "eof",
             out' = [out EXCEPT ![s] = Append(out[s], "shut")],
             wr_streams' = [wr_streams EXCEPT ![a] = NoSock]
      PROVE  OInv'
  <2>1. s = txq[1].sock
    BY <1>3, <1>6, SockAssumption
  <2>2. QED
    BY <1>1, <1>2, <1>6, <2>1, SendCloseOrder
<1>7. QED
  BY <1>2, <1>4, <1>5, <1>6

LEMMA InitOrder == Init => Alone /\ OInv
<1> SUFFICES ASSUME Init PROVE Alone /\ OInv
  OBVIOUS
<1>1. Alone
  BY DEF Init, Alone, Gone
<1>2. Present
  BY DEF Init, Present, Live
<1>3. LastWords /\ Fresh
  BY DEF Init, LastWords, Fresh
<1>4. FirstWords
  BY DEF Init, FirstWords
<1>5. QED
  BY <1>1, <1>2, <1>3, <1>4 DEF OInv

LEMMA NextOrder ==
  ASSUME NoTakeover, IInv, SInv, Alone, OInv, [Next]_vars PROVE OInv'
<1>1. CASE Outside
  BY <1>1, OutsideOrder
<1>2. ASSUME NEW s \in Sock, RxTask(s) \/ SrvAccept(s) PROVE OInv'
  BY <1>2, RxOrder, AcceptOrder
<1>3. CASE SrvLagged \/ SrvAcceptError \/ SrvStartError \/ SrvReconfSwap
  <2>1. CASE Panic
    BY <2>1, DropOrder DEF Panic
  <2>2. CASE SrvReconfSwap
    <3>1. DropSessions /\ cur' = NoSock /\ todo' = {} /\ pc' = "select"
      BY <2>2 DEF SrvReconfSwap, SInv, Idle
    <3>2. QED
      BY <3>1, DropOrder
  <2>3. QED
    BY <1>3, <2>1, <2>2 DEF SrvLagged, SrvAcceptError, SrvStartError
<1>4. CASE SrvSignal \/ SrvSend \/ SrvReceive
  BY <1>4, SignalOrder, SendOrder, QuietOrder
<1>5. CASE SrvCommitted
  BY <1>3, <1>5, ByeOrder, QuietOrder, GreetOrder DEF SrvCommitted
<1>6. QED
  BY <1>1, <1>2, <1>3, <1>4, <1>5 DEF Next, Outside, SrvTask

-----------------------------------------------------------------------------
(* A session is greeted once: the greeting is queued once, and only before  *)
(* anything has been written (FirstWords).                                  *)
GreetOnce == \A s \in Sock : \A i \in DOMAIN out[s] : out[s][i] = "greet" => i = 1

LEMMA WriteOnce ==
  ASSUME IInv, GreetOnce, NEW t \in Sock,
         \/ out'[t] = out[t]
         \/ \E d \in {"greet", "line", "shut"} :
              out'[t] = Append(out[t], d) /\ (d = "greet" => out[t] = <<>>)
  PROVE  \A i \in DOMAIN out'[t] : out'[t][i] = "greet" => i = 1
<1>1. PICK o \in Seq({"greet", "line", "shut"}) : o = out[t]
  BY DEF IInv, TypeOK, WorldType
<1>2. \A i \in DOMAIN o : o[i] = "greet" => i = 1
  BY <1>1 DEF GreetOnce
<1>3. CASE out'[t] = out[t]
  BY <1>1, <1>2, <1>3
<1>4. ASSUME NEW d \in {"greet", "line", "shut"}, d = "greet" => o = <<>>,
             NEW i \in DOMAIN Append(o, d), Append(o, d)[i] = "greet"
      PROVE  i = 1
  <2>1. /\ Len(o) \in Nat /\ DOMAIN o = 1 .. Len(o) /\ i \in 1 .. Len(o) + 1
        /\ Append(o, d)[Len(o) + 1] = d /\ (o = <<>> => Len(o) = 0)
        /\ \A j \in 1 .. Len(o) : Append(o, d)[j] = o[j]
    BY <1>4
  <2>2. QED
    BY <1>2, <1>4, <2>1
<1>5. QED
  BY <1>1, <1>3, <1>4

LEMMA GreetOnceStep == ASSUME IInv, OInv, GreetOnce, [Next]_vars PROVE GreetOnce'
<1>0. ASSUME \A t \in Sock :
               \/ out'[t] = out[t]
               \/ \E d \in {"greet", "line", "shut"} :
                    out'[t] = Append(out[t], d) /\ (d = "greet" => out[t] = <<>>)
      PROVE  GreetOnce'
  BY <1>0, WriteOnce DEF GreetOnce
<1>1. CASE Outside
  <2>1. UNCHANGED out
    BY <1>1, OutsideFrame
  <2>2. QED
    BY <1>0, <2>1
<1>2. CASE (\E s \in Sock : RxTask(s)) \/ SrvSignal \/ SrvReceive
  <2>1. UNCHANGED out
    BY <1>2 DEF RxTask, RxRecv, RxSendLine, RxSendEof, SrvSignal, SrvInitShutdown, SrvShutdown,
       SrvInitConfigure, SrvReconfigure, SrvReceive, world
  <2>2. QED
    BY <1>0, <2>1
<1>3. CASE DropSessions \/ \E s \in Sock : SrvAccept(s)
  <2>1. \A t \in Sock : out'[t] = out[t] \/ out'[t] = Append(out[t], "shut")
    BY <1>3 DEF DropSessions, SrvAccept
  <2>2. QED
    BY <1>0, <2>1
<1>4. CASE SrvCommitted /\ ~SrvReconfSwap
  <2>1. UNCHANGED out
    BY <1>4 DEF SrvCommitted, SrvByeLine, SrvByeEof, SrvStopClose, SrvDnsDone, SrvGreet,
       SrvForward, SrvFinish, world
  <2>2. QED
    BY <1>0, <2>1
<1>5. CASE SrvSend
  <2>1. txq # <<>> /\ txq' = Tail(txq)
    BY <1>5, SendCases
  <2>2. 1 \in DOMAIN txq
    <3>1. PICK n \in Nat : DOMAIN txq = 1 .. n + 1
      BY <2>1, Shifted
    <3>2. QED
      BY <3>1
  <2>3. txq[1].data = "greet" =>
          wr_streams[AddrOf[txq[1].sock]] = txq[1].sock /\ out[txq[1].sock] = <<>>
    BY <2>2 DEF OInv, FirstWords, IsOpen
  <2>4. DOMAIN out = Sock
    BY DEF IInv, TypeOK, WorldType
  <2>5. PICK a \in Addr, m \in Outbound :
          /\ m = txq[1] /\ a = AddrOf[m.sock]
          /\ \/ UNCHANGED out
             \/ \E s \in Sock : /\ s = wr_streams[a] /\ m.data # "eof"
                               /\ out' = [out EXCEPT ![s] = Append(out[s], m.data)]
             \/ \E s \in Sock : out' = [out EXCEPT ![s] = Append(out[s], "shut")]
    BY <1>5, SendCases
  <2>6. m.data # "eof" => m.data \in {"greet", "line"}
    BY DEF Outbound
  <2>7. QED
    BY <1>0, <2>3, <2>4, <2>5, <2>6
<1>6. QED
  BY <1>1, <1>2, <1>3, <1>4, <1>5
  DEF Next, Outside, SrvTask, SrvLagged, SrvAcceptError, SrvStartError, SrvReconfSwap, Panic

-----------------------------------------------------------------------------
(* A server whose settings always name the same endpoint.  Reloading them   *)
(* then never interrupts the sessions.                                      *)
NoReload == \A e, f \in Endpoint : e = f

Settled == NoReload => /\ pc \notin {"init", "dead"} => endpoint \in Endpoint
                       /\ pc \notin {"reconf", "reconfEof"}

LEMMA InitSettled == Init => Settled
BY DEF Init, Settled

LEMMA SettledStep == IInv /\ SInv /\ Settled /\ [Next]_vars => Settled'
<1> SUFFICES ASSUME IInv, SInv, Settled, [Next]_vars PROVE Settled'
  OBVIOUS
<1> DEFINE Keeps == /\ endpoint' = endpoint
                    /\ pc' \in {"reconf", "reconfEof"} => pc \in {"reconf", "reconfEof"}
                    /\ pc' \notin {"init", "dead"} => pc \notin {"init", "dead"}
<1>0. ASSUME Keeps PROVE Settled'
  BY <1>0 DEF Settled, NoReload
<1>1. CASE Outside
  <2>1. CASE Signal \/ UNCHANGED vars
    BY <1>0, <2>1 DEF Signal, SendReconfigure, SendShutdown, vars, task, config
  <2>2. CASE \E s \in Sock : Client(s)
    BY <1>0, <2>2 DEF Client, ClientConnect, ClientClose, ClientReset, ClientSend, task, config
  <2>3. CASE \E s \in Sock : RdTask(s)
    BY <1>0, <2>3 DEF RdTask, RdRead, RdEnd, RdSignal, RdSend, RdSendEof, task, config
  <2>4. QED
    BY <1>1, <2>1, <2>2, <2>3 DEF Outside
<1>2. CASE \E s \in Sock : RxTask(s)
  BY <1>0, <1>2 DEF RxTask, RxRecv, RxSendLine, RxSendEof, task, config
<1>3. ASSUME NEW e \in Endpoint, SrvInitConfigure(e) PROVE Settled'
  <2>1. endpoint' = ServerGet(e) /\ pc' \in {"stop", "select"}
    BY <1>3 DEF SrvInitConfigure
  <2>2. ServerGet(e) \in Endpoint
    BY DEF ServerGet, IInv, TypeOK, ConfigType
  <2>3. QED
    BY <2>1, <2>2 DEF Settled
<1>4. ASSUME NEW e \in Endpoint, SrvReconfigure(e) PROVE Settled'
  <2>1. /\ pc = "select" /\ endpoint' = endpoint
        /\ pc' = "select" \/ (pc' = "reconf" /\ e # endpoint)
    BY <1>4 DEF SrvReconfigure
  <2>2. QED
    BY <2>1 DEF Settled, NoReload
<1>5. CASE SrvInitShutdown \/ SrvShutdown
  BY <1>0, <1>5 DEF SrvInitShutdown, SrvShutdown, config
<1>6. CASE SrvLagged \/ SrvAcceptError \/ SrvStartError
  BY <1>6 DEF SrvLagged, SrvAcceptError, SrvStartError, Panic, Settled
<1>7. CASE SrvReconfSwap
  <2>1. pc = "reconf" /\ pc' = "select"
    BY <1>7 DEF SrvReconfSwap
  <2>2. QED
    BY <2>1 DEF Settled, NoReload
<1>8. CASE SrvSend \/ SrvReceive \/ \E s \in Sock : SrvAccept(s)
  BY <1>0, <1>8 DEF SrvSend, SrvReceive, SrvAccept, task, config
<1>9. CASE (\E s \in Sock : SrvByeLine(s)) \/ SrvByeEof \/ SrvStopClose
  BY <1>0, <1>9 DEF SrvByeLine, SrvByeEof, SrvStopClose, config
<1>10. CASE SrvDnsDone \/ SrvGreet \/ SrvForward \/ SrvFinish
  BY <1>0, <1>10 DEF SrvDnsDone, SrvGreet, SrvForward, SrvFinish, config
<1>11. QED
  BY <1>1, <1>2, <1>3, <1>4, <1>5, <1>6, <1>7, <1>8, <1>9, <1>10
  DEF Next, Outside, SrvTask, SrvSignal, SrvCommitted

(***************************************************************************)
(* The results.                                                            *)
(***************************************************************************)

(* Every reachable state satisfies the invariant of the order of output,    *)
(* if no connection takes over an address.                                  *)
THEOREM OrderInvariant == Spec => [](NoTakeover => IInv /\ SInv /\ Alone /\ OInv)
<1> DEFINE Order == NoTakeover => IInv /\ SInv /\ Alone /\ OInv
<1>1. Init => Order
  BY InitInv, InitSessions, InitOrder
<1>2. Order /\ [Next]_vars => Order'
  <2> SUFFICES ASSUME NoTakeover', Order, [Next]_vars PROVE (IInv /\ SInv /\ Alone /\ OInv)'
    OBVIOUS
  <2>1. NoTakeover
    BY DEF NoTakeover
  <2>2. QED
    BY <2>1, NextStep, NextSessions, AloneStep, NextOrder
<1>3. QED
  BY <1>1, <1>2, PTL DEF Spec

(* On every socket the greeting comes once, before any other text, and      *)
(* nothing is written after the close: for any number of clients, any       *)
(* capacity of the queues and any order of accepts, goodbyes and signals, as *)
(* long as no connection takes over the address of a session.               *)
THEOREM OutputInOrder == NoTakeover => (Spec => []OutputProtocol)
<1> SUFFICES ASSUME NoTakeover PROVE Spec => []OutputProtocol
  OBVIOUS
<1>1. (NoTakeover => IInv /\ SInv /\ Alone /\ OInv) /\ GreetOnce => OutputProtocol
  <2> SUFFICES ASSUME IInv, SInv, OInv, GreetOnce, NEW s \in Sock, NEW i \in DOMAIN out[s]
               PROVE  /\ out[s][i] = "shut" => i = Len(out[s])
                      /\ out[s][i] = "line" => out[s][1] = "greet"
                      /\ out[s][i] = "greet" => i = 1
    BY DEF OutputProtocol
  <2>1. out[s][i] = "shut" => i = Len(out[s])
    BY DEF SInv, Sockets
  <2>2. ASSUME out[s][i] = "line" PROVE out[s][1] = "greet"
    <3>1. out[s] \in Seq({"greet", "line", "shut"}) /\ out[s] # <<>>
      BY DEF IInv, TypeOK, WorldType
    <3>2. Len(out[s]) \in Nat /\ i \in 1 .. Len(out[s]) /\ 1 \in DOMAIN out[s]
      BY <3>1
    <3>3. out[s][1] \in {"greet", "shut"}
      BY <3>1 DEF OInv, FirstWords
    <3>4. out[s][1] # "shut"
      <4>1. out[s][1] = "shut" => 1 = Len(out[s])
        BY <3>2 DEF SInv, Sockets
      <4>2. QED
        BY <2>2, <3>2, <4>1
    <3>5. QED
      BY <3>3, <3>4
  <2>3. QED
    BY <2>1, <2>2 DEF GreetOnce
<1>2. Init => GreetOnce
  BY DEF Init, GreetOnce
<1>3. (NoTakeover => IInv /\ SInv /\ Alone /\ OInv) /\ GreetOnce /\ [Next]_vars => GreetOnce'
  BY GreetOnceStep
<1>4. QED
  BY <1>1, <1>2, <1>3, OrderInvariant, PTL DEF Spec
=============================================================================
