------------------------------- MODULE Server -------------------------------
(***************************************************************************)
(* The server task of src/server.rs together with the per-connection read  *)
(* tasks (do_read_thread) and Rx tasks (src/connection.rs): the select!    *)
(* loop, its address-keyed tables, the shared receive and transmit queues, *)
(* accept, forwarding, disconnection, reconfiguration and shutdown.        *)
(*                                                                         *)
(* A member of Sock is one TCP connection, seen from the client that opens *)
(* it; AddrOf gives its client address.  The code knows a connection only  *)
(* by that address: the "sock" of a message is a history field, read by    *)
(* the properties and never by an action of the code.                      *)
(***************************************************************************)
EXTENDS Integers, Sequences, FiniteSets

CONSTANTS
  Sock,           \* TCP connections that may be opened (bounds the model)
  Addr,           \* client socket addresses
  AddrOf,         \* the address each connection comes from
  NoSock,         \* "no entry" of the tables
  Endpoint,       \* values of (bind_ip, port) in the settings
  ChunkKind,      \* what one read returns: "text", or "cut": ends inside a
                  \* telnet command and its option byte
  MaxChunks,      \* chunks the client of each connection sends (bound)
  MaxReconf,      \* Reconfigure signals sent (bound)
  AllowReset,     \* may clients abort a connection with RST?
  AllowIoErr,     \* may accept(), bind() and listen() fail?
  RxqCap,         \* capacity of rxsender/rxreceiver    (2048 in the code)
  TxqCap,         \* capacity of txsender/txreceiver    (2048)
  ChanCap,        \* capacity of a connection's channel  (256)
  CtlCap          \* capacity of the control broadcast     (4)

Shutdown   == "Shutdown"     \* ControlSignal::Shutdown
NoEndpoint == "unset"        \* Settings not seen yet, or no listener
Ephemeral  == "ephemeral"    \* a port picked by the kernel

ASSUME SockAssumption ==
  /\ AddrOf \in [Sock -> Addr]
  /\ NoSock \notin Sock
ASSUME EndpointAssumption ==
  /\ Shutdown \notin Endpoint
  /\ NoEndpoint \notin Endpoint
  /\ Ephemeral \notin Endpoint
ASSUME BoundAssumption ==
  /\ ChunkKind \subseteq {"text", "cut"}
  /\ {AllowReset, AllowIoErr} \subseteq BOOLEAN
  /\ {RxqCap, TxqCap, ChanCap, CtlCap} \subseteq Nat \ {0}
  /\ MaxChunks \in [Sock -> Nat] /\ MaxReconf \in Nat

VARIABLES
  \* The server task
  pc,           \* where the task is
  cur,          \* connection being accepted or disconnected
  held,         \* message taken from rxreceiver, not yet forwarded
  todo,         \* connections a disconnect loop has still to visit
  shutdown,     \* the flag of do_server_thread
  conf,         \* endpoint in the static SERVER (set by its first initialize)
  endpoint,     \* endpoint of the task's own clone of SERVER
  wanted,       \* endpoint in the last Reconfigure the task received
  listenAt,     \* where the live listener really listens
  connections, wr_streams, rd_streams, rd_handles,   \* the clone's tables
  \* Queues
  rxq, txq,     \* shared receive and transmit queues
  chan,         \* per connection: queue into its Rx task
  attached,     \* per connection: its txqueue is the queue still in use
  ctl,          \* every control signal broadcast so far
  srvpos,       \* signals the server task has taken
  rdpos,        \* signals each read task has taken (or missed: sent before it)
  \* Per-connection tasks
  rdpc, rxpc,
  nread,        \* chunks the read task has read
  heard,        \* chunks the Rx task has handled
  \* The clients
  net,          \* state of the connection in the server's kernel
  peer,         \* state of the client's end
  sent,         \* chunks sent by the client
  out           \* what the server wrote to the socket; "shut" closes it

task    == <<pc, cur, held, todo, shutdown>>
config  == <<conf, endpoint, wanted, listenAt>>
tables  == <<connections, wr_streams, rd_streams, rd_handles>>
queues  == <<rxq, txq, chan, attached>>
signals == <<ctl, srvpos, rdpos>>
conn    == <<rdpc, rxpc, nread, heard>>
world   == <<net, peer, sent, out>>
vars    == <<task, config, tables, queues, signals, conn, world>>

Empty == [a \in Addr |-> NoSock]
Entry(table) == {a \in Addr : table[a] # NoSock}

(* A definition named X_mutation is X with a bug one could write; the       *)
(* properties must notice it (README, "Mutants").                           *)
In_clearedFirst(s, d, n) == [sock |-> s, data |-> "eof", n |-> n]

In(s, d, n) == [sock |-> s, data |-> d, n |-> n]
Out(s, d)   == [sock |-> s, data |-> d]

Init ==
  /\ pc = "init" /\ cur = NoSock /\ held = <<>> /\ todo = {} /\ shutdown = FALSE
  /\ conf = NoEndpoint /\ endpoint = NoEndpoint
  /\ wanted = NoEndpoint /\ listenAt = NoEndpoint
  /\ connections = Empty /\ wr_streams = Empty
  /\ rd_streams = Empty /\ rd_handles = Empty
  /\ rxq = <<>> /\ txq = <<>>
  /\ chan = [s \in Sock |-> <<>>] /\ attached = [s \in Sock |-> FALSE]
  /\ ctl = <<>> /\ srvpos = 0 /\ rdpos = [s \in Sock |-> 0]
  /\ rdpc = [s \in Sock |-> "none"] /\ rxpc = [s \in Sock |-> "none"]
  /\ nread = [s \in Sock |-> 0] /\ heard = [s \in Sock |-> <<>>]
  /\ net = [s \in Sock |-> "idle"] /\ peer = [s \in Sock |-> "up"]
  /\ sent = [s \in Sock |-> <<>>] /\ out = [s \in Sock |-> <<>>]

-----------------------------------------------------------------------------
(* Signals: main and the SIGHUP task broadcast Reconfigure, the Ctrl-C task *)
(* broadcasts Shutdown once.                                                *)

SendReconfigure(e) ==
  /\ Cardinality({i \in DOMAIN ctl : ctl[i] # Shutdown}) < MaxReconf
  /\ ctl' = Append(ctl, e)
  /\ UNCHANGED <<task, config, tables, queues, srvpos, rdpos, conn, world>>

SendShutdown ==
  /\ \A i \in DOMAIN ctl : ctl[i] # Shutdown
  /\ ctl' = Append(ctl, Shutdown)
  /\ UNCHANGED <<task, config, tables, queues, srvpos, rdpos, conn, world>>

(* A receiver that is more than CtlCap signals behind gets Err(Lagged).     *)
Lagged(pos) == Len(ctl) - pos > CtlCap

-----------------------------------------------------------------------------
(* The clients.                                                             *)

(* The address is free again: the client aborted, or both sides closed.     *)
Gone(s) ==
  \/ net[s] \in {"idle", "refused"}
  \/ peer[s] = "rst"
  \/ peer[s] = "fin" /\ \E i \in DOMAIN out[s] : out[s][i] = "shut"

ClientConnect(s) ==
  /\ net[s] = "idle"
  /\ listenAt # NoEndpoint
  /\ \A t \in Sock : AddrOf[t] = AddrOf[s] => Gone(t)
  /\ net' = [net EXCEPT ![s] = "pending"]
  /\ UNCHANGED <<task, config, tables, queues, signals, conn, peer, sent, out>>

ClientSend(s, d) ==
  /\ net[s] \in {"pending", "accepted"} /\ peer[s] = "up"
  /\ Len(sent[s]) < MaxChunks[s]
  /\ sent' = [sent EXCEPT ![s] = Append(@, d)]
  /\ UNCHANGED <<task, config, tables, queues, signals, conn, net, peer, out>>

ClientClose(s) ==
  /\ net[s] \in {"pending", "accepted"} /\ peer[s] = "up"
  /\ peer' = [peer EXCEPT ![s] = "fin"]
  /\ UNCHANGED <<task, config, tables, queues, signals, conn, net, sent, out>>

ClientReset(s) ==
  /\ AllowReset
  /\ net[s] \in {"pending", "accepted"} /\ peer[s] # "rst"
  /\ peer' = [peer EXCEPT ![s] = "rst"]
  /\ UNCHANGED <<task, config, tables, queues, signals, conn, net, sent, out>>

-----------------------------------------------------------------------------
(* The read task of a connection (do_read_thread).                          *)

(* Data is still returned after a reset if the kernel had it queued.        *)
RdRead(s) ==
  /\ rdpc[s] = "run" /\ nread[s] < Len(sent[s])
  /\ nread' = [nread EXCEPT ![s] = @ + 1]
  /\ rdpc' = [rdpc EXCEPT ![s] = "send"]
  /\ UNCHANGED <<task, config, tables, queues, signals, rxpc, heard, world>>

RdEnd(s) ==     \* zero bytes read, or a read error
  /\ rdpc[s] = "run"
  /\ \/ peer[s] = "fin" /\ nread[s] = Len(sent[s])
     \/ peer[s] = "rst"
  /\ rdpc' = [rdpc EXCEPT ![s] = "eof"]
  /\ UNCHANGED <<task, config, tables, queues, signals, rxpc, nread, heard, world>>

RdSignal(s) ==
  /\ rdpc[s] = "run" /\ rdpos[s] < Len(ctl)
  /\ rdpos' = [rdpos EXCEPT ![s] = @ + 1]
  /\ rdpc' = [rdpc EXCEPT ![s] =
       CASE Lagged(rdpos[s])             -> "dead"   \* v.unwrap() panics
         [] ~Lagged(rdpos[s])
            /\ ctl[rdpos[s] + 1] = Shutdown -> "eof"
         [] OTHER                        -> "run"]
  /\ UNCHANGED <<task, config, tables, queues, ctl, srvpos, rxpc, nread, heard, world>>

ToServer_dropsWhenFull(m) ==
  rxq' = IF pc = "dead" \/ Len(rxq) >= RxqCap THEN rxq ELSE Append(rxq, m)

(* The send waits for room in the queue; once the server task has died the  *)
(* queue is closed and the error is ignored.                                *)
ToServer(m) ==
  \/ pc = "dead" /\ UNCHANGED rxq
  \/ pc # "dead" /\ Len(rxq) < RxqCap /\ rxq' = Append(rxq, m)

RdSend(s) ==
  /\ rdpc[s] = "send"
  /\ ToServer(In(s, sent[s][nread[s]], nread[s]))
  /\ rdpc' = [rdpc EXCEPT ![s] = "run"]
  /\ UNCHANGED <<task, config, tables, txq, chan, attached, signals,
                 rxpc, nread, heard, world>>

RdSendEof(s) ==
  /\ rdpc[s] = "eof"
  /\ ToServer(In(s, "eof", 0))
  /\ rdpc' = [rdpc EXCEPT ![s] = "done"]
  /\ UNCHANGED <<task, config, tables, txq, chan, attached, signals,
                 rxpc, nread, heard, world>>

-----------------------------------------------------------------------------
(* The Rx task of a connection (do_rx_process_thread and disconnect).  A     *)
(* message to a queue that has been closed is lost and the error ignored.   *)

RxRecv(s) ==
  /\ rxpc[s] = "recv" /\ chan[s] # <<>>
  /\ LET m == Head(chan[s]) IN
       /\ rxpc' = [rxpc EXCEPT ![s] = CASE m.data = "eof" -> "line"
                                        [] m.data = "cut" -> "dead"
                                        [] OTHER          -> "recv"]
       /\ heard' = [heard EXCEPT ![s] =
                      IF m.data = "text" THEN Append(@, <<m.sock, m.n>>) ELSE @]
       /\ chan' = [chan EXCEPT ![s] = IF m.data = "cut" THEN <<>> ELSE Tail(@)]
  /\ UNCHANGED <<task, config, tables, rxq, txq, attached, signals, rdpc, nread, world>>

ToClient_resends(s, m) ==
  \/ ~attached[s] /\ UNCHANGED txq
  \/ attached[s] /\ Len(txq) < TxqCap /\ txq' = Append(Append(txq, m), m)

ToClient(s, m) ==
  \/ ~attached[s] /\ UNCHANGED txq
  \/ attached[s] /\ Len(txq) < TxqCap /\ txq' = Append(txq, m)

RxSendLine_silent(s) ==
  /\ rxpc[s] = "line" /\ rxpc' = [rxpc EXCEPT ![s] = "eof"]
  /\ UNCHANGED <<task, config, tables, queues, signals, rdpc, nread, heard, world>>

RxSendLine(s) ==
  /\ rxpc[s] = "line"
  /\ ToClient(s, Out(s, "line"))
  /\ rxpc' = [rxpc EXCEPT ![s] = "eof"]
  /\ UNCHANGED <<task, config, tables, rxq, chan, attached, signals,
                 rdpc, nread, heard, world>>

RxSendEof(s) ==
  /\ rxpc[s] = "eof"
  /\ ToClient(s, Out(s, "eof"))
  /\ rxpc' = [rxpc EXCEPT ![s] = "done"]
  /\ chan' = [chan EXCEPT ![s] = <<>>]    \* rxreceiver is dropped
  /\ UNCHANGED <<task, config, tables, rxq, attached, signals,
                 rdpc, nread, heard, world>>

-----------------------------------------------------------------------------
(* The server task: configuration and signals.                              *)

(* Server::get(Some(settings)): the static is initialized once only.        *)
ServerGet(e) == IF conf = NoEndpoint THEN e ELSE conf

(* start_server, where it comes to listen: bind fails, unnoticed, while the *)
(* task's own listener still holds the address, and may fail because another *)
(* process does; listen then lets the kernel choose a port.                 *)
Bind(e) == {a \in {e, Ephemeral} :
              /\ listenAt = e => a = Ephemeral
              /\ listenAt # e /\ ~AllowIoErr => a = e}

(* The connections, streams and both ends of the transmit queue are dropped, *)
(* which closes the write halves; with the listener goes its backlog.       *)
DropSessions ==
  /\ connections' = Empty /\ wr_streams' = Empty
  /\ rd_streams' = Empty /\ rd_handles' = Empty
  /\ txq' = <<>> /\ attached' = [s \in Sock |-> FALSE]
  /\ out' = [s \in Sock |-> IF wr_streams[AddrOf[s]] = s
                            THEN Append(out[s], "shut") ELSE out[s]]
  /\ net' = [s \in Sock |-> IF net[s] = "pending" THEN "refused" ELSE net[s]]

(* The task unwinds. *)
Panic ==
  /\ pc' = "dead" /\ cur' = NoSock /\ held' = <<>> /\ todo' = {}
  /\ listenAt' = NoEndpoint /\ rxq' = <<>>
  /\ DropSessions
  /\ UNCHANGED <<shutdown, conf, endpoint, wanted, chan, signals, conn, peer, sent>>

SrvLagged ==                    \* recv().await.unwrap() on Err(Lagged)
  /\ pc \in {"init", "select"} /\ Lagged(srvpos)
  /\ Panic

SrvTake(e) ==                   \* the next signal is e
  /\ srvpos < Len(ctl) /\ ~Lagged(srvpos)
  /\ ctl[srvpos + 1] = e
  /\ srvpos' = srvpos + 1
  /\ UNCHANGED <<ctl, rdpos>>

SrvInitShutdown ==
  /\ pc = "init" /\ SrvTake(Shutdown)
  /\ shutdown' = TRUE
  /\ UNCHANGED <<pc, cur, held, todo, config, tables, queues, conn, world>>

SrvInitConfigure_starts(e) ==
  /\ pc = "init" /\ SrvTake(e)
  /\ conf' = e /\ endpoint' = e /\ wanted' = e /\ listenAt' = e
  /\ pc' = "select"
  /\ UNCHANGED <<cur, held, todo, shutdown, tables, queues, conn, world>>

SrvInitConfigure(e) ==
  /\ pc = "init" /\ SrvTake(e)
  /\ conf' = ServerGet(e) /\ endpoint' = ServerGet(e) /\ wanted' = e
  /\ listenAt' \in Bind(ServerGet(e))
  /\ pc' = IF shutdown THEN "stop" ELSE "select"
  /\ UNCHANGED <<cur, held, todo, shutdown, tables, queues, conn, world>>

SrvShutdown ==
  /\ pc = "select" /\ SrvTake(Shutdown)
  /\ shutdown' = TRUE
  /\ pc' = "stop" /\ todo' = {connections[a] : a \in Entry(connections)}
  /\ UNCHANGED <<cur, held, config, tables, queues, conn, world>>

SrvReconfigure(e) ==
  /\ pc = "select" /\ SrvTake(e)
  /\ wanted' = e
  /\ IF e = endpoint
     THEN UNCHANGED <<pc, todo, connections>>
     ELSE /\ pc' = "reconf"
          /\ todo' = {connections[a] : a \in Entry(connections)}
          /\ connections' = Empty                       \* drain()
  /\ UNCHANGED <<cur, held, shutdown, conf, endpoint, listenAt,
                 wr_streams, rd_streams, rd_handles, queues, conn, world>>

-----------------------------------------------------------------------------
(* The server task: connection.disconnect for every connection, which puts   *)
(* a line and an end-of-output message in the queue the task itself drains. *)

SrvByeLine(s) ==
  /\ pc \in {"reconf", "stop"} /\ s \in todo
  /\ ToClient(s, Out(s, "line"))
  /\ pc' = IF pc = "reconf" THEN "reconfEof" ELSE "stopEof"
  /\ cur' = s /\ todo' = todo \ {s}
  /\ UNCHANGED <<held, shutdown, config, tables, rxq, chan, attached,
                 signals, conn, world>>

SrvByeEof ==
  /\ pc \in {"reconfEof", "stopEof"}
  /\ ToClient(cur, Out(cur, "eof"))
  /\ pc' = IF pc = "reconfEof" THEN "reconf" ELSE "stop"
  /\ cur' = NoSock
  /\ UNCHANGED <<held, todo, shutdown, config, tables, rxq, chan, attached,
                 signals, conn, world>>

(* close, discard what is queued, make a new queue, clone SERVER again (its  *)
(* tables are always empty), listen again.  Nothing suspends on the way.    *)
SrvReconfSwap ==
  /\ pc = "reconf" /\ todo = {}
  /\ DropSessions
  /\ conf' = ServerGet(wanted) /\ endpoint' = ServerGet(wanted)
  /\ listenAt' \in Bind(ServerGet(wanted))
  /\ pc' = "select"
  /\ UNCHANGED <<cur, held, todo, shutdown, wanted, rxq, chan, signals, conn,
                 peer, sent>>

(* start_server, where it does not: an address that cannot be parsed, no     *)
(* socket, a listen() that fails.  What the task had taken on the way is     *)
(* lost with it.                                                            *)
SrvStartError ==
  /\ AllowIoErr
  /\ \/ pc = "init" /\ ~Lagged(srvpos)
        /\ srvpos < Len(ctl) /\ ctl[srvpos + 1] \in Endpoint
     \/ pc = "reconf" /\ todo = {}
  /\ Panic

SrvStopClose ==                 \* txreceiver.close()
  /\ pc = "stop" /\ todo = {}
  /\ attached' = [s \in Sock |-> FALSE]
  /\ pc' = "finish"
  /\ UNCHANGED <<cur, held, todo, shutdown, config, tables, rxq, txq, chan,
                 signals, conn, world>>

-----------------------------------------------------------------------------
(* The server task: accept (Connection::new, start_processing).  The task    *)
(* waits in "dns" for the lookup and in "greet" for room in its own queue.  *)

SrvAccept(s) ==
  /\ pc = "select" /\ net[s] = "pending"
  /\ LET a == AddrOf[s] IN
       /\ rd_streams' = [rd_streams EXCEPT ![a] = s]
       /\ wr_streams' = [wr_streams EXCEPT ![a] = s]
       /\ rd_handles' = [rd_handles EXCEPT ![a] = s]
       /\ out' = [t \in Sock |-> IF wr_streams[a] = t     \* overwritten
                                 THEN Append(out[t], "shut") ELSE out[t]]
  /\ net' = [net EXCEPT ![s] = "accepted"]
  /\ rdpc' = [rdpc EXCEPT ![s] = "run"] /\ rdpos' = [rdpos EXCEPT ![s] = Len(ctl)]
  /\ rxpc' = [rxpc EXCEPT ![s] = "recv"]
  /\ attached' = [attached EXCEPT ![s] = TRUE]
  /\ pc' = "dns" /\ cur' = s
  /\ UNCHANGED <<held, todo, shutdown, config, connections, rxq, txq, chan,
                 ctl, srvpos, nread, heard, peer, sent>>

SrvAcceptError ==               \* v.unwrap() on Err
  /\ AllowIoErr
  /\ pc = "select"
  /\ Panic

SrvDnsDone_forgets ==
  /\ pc = "dns" /\ pc' = "greet"
  /\ UNCHANGED <<cur, held, todo, shutdown, config, tables, queues, signals,
                 conn, world>>

SrvDnsDone ==
  /\ pc = "dns"
  /\ connections' = [connections EXCEPT ![AddrOf[cur]] = cur]
  /\ pc' = "greet"
  /\ UNCHANGED <<cur, held, todo, shutdown, config, wr_streams, rd_streams,
                 rd_handles, queues, signals, conn, world>>

SrvGreet ==
  /\ pc = "greet"
  /\ ToClient(cur, Out(cur, "greet"))
  /\ pc' = "select" /\ cur' = NoSock
  /\ UNCHANGED <<held, todo, shutdown, config, tables, rxq, chan, attached,
                 signals, conn, world>>

-----------------------------------------------------------------------------
(* The server task: messages.                                               *)

(* send_message: an empty message disconnects the address.                  *)
Transmit_writesEmpty(m) ==
  LET s == wr_streams[AddrOf[m.sock]] IN
  /\ out' = IF s = NoSock THEN out ELSE [out EXCEPT ![s] = Append(@, m.data)]
  /\ UNCHANGED <<connections, wr_streams, rd_streams>>

Transmit(m) ==
  LET a == AddrOf[m.sock]
      s == wr_streams[a] IN
  IF s = NoSock
  THEN UNCHANGED <<connections, wr_streams, rd_streams, out>>
  ELSE IF m.data = "eof"
       THEN /\ out' = [out EXCEPT ![s] = Append(@, "shut")]
            /\ wr_streams' = [wr_streams EXCEPT ![a] = NoSock]
            /\ rd_streams' = [rd_streams EXCEPT ![a] = NoSock]
            /\ connections' = [connections EXCEPT ![a] = NoSock]
       ELSE /\ out' = [out EXCEPT ![s] = Append(@, m.data)]
            /\ UNCHANGED <<connections, wr_streams, rd_streams>>

SrvSend_newestFirst ==
  /\ pc \in {"select", "finish"} /\ txq # <<>>
  /\ Transmit(txq[Len(txq)])
  /\ txq' = SubSeq(txq, 1, Len(txq) - 1)
  /\ UNCHANGED <<task, config, rd_handles, rxq, chan, attached, signals, conn,
                 net, peer, sent>>

SrvSend ==
  /\ pc \in {"select", "finish"} /\ txq # <<>>
  /\ Transmit(Head(txq))
  /\ txq' = Tail(txq)
  /\ UNCHANGED <<task, config, rd_handles, rxq, chan, attached, signals, conn,
                 net, peer, sent>>

SrvFinish_undrained ==
  /\ pc = "finish" /\ pc' = "barrier"
  /\ UNCHANGED <<cur, held, todo, shutdown, config, tables, queues, signals,
                 conn, world>>

SrvFinish ==                    \* queue closed and empty: shutdown_barrier
  /\ pc = "finish" /\ txq = <<>>
  /\ pc' = "barrier"
  /\ UNCHANGED <<cur, held, todo, shutdown, config, tables, queues, signals,
                 conn, world>>

Listening(a) ==
  connections[a] # NoSock /\ rxpc[connections[a]] \in {"recv", "line", "eof"}

(* receive_message: taken from the queue, then sent to the Rx task of the    *)
(* address; the send waits for room as long as that task lives.             *)
SrvReceive ==
  /\ pc = "select" /\ rxq # <<>>
  /\ held' = <<Head(rxq)>> /\ rxq' = Tail(rxq)
  /\ pc' = "forward"
  /\ UNCHANGED <<cur, todo, shutdown, config, tables, txq, chan, attached,
                 signals, conn, world>>

SrvForward ==
  /\ pc = "forward"
  /\ LET m == Head(held)
         a == AddrOf[m.sock]
         s == connections[a] IN
       \/ ~Listening(a) /\ UNCHANGED chan
       \/ /\ Listening(a)
          /\ Len(chan[s]) < ChanCap
          /\ chan' = [chan EXCEPT ![s] = Append(@, m)]
  /\ held' = <<>> /\ pc' = "select"
  /\ UNCHANGED <<cur, todo, shutdown, config, tables, rxq, txq, attached,
                 signals, conn, world>>

-----------------------------------------------------------------------------
Signal == SendShutdown \/ \E e \in Endpoint : SendReconfigure(e)

Client(s) ==
  \/ ClientConnect(s) \/ ClientClose(s) \/ ClientReset(s)
  \/ \E d \in ChunkKind : ClientSend(s, d)

RdTask(s) == RdRead(s) \/ RdEnd(s) \/ RdSignal(s) \/ RdSend(s) \/ RdSendEof(s)

RxTask(s) == RxRecv(s) \/ RxSendLine(s) \/ RxSendEof(s)

SrvSignal ==
  \/ SrvInitShutdown \/ SrvShutdown
  \/ \E e \in Endpoint : SrvInitConfigure(e) \/ SrvReconfigure(e)

(* Everything the server task does outside its select!.                     *)
SrvCommitted ==
  \/ \E s \in Sock : SrvByeLine(s)
  \/ SrvByeEof \/ SrvReconfSwap \/ SrvStopClose
  \/ SrvDnsDone \/ SrvGreet \/ SrvForward \/ SrvFinish

SrvTask ==
  \/ SrvSignal \/ SrvLagged
  \/ \E s \in Sock : SrvAccept(s)
  \/ SrvAcceptError \/ SrvStartError
  \/ SrvSend \/ SrvReceive \/ SrvCommitted

Next ==
  \/ Signal
  \/ \E s \in Sock : Client(s) \/ RdTask(s) \/ RxTask(s)
  \/ SrvTask

Spec == Init /\ [][Next]_vars

(* Every task the runtime can run is run; select! polls its branches in a    *)
(* random order, so a branch that is ready again and again is taken.        *)
Fairness ==
  /\ \A s \in Sock : WF_vars(RdTask(s)) /\ WF_vars(RxTask(s))
  /\ WF_vars(SrvCommitted)
  /\ SF_vars(SrvSignal) /\ SF_vars(SrvSend) /\ SF_vars(SrvReceive)

FairSpec == Spec /\ Fairness

-----------------------------------------------------------------------------
(* Properties.                                                              *)

Inbound  == [sock : Sock, data : ChunkKind \cup {"eof"}, n : Nat]
Outbound == [sock : Sock, data : {"greet", "line", "eof"}]
Table    == [Addr -> Sock \cup {NoSock}]

TaskType ==
  /\ pc \in {"init", "select", "reconf", "reconfEof", "stop", "stopEof",
             "dns", "greet", "forward", "finish", "barrier", "dead"}
  /\ cur \in Sock \cup {NoSock} /\ held \in Seq(Inbound)
  /\ todo \in SUBSET Sock /\ shutdown \in BOOLEAN
ConfigType ==
  /\ conf \in Endpoint \cup {NoEndpoint} /\ endpoint \in Endpoint \cup {NoEndpoint}
  /\ wanted \in Endpoint \cup {NoEndpoint}
  /\ listenAt \in Endpoint \cup {NoEndpoint, Ephemeral}
TablesType ==
  /\ connections \in Table /\ wr_streams \in Table
  /\ rd_streams \in Table /\ rd_handles \in Table
QueuesType ==
  /\ rxq \in Seq(Inbound) /\ txq \in Seq(Outbound)
  /\ chan \in [Sock -> Seq(Inbound)] /\ attached \in [Sock -> BOOLEAN]
SignalsType ==
  /\ ctl \in Seq(Endpoint \cup {Shutdown}) /\ srvpos \in Nat /\ rdpos \in [Sock -> Nat]
ConnType ==
  /\ rdpc \in [Sock -> {"none", "run", "send", "eof", "done", "dead"}]
  /\ rxpc \in [Sock -> {"none", "recv", "line", "eof", "done", "dead"}]
  /\ nread \in [Sock -> Nat] /\ heard \in [Sock -> Seq(Sock \X Nat)]
WorldType ==
  /\ net \in [Sock -> {"idle", "pending", "accepted", "refused"}]
  /\ peer \in [Sock -> {"up", "fin", "rst"}]
  /\ sent \in [Sock -> Seq(ChunkKind)]
  /\ out \in [Sock -> Seq({"greet", "line", "shut"})]

(* Every variable has its type.                                             *)
TypeOK == /\ TaskType /\ ConfigType /\ TablesType /\ QueuesType
          /\ SignalsType /\ ConnType /\ WorldType

(* The four tables of the server describe the same set of sessions whenever *)
(* the task is in its select!: no stream without a connection, no           *)
(* connection without both streams and the handle of its read task.         *)
(* server.rs inserts them one by one around the wait for the DNS answer     *)
(* (250-262), removes three of them in send_message (128-132) and empties    *)
(* connections ahead of the others on a reconfiguration (225).              *)
TablesAgree ==
  /\ rd_streams = wr_streams
  /\ \A a \in Addr : wr_streams[a] \in {NoSock, rd_handles[a]}
  /\ \A a \in Addr : pc = "dns" /\ a = AddrOf[cur] => wr_streams[a] = cur
  /\ \A a \in Addr : pc \in {"reconf", "reconfEof"} \/ (pc = "dns" /\ a = AddrOf[cur])
                     \/ connections[a] = wr_streams[a]

(* A queued message reaches the connection it was produced for or nobody,   *)
(* although it names only an address that another connection may hold by    *)
(* the time it is handled (NetworkMessage.dest).                            *)
OwnMessagesOnly ==
  /\ \A i \in DOMAIN txq :
       wr_streams[AddrOf[txq[i].sock]] \in {NoSock, txq[i].sock}
  /\ \A m \in {held[i] : i \in DOMAIN held} \cup {rxq[i] : i \in DOMAIN rxq} :
       connections[AddrOf[m.sock]] \in {NoSock, m.sock}

(* What a session's Rx task has handled is a prefix of what its client sent, *)
(* and while the session is in the tables no chunk that was read is lost,   *)
(* duplicated or reordered on the way through chan, held and rxq.           *)
InFlight(s) == chan[s] \o held \o rxq
Chunks(s)   == {i \in DOMAIN InFlight(s) :
                  /\ i \in DOMAIN chan[s] \/ InFlight(s)[i].sock = s
                  /\ InFlight(s)[i].data # "eof"}
Produced(s) == nread[s] - (IF rdpc[s] = "send" THEN 1 ELSE 0)
Served(s)   == connections[AddrOf[s]] = s \/ (pc = "dns" /\ cur = s)

ChunksConserved ==
  \A s \in Sock :
    /\ \A k \in DOMAIN heard[s] : heard[s][k] = <<s, k>>
    /\ Served(s) /\ rxpc[s] = "recv" =>
         /\ Len(heard[s]) <= Produced(s)
         /\ {InFlight(s)[i].n : i \in Chunks(s)} = Len(heard[s]) + 1 .. Produced(s)
         /\ \A i, j \in Chunks(s) : i < j => InFlight(s)[i].n < InFlight(s)[j].n

(* On every socket the greeting comes once, before any other text, and      *)
(* nothing is written after the write half has been closed, whichever of    *)
(* the accept branch, the Rx task's disconnect and the server's own         *)
(* disconnect loop put their messages in the shared queue first.            *)
OutputProtocol ==
  \A s \in Sock : \A i \in DOMAIN out[s] :
    /\ out[s][i] = "shut" => i = Len(out[s])
    /\ out[s][i] = "line" => out[s][1] = "greet"
    /\ out[s][i] = "greet" => i = 1

(* Unless the task panicked, a session is closed only after a last line:    *)
(* connection.disconnect (connection.rs:177-182) sends one before the       *)
(* empty message that closes the socket.                                    *)
FarewellBeforeClose ==
  pc # "dead" =>
    \A s \in Sock : \A i \in DOMAIN out[s] :
      out[s][i] = "shut" => i > 1 /\ out[s][i - 1] = "line"

(* The server task never waits for room in a queue that only it empties,    *)
(* neither directly (greeting and disconnecting) nor through an Rx task     *)
(* that waits for that room while the server waits for the Rx task.         *)
NoSelfDeadlock ==
  Len(txq) = TxqCap =>
    /\ pc \notin {"greet", "reconfEof", "stopEof"}
    /\ pc \in {"reconf", "stop"} => todo = {}
    /\ pc = "forward" =>
         LET s == connections[AddrOf[Head(held).sock]] IN
         s = NoSock \/ Len(chan[s]) < ChanCap \/ rxpc[s] \notin {"line", "eof"}

(* At the shutdown barrier no session is left: the tables are empty and     *)
(* every accepted socket has been closed.                                   *)
ShutdownClosesAll ==
  pc = "barrier" =>
    /\ connections = Empty /\ wr_streams = Empty /\ rd_streams = Empty
    /\ \A s \in Sock : net[s] = "accepted" =>
                          out[s] # <<>> /\ out[s][Len(out[s])] = "shut"

(* A socket is closed only after its own read task has seen the end of its  *)
(* input, or because the server is stopping, reconfiguring or has panicked. *)
IsShut(o) == o # <<>> /\ o[Len(o)] = "shut"
CloseJustified ==
  [][\A s \in Sock : ~IsShut(out[s]) /\ IsShut(out'[s]) =>
       rdpc[s] \in {"done", "dead"} \/ shutdown \/ pc = "reconf" \/ pc' = "dead"]_vars

(* After a reconfiguration the server listens where the newly loaded        *)
(* settings say ("Recieved SIGHUP, reloading config", main.rs:110;          *)
(* "Reconfiguring server thread", server.rs:223).                           *)
ReconfigureApplied == pc = "select" => listenAt = wanted

(* A client that closes its end is eventually removed from the tables, by   *)
(* way of the read task, the server, the Rx task and the server again,      *)
(* behind whatever chunks are on the same way.  The exception is the code's: *)
(* once a chunk that ends inside a telnet command has killed the Rx task    *)
(* (drain, connection.rs:262), the end of input reaches nobody, and the     *)
(* session stays listed until a reconfiguration or the shutdown.            *)
EofCleansUp ==
  \A s \in Sock :
    net[s] = "accepted" /\ peer[s] = "fin"
      ~> wr_streams[AddrOf[s]] # s \/ rxpc[s] = "dead"

(* Once configured and told to stop, the server reaches the shutdown        *)
(* barrier: its disconnect loop, the drain of the transmit queue and a DNS  *)
(* lookup under way all end.                                                *)
ShutdownReachesBarrier ==
  conf # NoEndpoint /\ (\E i \in DOMAIN ctl : ctl[i] = Shutdown)
    ~> pc \in {"barrier", "dead"}
=============================================================================
