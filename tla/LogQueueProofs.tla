--------------------------- MODULE LogQueueProofs ---------------------------
(***************************************************************************)
(* Proofs about LogQueue: the types, that the level main has set stays as   *)
(* long as the log task lives, that a reload silences the log, and that no  *)
(* message of a log call is lost or doubled unnoticed.                      *)
(***************************************************************************)
EXTENDS LogQueue, FiniteSetTheorems, TLAPS

Who   == {"main", "call", "log", "hup"}
Req   == [who : Who, m : Msg]
LogPc == {"none", "spawned", "ask", "start", "run", "shut", "drain", "end", "dead"}

(* The log task comes after main's set-up, which has set the level by then, *)
(* a reload after the start barrier; it sets the level only when the log    *)
(* task is over.                                                            *)
Order ==
  /\ logpc = "none" <=> main # "up"
  /\ main = "spawn" \/ (main = "up" /\ hup # "done") => level = LevelOf(debug)
  /\ hup # "idle" => logpc \notin {"none", "spawned", "ask", "start"}
  /\ hup = "done" => logpc \in {"end", "dead"}

(* main, the log task and the reload ask once and then wait.                *)
IsWaiting(who) ==
  /\ who = "main" => main \in {"file", "debug"}
  /\ who = "log" => logpc = "ask"
  /\ who = "hup" => hup = "wait"
Requests ==
  /\ \A who \in Who : \A i \in DOMAIN waiters : waiters[i].who = who => IsWaiting(who)
  /\ \A i, j \in DOMAIN waiters :
       waiters[i].who = waiters[j].who /\ waiters[i].who # "call" => i = j

(* A message whose task has not run yet is nowhere else.                    *)
Elsewhere == Waiting \cup Queued \cup Taken \cup lost \cup late
Apart ==
  /\ \A m \in spawned : m.n \in 1 .. calls /\ m \notin Elsewhere
  /\ \A m \in Elsewhere : m.n <= calls

(* While the reload waits, the late messages are behind it.                 *)
Behind ==
  /\ hup = "idle" => late = {}
  /\ hup = "wait" =>
       \E i \in DOMAIN waiters :
         /\ waiters[i].who = "hup"
         /\ \A j \in 1 .. i : waiters[j].who = "call" => waiters[j].m \notin late

IInv == TypeOK /\ Order /\ Requests /\ Apart /\ Behind /\ SilentAfterReload

LEMMA InitInv == Init => IInv
<1> SUFFICES ASSUME Init PROVE IInv
  OBVIOUS
<1> USE DEF Init
<1>1. /\ waiters = <<>> /\ queue = <<>> /\ taken = <<>>
      /\ DOMAIN waiters = {} /\ DOMAIN queue = {} /\ DOMAIN taken = {}
  OBVIOUS
<1>2. TypeOK
  <2>1. Len(queue) <= QueueCap
    BY <1>1, CapAssumption
  <2>2. queue \in Seq(Msg) /\ taken \in Seq(Msg)
        /\ waiters \in Seq([who : {"main", "call", "log", "hup"}, m : Msg])
    BY <1>1
  <2>3. calls \in 0 .. MaxCalls
    BY CapAssumption
  <2>4. QED
    BY <2>1, <2>2, <2>3 DEF TypeOK, Level
<1>3. Waiting = {} /\ Queued = {} /\ Taken = {}
  BY <1>1 DEF Waiting, Queued, Taken
<1>4. Order
  BY DEF Order
<1>5. Requests
  BY <1>1 DEF Requests
<1>6. Apart /\ Behind /\ SilentAfterReload
  BY <1>3 DEF Apart, Elsewhere, Behind, SilentAfterReload
<1>7. QED
  BY <1>2, <1>4, <1>5, <1>6 DEF IInv

-----------------------------------------------------------------------------
(* Sequences: what is where after an Append and after a Tail.               *)

LEMMA AppendAt ==
  ASSUME NEW S, NEW s \in Seq(S), NEW e \in S
  PROVE  /\ Append(s, e) \in Seq(S) /\ Len(Append(s, e)) = Len(s) + 1
         /\ \A i \in DOMAIN s : i \in DOMAIN Append(s, e) /\ Append(s, e)[i] = s[i]
         /\ Len(s) + 1 \in DOMAIN Append(s, e) /\ Append(s, e)[Len(s) + 1] = e
         /\ \A i \in DOMAIN Append(s, e) : i \in DOMAIN s \/ i = Len(s) + 1
         /\ \A i \in DOMAIN s : i \in 1 .. Len(s)
  OBVIOUS

LEMMA TailAt ==
  ASSUME NEW S, NEW s \in Seq(S), s # <<>>
  PROVE  /\ Tail(s) \in Seq(S) /\ Len(Tail(s)) = Len(s) - 1
         /\ 1 \in DOMAIN s /\ Head(s) = s[1] /\ Head(s) \in S
         /\ \A i \in DOMAIN Tail(s) : i \in Nat /\ i >= 1 /\ i + 1 \in DOMAIN s
                                      /\ Tail(s)[i] = s[i + 1]
         /\ \A i \in DOMAIN s : i # 1 => /\ i - 1 \in DOMAIN Tail(s) /\ i \in Nat
                                         /\ Tail(s)[i - 1] = s[i] /\ i > 1
  OBVIOUS

(* Messages that wait after somebody asked, and after a request was granted. *)
LEMMA AskWaiting ==
  ASSUME waiters \in Seq(Req), NEW who \in Who, NEW m \in Msg, Ask(who, m)
  PROVE  /\ waiters' \in Seq(Req)
         /\ Waiting \subseteq Waiting'
         /\ Waiting' \subseteq Waiting \cup {m} /\ (who # "call" => Waiting' = Waiting)
<1> DEFINE r == Request(who, m)
<1>1. r \in Req /\ r.who = who /\ r.m = m
  BY DEF Request, Req
<1>2. waiters' = Append(waiters, r)
  BY DEF Ask
<1>3. /\ waiters' \in Seq(Req)
      /\ \A i \in DOMAIN waiters : i \in DOMAIN waiters' /\ waiters'[i] = waiters[i]
      /\ \A i \in DOMAIN waiters' : i \in DOMAIN waiters \/ waiters'[i] = r
  BY <1>1, <1>2, AppendAt
<1>4. QED
  BY <1>1, <1>3 DEF Waiting

LEMMA GrantWaiting ==
  ASSUME waiters \in Seq(Req), NEW who, Grant(who)
  PROVE  /\ waiters' \in Seq(Req) /\ Waiting' \subseteq Waiting
         /\ waiters[1].who = who /\ 1 \in DOMAIN waiters /\ Head(waiters) = waiters[1]
         /\ Head(waiters) \in Req
         /\ who = "call" => Head(waiters).m \in Waiting
<1>1. waiters # <<>> /\ Head(waiters).who = who /\ waiters' = Tail(waiters)
  BY DEF Grant, First
<1>2. /\ waiters' \in Seq(Req) /\ 1 \in DOMAIN waiters
      /\ Head(waiters) = waiters[1] /\ Head(waiters) \in Req
      /\ \A i \in DOMAIN waiters' : i + 1 \in DOMAIN waiters /\ waiters'[i] = waiters[i + 1]
  BY <1>1, TailAt
<1>3. QED
  BY <1>1, <1>2 DEF Waiting


(* The queue after a message was put in, and after one was received.        *)
LEMMA PutIn ==
  ASSUME queue \in Seq(Msg), NEW m \in Msg, queue' = Append(queue, m),
         QueueCap \in Nat, Len(queue) < QueueCap
  PROVE  /\ queue' \in Seq(Msg) /\ Len(queue') <= QueueCap
         /\ Queued' \subseteq Queued \cup {m}
<1>1. /\ queue' \in Seq(Msg) /\ Len(queue') = Len(queue) + 1 /\ Len(queue) \in Nat
      /\ \A i \in DOMAIN queue' : i \in DOMAIN queue \/ queue'[i] = m
      /\ \A i \in DOMAIN queue : queue'[i] = queue[i]
  BY AppendAt
<1>2. QED
  BY <1>1 DEF Queued

LEMMA TakenOut ==
  ASSUME queue \in Seq(Msg), taken \in Seq(Msg), queue # <<>>,
         taken' = Append(taken, Head(queue)), queue' = Tail(queue)
  PROVE  /\ queue' \in Seq(Msg) /\ Len(queue') <= Len(queue) /\ taken' \in Seq(Msg)
         /\ Queued' \subseteq Queued /\ Taken' \subseteq Taken \cup Queued
<1>1. /\ queue' \in Seq(Msg) /\ Len(queue') = Len(queue) - 1 /\ Len(queue) \in Nat
      /\ Head(queue) \in Msg /\ 1 \in DOMAIN queue /\ Head(queue) = queue[1]
      /\ \A i \in DOMAIN queue' : i + 1 \in DOMAIN queue /\ queue'[i] = queue[i + 1]
  BY TailAt
<1>2. /\ taken' \in Seq(Msg)
      /\ \A i \in DOMAIN taken' : i \in DOMAIN taken \/ taken'[i] = Head(queue)
      /\ \A i \in DOMAIN taken : taken'[i] = taken[i]
  BY <1>1, AppendAt
<1>3. QED
  BY <1>1, <1>2 DEF Queued, Taken

LEMMA SameContents ==
  /\ UNCHANGED waiters => Waiting' = Waiting
  /\ UNCHANGED queue => Queued' = Queued
  /\ UNCHANGED taken => Taken' = Taken
  BY DEF Waiting, Queued, Taken

-----------------------------------------------------------------------------
(* What keeps the parts of the invariant that are about requests.           *)

LEMMA AskRequests ==
  ASSUME TypeOK, Requests, NEW who \in Who, NEW m \in Msg, Ask(who, m),
         who = "call" \/ ~Wants(who), IsWaiting(who)',
         \A w \in Who : IsWaiting(w) => IsWaiting(w)'
  PROVE  Requests'
<1> DEFINE r == Request(who, m)
           k == Len(waiters) + 1
<1>1. waiters \in Seq(Req) /\ r \in Req /\ r.who = who /\ waiters' = Append(waiters, r)
  BY DEF TypeOK, Req, Who, Request, Ask
<1>2. /\ \A i \in DOMAIN waiters : i \in DOMAIN waiters' /\ waiters'[i] = waiters[i]
      /\ \A i \in DOMAIN waiters' : i \in DOMAIN waiters \/ i = k
      /\ waiters'[k] = r
  BY <1>1, AppendAt
<1>3. \A i \in DOMAIN waiters : waiters[i] \in Req /\ (who # "call" => waiters[i].who # who)
  <2>1. \A i \in DOMAIN waiters : waiters[i] \in Req
    BY <1>1
  <2>2. QED
    BY <2>1 DEF Wants
<1>4. ASSUME NEW w \in Who, NEW i \in DOMAIN waiters', waiters'[i].who = w
      PROVE  IsWaiting(w)'
  <2>1. CASE i \in DOMAIN waiters
    <3>1. waiters[i].who = w
      BY <2>1, <1>2, <1>4
    <3>2. IsWaiting(w)
      BY <2>1, <3>1 DEF Requests
    <3>3. QED
      BY <3>2
  <2>2. CASE i = k
    <3>1. w = who
      BY <2>2, <1>1, <1>2, <1>4
    <3>2. QED
      BY <3>1
  <2>3. QED
    BY <1>2, <2>1, <2>2
<1>5. ASSUME NEW i \in DOMAIN waiters', NEW j \in DOMAIN waiters',
             waiters'[i].who = waiters'[j].who, waiters'[i].who # "call"
      PROVE  i = j
  BY <1>1, <1>2, <1>3, <1>5 DEF Requests
<1>6. QED
  BY <1>4, <1>5 DEF Requests

LEMMA GrantRequests ==
  ASSUME TypeOK, Requests, NEW who \in Who, Grant(who),
         \A w \in Who : w # who /\ IsWaiting(w) => IsWaiting(w)'
  PROVE  Requests'
<1>1. /\ waiters # <<>> /\ Head(waiters).who = who /\ waiters' = Tail(waiters)
      /\ waiters \in Seq(Req)
  BY DEF Grant, First, TypeOK, Req, Who
<1>2. /\ 1 \in DOMAIN waiters /\ waiters[1].who = who
      /\ \A i \in DOMAIN waiters' : /\ i \in Nat /\ i >= 1 /\ i + 1 \in DOMAIN waiters
                                    /\ waiters'[i] = waiters[i + 1]
  BY <1>1, TailAt
<1>3. ASSUME NEW w \in Who, NEW i \in DOMAIN waiters', waiters'[i].who = w
      PROVE  IsWaiting(w)'
  <2>1. waiters[i + 1].who = w /\ i + 1 \in DOMAIN waiters /\ i + 1 # 1
    BY <1>2, <1>3
  <2>2. IsWaiting(w)
    BY <2>1 DEF Requests
  <2>3. w = who => who = "call"
    BY <2>1, <1>2 DEF Requests
  <2>4. CASE w = "call"
    BY <2>4 DEF IsWaiting
  <2>5. CASE w # who
    BY <2>2, <2>5
  <2>6. QED
    BY <2>3, <2>4, <2>5
<1>4. ASSUME NEW i \in DOMAIN waiters', NEW j \in DOMAIN waiters',
             waiters'[i].who = waiters'[j].who, waiters'[i].who # "call"
      PROVE  i = j
  <2>1. i + 1 = j + 1
    BY <1>2, <1>4 DEF Requests
  <2>2. QED
    BY <2>1, <1>2
<1>5. QED
  BY <1>3, <1>4 DEF Requests

LEMMA AskBehind ==
  ASSUME TypeOK, Behind, NEW who \in Who, NEW m \in Msg, Ask(who, m), UNCHANGED hup,
         late' = late \/ (hup # "idle" /\ m \notin Waiting /\ late' = late \cup {m})
  PROVE  Behind'
<1> DEFINE r == Request(who, m)
<1>1. waiters \in Seq(Req) /\ r \in Req /\ waiters' = Append(waiters, r)
  BY DEF TypeOK, Req, Who, Request, Ask
<1>2. \A i \in DOMAIN waiters : /\ i \in DOMAIN waiters' /\ waiters'[i] = waiters[i]
                                /\ i \in Nat /\ \A j \in 1 .. i : j \in DOMAIN waiters
  BY <1>1
<1>3. CASE hup = "wait"
  <2>1. PICK i \in DOMAIN waiters :
          /\ waiters[i].who = "hup"
          /\ \A j \in 1 .. i : waiters[j].who = "call" => waiters[j].m \notin late
    BY <1>3 DEF Behind
  <2>2. \A j \in 1 .. i : waiters[j].who = "call" =>
          waiters[j].m \in Waiting /\ waiters[j].m \notin late'
    BY <2>1, <1>2 DEF Waiting
  <2>3. i \in DOMAIN waiters' /\ waiters'[i].who = "hup"
    BY <2>1, <1>2
  <2>4. \A j \in 1 .. i : waiters'[j].who = "call" => waiters'[j].m \notin late'
    BY <2>1, <2>2, <1>2
  <2>5. QED
    BY <1>3, <2>3, <2>4 DEF Behind
<1>4. CASE hup # "wait"
  BY <1>4 DEF Behind
<1>5. QED
  BY <1>3, <1>4

LEMMA GrantBehind ==
  ASSUME TypeOK, Behind, NEW who, Grant(who), who # "hup", UNCHANGED <<hup, late>>
  PROVE  Behind'
<1>1. /\ waiters # <<>> /\ Head(waiters).who = who /\ waiters' = Tail(waiters)
      /\ waiters \in Seq(Req)
  BY DEF Grant, First, TypeOK, Req, Who
<1>2. /\ waiters[1].who = who
      /\ \A i \in DOMAIN waiters : i \in Nat
      /\ \A i \in DOMAIN waiters : i # 1 => i - 1 \in DOMAIN waiters'
      /\ \A i \in DOMAIN waiters' : waiters'[i] = waiters[i + 1] /\ i \in Nat
      /\ \A i \in DOMAIN waiters : i # 1 => \A j \in 1 .. i - 1 : j \in DOMAIN waiters'
  BY <1>1
<1>3. CASE hup = "wait"
  <2>1. PICK i \in DOMAIN waiters :
          /\ waiters[i].who = "hup"
          /\ \A j \in 1 .. i : waiters[j].who = "call" => waiters[j].m \notin late
    BY <1>3 DEF Behind
  <2>2. i # 1 /\ i \in Nat /\ i - 1 \in DOMAIN waiters' /\ waiters'[i - 1] = waiters[i]
    <3>1. i # 1 /\ i \in Nat /\ i - 1 \in DOMAIN waiters'
      BY <2>1, <1>2
    <3>2. waiters'[i - 1] = waiters[(i - 1) + 1] /\ (i - 1) + 1 = i
      BY <3>1, <1>2
    <3>3. QED
      BY <3>1, <3>2
  <2>3. ASSUME NEW j \in 1 .. i - 1, waiters'[j].who = "call"
        PROVE  waiters'[j].m \notin late
    <3>1. j \in DOMAIN waiters' /\ j + 1 \in 1 .. i /\ waiters'[j] = waiters[j + 1]
      BY <1>2, <2>2
    <3>2. QED
      BY <2>1, <2>3, <3>1
  <2>4. QED
    BY <1>3, <2>1, <2>2, <2>3 DEF Behind
<1>4. CASE hup # "wait"
  BY <1>4 DEF Behind
<1>5. QED
  BY <1>3, <1>4

LEMMA ApartKept ==
  ASSUME TypeOK, Apart, UNCHANGED <<spawned, calls>>,
         Elsewhere' \subseteq Elsewhere \cup {Nobody}
  PROVE  Apart'
<1>1. Nobody.n = 0 /\ calls \in Nat
  BY DEF Nobody, Message, TypeOK
<1>2. QED
  BY <1>1 DEF Apart

-----------------------------------------------------------------------------
(* Every step keeps the invariant: first the requests, ...                  *)

LEMMA NobodyIsMsg == Nobody \in Msg /\ \A l \in Level, k \in 0 .. MaxCalls : Message(k, l) \in Msg
  BY CapAssumption DEF Nobody, Message, Msg, Level

LEMMA MainAskInv == IInv /\ MainAsk => IInv'
<1> SUFFICES ASSUME IInv, MainAsk PROVE IInv'
  OBVIOUS
<1>1. Ask("main", Nobody) /\ "main" \in Who /\ Nobody \in Msg /\ TypeOK
  BY NobodyIsMsg DEF MainAsk, Who, IInv
<1>2. waiters' \in Seq(Req) /\ Waiting' = Waiting
  BY <1>1, AskWaiting DEF TypeOK, Req, Who
<1>3. TypeOK'
  BY <1>1, <1>2 DEF MainAsk, TypeOK, Req, Who
<1>4. Requests'
  <2>1. ~Wants("main") /\ IsWaiting("main")' /\ \A w \in Who : IsWaiting(w) => IsWaiting(w)'
    BY DEF MainAsk, IsWaiting
  <2>2. QED
    BY <1>1, <2>1, AskRequests DEF IInv
<1>5. Behind'
  BY <1>1, AskBehind DEF IInv, MainAsk
<1>6. Order' /\ SilentAfterReload' /\ Apart'
  BY <1>2, SameContents DEF MainAsk, IInv, Order, SilentAfterReload, Apart, Elsewhere
<1>7. QED
  BY <1>3, <1>4, <1>5, <1>6 DEF IInv

LEMMA CallAskInv == ASSUME NEW m \in spawned, IInv, CallAsk(m) PROVE IInv'
<1>1. Ask("call", m) /\ "call" \in Who /\ m \in Msg /\ TypeOK
  BY DEF CallAsk, Who, IInv, TypeOK
<1>2. waiters' \in Seq(Req) /\ Waiting' \subseteq Waiting \cup {m}
  BY <1>1, AskWaiting DEF TypeOK, Req, Who
<1>3. m \notin Elsewhere /\ m.n \in 1 .. calls
  BY DEF IInv, Apart
<1>4. TypeOK'
  BY <1>1, <1>2 DEF CallAsk, TypeOK, Req, Who
<1>5. Requests'
  <2>1. IsWaiting("call")' /\ \A w \in Who : IsWaiting(w) => IsWaiting(w)'
    BY DEF CallAsk, IsWaiting
  <2>2. QED
    BY <1>1, <2>1, AskRequests DEF IInv
<1>6. Behind'
  <2>1. m \notin Waiting
    BY <1>3 DEF Elsewhere
  <2>2. QED
    BY <1>1, <2>1, AskBehind DEF IInv, CallAsk
<1>7. Order'
  BY DEF CallAsk, IInv, Order
<1>8. SilentAfterReload'
  BY <1>3, SameContents DEF CallAsk, IInv, SilentAfterReload, Elsewhere
<1>9. Apart'
  <2>1. Elsewhere' \subseteq Elsewhere \cup {m}
    BY <1>2, SameContents DEF CallAsk, Elsewhere
  <2>2. calls \in Nat /\ calls' = calls /\ spawned' = spawned \ {m} /\ m.n <= calls
    BY <1>1, <1>3 DEF CallAsk, TypeOK
  <2>3. QED
    BY <2>1, <2>2 DEF IInv, Apart
<1>10. QED
  BY <1>4, <1>5, <1>6, <1>7, <1>8, <1>9 DEF IInv

LEMMA LogAskInv == IInv /\ LogAsk => IInv'
<1> SUFFICES ASSUME IInv, LogAsk PROVE IInv'
  OBVIOUS
<1>1. Ask("log", Nobody) /\ "log" \in Who /\ Nobody \in Msg /\ TypeOK
  BY NobodyIsMsg DEF LogAsk, Who, IInv
<1>2. waiters' \in Seq(Req) /\ Waiting' = Waiting
  BY <1>1, AskWaiting DEF TypeOK, Req, Who
<1>3. TypeOK'
  BY <1>1, <1>2 DEF LogAsk, TypeOK, Req, Who
<1>4. Requests'
  <2>1. ~IsWaiting("log")
    BY DEF LogAsk, IsWaiting
  <2>2. ~Wants("log")
    BY <1>1, <2>1 DEF Wants, IInv, Requests
  <2>3. IsWaiting("log")' /\ \A w \in Who : IsWaiting(w) => IsWaiting(w)'
    BY DEF LogAsk, IsWaiting
  <2>4. QED
    BY <1>1, <2>2, <2>3, AskRequests DEF IInv
<1>5. Behind'
  BY <1>1, AskBehind DEF IInv, LogAsk
<1>6. Order' /\ SilentAfterReload' /\ Apart'
  BY <1>2, SameContents DEF LogAsk, IInv, Order, SilentAfterReload, Apart, Elsewhere
<1>7. QED
  BY <1>3, <1>4, <1>5, <1>6 DEF IInv

(* The reload's own request is the last, and nothing is late yet.           *)
LEMMA HupAskInv == IInv /\ HupAsk => IInv'
<1> SUFFICES ASSUME IInv, HupAsk PROVE IInv'
  OBVIOUS
<1>1. Ask("hup", Nobody) /\ "hup" \in Who /\ Nobody \in Msg /\ TypeOK
  BY NobodyIsMsg DEF HupAsk, Who, IInv
<1>2. waiters' \in Seq(Req) /\ Waiting' = Waiting
  BY <1>1, AskWaiting DEF TypeOK, Req, Who
<1>3. TypeOK'
  BY <1>1, <1>2 DEF HupAsk, TypeOK, Req, Who
<1>4. Requests'
  <2>1. ~IsWaiting("hup")
    BY DEF HupAsk, IsWaiting
  <2>2. ~Wants("hup")
    BY <1>1, <2>1 DEF Wants, IInv, Requests
  <2>3. IsWaiting("hup")' /\ \A w \in Who : IsWaiting(w) => IsWaiting(w)'
    BY DEF HupAsk, IsWaiting
  <2>4. QED
    BY <1>1, <2>2, <2>3, AskRequests DEF IInv
<1>5. Behind'
  <2>1. late' = {} /\ hup' = "wait"
    BY DEF HupAsk, IInv, Behind
  <2>2. /\ waiters \in Seq(Req) /\ waiters' = Append(waiters, Request("hup", Nobody))
        /\ Request("hup", Nobody) \in Req /\ Request("hup", Nobody).who = "hup"
    BY <1>1 DEF Ask, TypeOK, Req, Who, Request
  <2>3. Len(waiters) + 1 \in DOMAIN waiters' /\ waiters'[Len(waiters) + 1].who = "hup"
    BY <2>2, AppendAt
  <2>4. QED
    BY <2>1, <2>3 DEF Behind
<1>6. Order' /\ SilentAfterReload' /\ Apart'
  BY <1>2, SameContents DEF HupAsk, IInv, Order, SilentAfterReload, Apart, Elsewhere
<1>7. QED
  BY <1>3, <1>4, <1>5, <1>6 DEF IInv

-----------------------------------------------------------------------------
(* ... then what happens when they are granted, ...                         *)

LEMMA MainSetInv == IInv /\ MainSet => IInv'
<1> SUFFICES ASSUME IInv, MainSet PROVE IInv'
  OBVIOUS
<1>1. Grant("main") /\ "main" \in Who /\ TypeOK /\ Requests
  BY DEF MainSet, GrantWrite, Who, IInv
<1>2. /\ waiters' \in Seq(Req) /\ Waiting' \subseteq Waiting
      /\ 1 \in DOMAIN waiters /\ waiters[1].who = "main"
  BY <1>1, GrantWaiting DEF TypeOK, Req, Who
<1>3. main \in {"file", "debug"}
  BY <1>1, <1>2 DEF Requests, IsWaiting
<1>4. main' = (IF main = "file" THEN "debug" ELSE "spawn")
  BY <1>3 DEF MainSet, StepAfter
<1>5. TypeOK'
  BY <1>1, <1>2, <1>4 DEF MainSet, TypeOK, Req, Who, Level, LevelOf
<1>6. Requests'
  <2>1. \A w \in Who : w # "main" /\ IsWaiting(w) => IsWaiting(w)'
    BY DEF MainSet, IsWaiting
  <2>2. QED
    BY <1>1, <2>1, GrantRequests
<1>7. Behind'
  BY <1>1, GrantBehind DEF IInv, MainSet
<1>8. Order'
  BY <1>3, <1>4 DEF IInv, Order, MainSet
<1>9. SilentAfterReload'
  BY SameContents DEF MainSet, IInv, SilentAfterReload
<1>10. Apart'
  <2>1. Elsewhere' \subseteq Elsewhere
    BY <1>2, SameContents DEF MainSet, Elsewhere
  <2>2. QED
    BY <1>1, <2>1, ApartKept DEF IInv, MainSet
<1>11. QED
  BY <1>5, <1>6, <1>7, <1>8, <1>9, <1>10 DEF IInv

LEMMA HupSetInv == ASSUME NEW d \in BOOLEAN, IInv, HupSet(d) PROVE IInv'
<1>1. Grant("hup") /\ "hup" \in Who /\ TypeOK /\ Requests
  BY DEF HupSet, GrantWrite, Who, IInv
<1>2. /\ waiters' \in Seq(Req) /\ Waiting' \subseteq Waiting
      /\ 1 \in DOMAIN waiters /\ waiters[1].who = "hup"
  BY <1>1, GrantWaiting DEF TypeOK, Req, Who
<1>3. hup = "wait"
  BY <1>1, <1>2 DEF Requests, IsWaiting
<1>4. logpc \in {"end", "dead"}
  BY <1>1, <1>3 DEF IInv, Order, HupSet, GrantWrite, LogHolds, TypeOK
<1>5. TypeOK'
  BY <1>1, <1>2 DEF HupSet, TypeOK, Req, Who, Level, LevelOf
<1>6. Requests'
  <2>1. \A w \in Who : w # "hup" /\ IsWaiting(w) => IsWaiting(w)'
    BY DEF HupSet, IsWaiting
  <2>2. QED
    BY <1>1, <2>1, GrantRequests
<1>7. Behind'
  BY DEF HupSet, Behind
<1>8. Order'
  BY <1>4 DEF IInv, Order, HupSet
<1>9. SilentAfterReload'
  BY <1>4 DEF HupSet, SilentAfterReload
<1>10. Apart'
  <2>1. Elsewhere' \subseteq Elsewhere
    BY <1>2, SameContents DEF HupSet, Elsewhere
  <2>2. QED
    BY <1>1, <2>1, ApartKept DEF IInv, HupSet
<1>11. QED
  BY <1>5, <1>6, <1>7, <1>8, <1>9, <1>10 DEF IInv

(* The first in the line is before the reload, so its message is not late.  *)
LEMMA CallSendInv == IInv /\ CallSend => IInv'
<1> SUFFICES ASSUME IInv, CallSend PROVE IInv'
  OBVIOUS
<1> DEFINE m == Head(waiters).m
<1>1. Grant("call") /\ "call" \in Who /\ TypeOK /\ Requests /\ TrySend(m)
  BY DEF CallSend, Who, IInv
<1>2. /\ waiters' \in Seq(Req) /\ Waiting' \subseteq Waiting
      /\ 1 \in DOMAIN waiters /\ waiters[1].who = "call"
      /\ Head(waiters) \in Req /\ Head(waiters) = waiters[1] /\ m \in Waiting
  BY <1>1, GrantWaiting DEF TypeOK, Req, Who
<1>3. m \in Msg
  BY <1>2 DEF Req
<1>4. /\ queue' \in Seq(Msg) /\ Len(queue') <= QueueCap /\ lost' \subseteq Msg
      /\ Queued' \subseteq Queued \cup {m} /\ lost' \subseteq lost \cup {m}
  <2>1. CASE Len(queue) < QueueCap /\ ~Closed
    BY <1>1, <1>3, <2>1, PutIn, CapAssumption DEF TrySend, TypeOK
  <2>2. CASE ~(Len(queue) < QueueCap /\ ~Closed)
    BY <1>1, <1>3, <2>2, SameContents DEF TrySend, TypeOK
  <2>3. QED
    BY <2>1, <2>2
<1>5. TypeOK'
  BY <1>1, <1>2, <1>4 DEF CallSend, TypeOK, Req, Who
<1>6. Requests'
  <2>1. \A w \in Who : w # "call" /\ IsWaiting(w) => IsWaiting(w)'
    BY DEF CallSend, IsWaiting
  <2>2. QED
    BY <1>1, <2>1, GrantRequests
<1>7. Behind'
  BY <1>1, GrantBehind DEF IInv, CallSend
<1>8. Order'
  BY DEF IInv, Order, CallSend
<1>9. SilentAfterReload'
  <2>1. hup # "done" => m \notin late
    <3>1. CASE hup = "wait"
      <4>1. PICK i \in DOMAIN waiters :
              /\ waiters[i].who = "hup"
              /\ \A j \in 1 .. i : waiters[j].who = "call" => waiters[j].m \notin late
        BY <3>1 DEF IInv, Behind
      <4>2. 1 \in 1 .. i
        BY <1>1 DEF TypeOK
      <4>3. QED
        BY <4>1, <4>2, <1>2
    <3>2. CASE hup = "idle"
      BY <3>2 DEF IInv, Behind
    <3>3. QED
      BY <1>1, <3>1, <3>2 DEF TypeOK
  <2>2. hup = "done" => logpc \in {"end", "dead"}
    BY DEF IInv, Order
  <2>3. Taken' = Taken
    BY SameContents DEF CallSend
  <2>4. QED
    BY <1>4, <2>1, <2>2, <2>3 DEF IInv, SilentAfterReload, CallSend
<1>10. Apart'
  <2>1. Elsewhere' \subseteq Elsewhere
    BY <1>2, <1>4, SameContents DEF CallSend, Elsewhere
  <2>2. QED
    BY <1>1, <2>1, ApartKept DEF IInv, CallSend
<1>11. QED
  BY <1>5, <1>6, <1>7, <1>8, <1>9, <1>10 DEF IInv

(* The log task starts before any reload, so nothing is late.               *)
LEMMA LogStartInv == IInv /\ LogStart => IInv'
<1> SUFFICES ASSUME IInv, LogStart PROVE IInv'
  OBVIOUS
<1>1. Grant("log") /\ "log" \in Who /\ TypeOK /\ Requests
  BY DEF LogStart, Who, IInv
<1>2. /\ waiters' \in Seq(Req) /\ Waiting' \subseteq Waiting
      /\ 1 \in DOMAIN waiters /\ waiters[1].who = "log"
  BY <1>1, GrantWaiting DEF TypeOK, Req, Who
<1>3. logpc = "ask" /\ hup = "idle" /\ late = {} /\ main = "up"
  <2>1. logpc = "ask"
    BY <1>1, <1>2 DEF Requests, IsWaiting
  <2>2. hup = "idle" /\ main = "up"
    BY <2>1 DEF IInv, Order
  <2>3. QED
    BY <2>1, <2>2 DEF IInv, Behind
<1>4. /\ queue' \in Seq(Msg) /\ Len(queue') <= QueueCap
      /\ Queued' \cup lost' \subseteq Queued \cup lost \cup {Nobody} /\ lost' \subseteq Msg
      /\ logpc' \in {"start", "dead"}
  <2>1. CASE Len(queue) < QueueCap
    <3>1. queue' = Append(queue, Nobody) /\ logpc' = "start" /\ lost' = lost
      BY <2>1 DEF LogStart
    <3>2. queue' \in Seq(Msg) /\ Len(queue') <= QueueCap /\ Queued' \subseteq Queued \cup {Nobody}
      BY <1>1, <2>1, <3>1, PutIn, NobodyIsMsg, CapAssumption DEF TypeOK
    <3>3. QED
      BY <1>1, <3>1, <3>2 DEF TypeOK
  <2>2. CASE ~(Len(queue) < QueueCap)
    <3>1. queue' = <<>> /\ logpc' = "dead" /\ lost' = lost \cup Queued
      BY <2>2 DEF LogStart, Queued
    <3>2. Queued \subseteq Msg
      BY <1>1 DEF Queued, TypeOK
    <3>3. queue' \in Seq(Msg) /\ Len(queue') <= QueueCap /\ Queued' = {}
      BY <3>1, CapAssumption DEF Queued
    <3>4. QED
      BY <1>1, <3>1, <3>2, <3>3 DEF TypeOK
  <2>3. QED
    BY <2>1, <2>2
<1>5. TypeOK'
  BY <1>1, <1>2, <1>4 DEF LogStart, TypeOK, Req, Who
<1>6. Requests'
  <2>1. \A w \in Who : w # "log" /\ IsWaiting(w) => IsWaiting(w)'
    BY DEF LogStart, IsWaiting
  <2>2. QED
    BY <1>1, <2>1, GrantRequests
<1>7. Behind'
  BY <1>3 DEF LogStart, Behind
<1>8. Order'
  BY <1>3, <1>4 DEF IInv, Order, LogStart
<1>9. SilentAfterReload'
  BY <1>3 DEF LogStart, SilentAfterReload
<1>10. Apart'
  <2>1. Elsewhere' \subseteq Elsewhere \cup {Nobody}
    BY <1>2, <1>4, SameContents DEF LogStart, Elsewhere
  <2>2. QED
    BY <1>1, <2>1, ApartKept DEF IInv, LogStart
<1>11. QED
  BY <1>5, <1>6, <1>7, <1>8, <1>9, <1>10 DEF IInv

-----------------------------------------------------------------------------
(* ... and what leaves the lock alone.                                      *)

LEMMA LogTakeInv == IInv /\ LogTake => IInv'
<1> SUFFICES ASSUME IInv, LogTake PROVE IInv'
  OBVIOUS
<1>1. /\ queue' \in Seq(Msg) /\ Len(queue') <= Len(queue) /\ taken' \in Seq(Msg)
      /\ Queued' \subseteq Queued /\ Taken' \subseteq Taken \cup Queued
  BY TakenOut DEF IInv, TypeOK, LogTake
<1>2. TypeOK'
  <2>1. Len(queue') <= QueueCap
    BY <1>1, CapAssumption DEF IInv, TypeOK
  <2>2. QED
    BY <1>1, <2>1 DEF IInv, TypeOK, LogTake
<1>3. Order' /\ Requests' /\ Behind'
  BY DEF IInv, LogTake, Order, Requests, IsWaiting, Behind
<1>4. SilentAfterReload'
  BY <1>1 DEF IInv, LogTake, SilentAfterReload
<1>5. Apart'
  <2>1. Elsewhere' \subseteq Elsewhere
    BY <1>1, SameContents DEF LogTake, Elsewhere
  <2>2. QED
    BY <2>1, ApartKept DEF IInv, LogTake
<1>6. QED
  BY <1>2, <1>3, <1>4, <1>5 DEF IInv

LEMMA LogCallInv == ASSUME NEW l \in Level, IInv, LogCall(l) PROVE IInv'
<1> DEFINE m == Message(calls + 1, l)
<1>1. TypeOK /\ calls \in Nat /\ calls + 1 \in 0 .. MaxCalls
  BY CapAssumption DEF IInv, TypeOK, LogCall
<1>2. m \in Msg /\ m.n = calls + 1
  BY <1>1, NobodyIsMsg DEF Message
<1>3. TypeOK'
  BY <1>1, <1>2 DEF TypeOK, LogCall
<1>4. Order' /\ Requests' /\ Behind'
  BY DEF IInv, LogCall, Order, Requests, IsWaiting, Behind
<1>5. SilentAfterReload' /\ Elsewhere' = Elsewhere
  BY SameContents DEF IInv, LogCall, SilentAfterReload, Elsewhere
<1>6. Apart'
  <2>1. \A x \in Elsewhere : x.n <= calls
    BY DEF IInv, Apart
  <2>2. Elsewhere \subseteq Msg
    <3>1. waiters \in Seq(Req) /\ queue \in Seq(Msg) /\ taken \in Seq(Msg)
      BY <1>1 DEF TypeOK, Req, Who
    <3>2. Waiting \subseteq Msg
      <4>1. \A i \in DOMAIN waiters : waiters[i] \in Req
        BY <3>1
      <4>2. QED
        BY <4>1 DEF Waiting, Req
    <3>3. Queued \subseteq Msg /\ Taken \subseteq Msg
      BY <3>1 DEF Queued, Taken
    <3>4. QED
      BY <1>1, <3>2, <3>3 DEF Elsewhere, TypeOK
  <2>3. \A x \in Msg : x.n \in Nat
    BY CapAssumption DEF Msg
  <2>4. m \notin Elsewhere
    BY <1>1, <1>2, <2>1
  <2>5. calls' = calls + 1 /\ spawned' = spawned \cup {m}
    BY DEF LogCall
  <2>6. \A x \in spawned' : x.n \in 1 .. calls' /\ x \notin Elsewhere'
    BY <1>1, <1>2, <1>5, <2>4, <2>5 DEF IInv, Apart
  <2>7. \A x \in Elsewhere' : x.n <= calls'
    BY <1>1, <1>5, <2>1, <2>2, <2>3, <2>5
  <2>8. QED
    BY <2>6, <2>7 DEF Apart
<1>7. QED
  BY <1>3, <1>4, <1>5, <1>6 DEF IInv

(* Steps that touch neither messages nor requests.                          *)
Quiet == MainSpawn \/ StartBarrier \/ LogShutdown \/ ShutBarrier \/ LogEnd \/ SendShutdown

LEMMA QuietInv == IInv /\ (Quiet \/ UNCHANGED vars) => IInv'
<1> SUFFICES ASSUME IInv, Quiet \/ UNCHANGED vars PROVE IInv'
  OBVIOUS
<1>1. /\ UNCHANGED <<debug, level, hup, calls, spawned, waiters, queue, taken, lost, late>>
      /\ told' \in {told, TRUE}
      /\ \/ UNCHANGED <<main, logpc>>
         \/ main = "spawn" /\ main' = "up" /\ logpc' = "spawned"
         \/ main' = main /\ logpc = "start" /\ logpc' = "run"
         \/ main' = main /\ logpc = "run" /\ logpc' = "shut"
         \/ main' = main /\ logpc = "shut" /\ logpc' = "drain"
         \/ main' = main /\ logpc = "drain" /\ logpc' = "end"
  BY DEF Quiet, vars, MainSpawn, StartBarrier, LogShutdown, ShutBarrier, LogEnd,
         SendShutdown, StepAfter
<1>2. Order' /\ TypeOK'
  BY <1>1 DEF IInv, Order, TypeOK
<1>3. Requests'
  <2>1. \A w \in Who : IsWaiting(w) => IsWaiting(w)'
    BY <1>1 DEF IsWaiting, IInv, Order
  <2>2. QED
    BY <1>1, <2>1 DEF IInv, Requests
<1>4. SilentAfterReload' /\ Apart'
  <2>1. Waiting' = Waiting /\ Queued' = Queued /\ Taken' = Taken
    BY <1>1, SameContents
  <2>2. logpc \in {"end", "dead"} => logpc' = logpc
    BY <1>1, <1>2 DEF IInv, Order
  <2>3. SilentAfterReload'
    BY <1>1, <2>1, <2>2 DEF IInv, SilentAfterReload
  <2>4. QED
    BY <1>1, <2>1, <2>3 DEF IInv, Apart, Elsewhere
<1>5. Behind'
  BY <1>1 DEF IInv, Behind
<1>6. QED
  BY <1>2, <1>3, <1>4, <1>5 DEF IInv

LEMMA NextInv == IInv /\ [Next]_vars => IInv'
<1> SUFFICES ASSUME IInv, [Next]_vars PROVE IInv'
  OBVIOUS
<1>1. CASE Main
  BY <1>1, MainAskInv, MainSetInv, QuietInv DEF Main, Quiet
<1>2. CASE Calls
  BY <1>2, CallSendInv, CallAskInv DEF Calls
<1>3. CASE LogTask
  BY <1>3, LogAskInv, LogStartInv, QuietInv DEF LogTask, Quiet
<1>4. CASE Hup
  BY <1>4, HupAskInv, HupSetInv DEF Hup
<1>5. CASE LogTake \/ ShutBarrier \/ SendShutdown \/ UNCHANGED vars
  BY <1>5, LogTakeInv, QuietInv DEF Quiet
<1>6. CASE \E l \in Level : LogCall(l)
  BY <1>6, LogCallInv
<1>7. QED
  BY <1>1, <1>2, <1>3, <1>4, <1>5, <1>6 DEF Next

-----------------------------------------------------------------------------
(* The invariant of this module holds.                                      *)
THEOREM InductiveInvariant == Spec => []IInv
  BY InitInv, NextInv, PTL DEF Spec

(* Every variable has its type; in particular the queue never has more than *)
(* its places.                                                              *)
THEOREM TypeCorrect == Spec => []TypeOK
<1>1. IInv => TypeOK
  BY DEF IInv
<1>2. QED
  BY <1>1, InductiveInvariant, PTL

(* While the log task lives, LOGGER has the level main set: a reload's      *)
(* set_debug gets the write lock only after the task's end, for any number  *)
(* of calls and any capacity of the queue.                                  *)
THEOREM LevelKept == Spec => []LevelAsStarted
<1>1. IInv => LevelAsStarted
  BY DEF IInv, Order, LevelAsStarted
<1>2. QED
  BY <1>1, InductiveInvariant, PTL

(* A log call that comes after a reload asked for the lock does not reach   *)
(* the queue while the log task lives.                                      *)
THEOREM SilentReload == Spec => []SilentAfterReload
<1>1. IInv => SilentAfterReload
  BY DEF IInv
<1>2. QED
  BY <1>1, InductiveInvariant, PTL

-----------------------------------------------------------------------------
(***************************************************************************)
(* No message is lost unnoticed or doubled.  A message is at one position   *)
(* of the requests, of the queue, or of what the log task received, and in  *)
(* one of the five places.                                                  *)
(***************************************************************************)
Singly ==
  /\ \A i, j \in DOMAIN waiters :
       waiters[i].who = "call" /\ waiters[j].who = "call" /\ waiters[i].m = waiters[j].m
         => i = j
  /\ \A i, j \in DOMAIN queue : queue[i] = queue[j] => i = j
  /\ \A i, j \in DOMAIN taken : taken[i] = taken[j] => i = j

Once ==
  /\ Waiting \cap (Queued \cup Taken \cup lost) = {}
  /\ Queued \cap (Taken \cup lost) = {}
  /\ Taken \cap lost = {}

Somewhere ==
  \A k \in 1 .. calls : \E m \in spawned \cup Waiting \cup Queued \cup Taken \cup lost : m.n = k

(* The log task logs its own start once, and leaves nothing in the queue.   *)
Begun ==
  /\ Nobody \notin Waiting
  /\ logpc \in {"none", "spawned", "ask"} => Nobody \notin Queued \cup Taken \cup lost
  /\ logpc \in {"end", "dead"} => queue = <<>>

AInv == Singly /\ Once /\ Somewhere /\ Begun

(* What the steps do to the requests and to the queue.                      *)
LEMMA AskOnce ==
  ASSUME IInv, AInv, NEW who \in Who, NEW m \in Msg, Ask(who, m),
         who = "call" => m \notin Waiting, UNCHANGED <<queue, taken>>
  PROVE  Singly' /\ Waiting' = IF who = "call" THEN Waiting \cup {m} ELSE Waiting
<1> DEFINE r == Request(who, m)
<1>1. r \in Req /\ r.who = who /\ r.m = m
  BY DEF Request, Req
<1>2. waiters \in Seq(Req) /\ waiters' = Append(waiters, r)
  BY DEF Ask, IInv, TypeOK, Req, Who
<1>3. /\ \A i \in DOMAIN waiters : i \in DOMAIN waiters' /\ waiters'[i] = waiters[i]
      /\ Len(waiters) + 1 \in DOMAIN waiters' /\ waiters'[Len(waiters) + 1] = r
      /\ \A i \in DOMAIN waiters' : i \in DOMAIN waiters \/ i = Len(waiters) + 1
  BY <1>1, <1>2, AppendAt
<1>4. \A i \in DOMAIN waiters : waiters[i].who = "call" => waiters[i].m \in Waiting
  BY DEF Waiting
<1>5. Singly'
  BY <1>1, <1>3, <1>4 DEF AInv, Singly
<1>6. \A x : x \in Waiting' <=> x \in Waiting \/ (who = "call" /\ x = m)
  <2>1. \A x : x \in Waiting' <=> \E i \in DOMAIN waiters' : waiters'[i].who = "call" /\ waiters'[i].m = x
    BY DEF Waiting
  <2>2. \A x : x \in Waiting <=> \E i \in DOMAIN waiters : waiters[i].who = "call" /\ waiters[i].m = x
    BY DEF Waiting
  <2> HIDE DEF r
  <2>3. QED
    BY <1>1, <1>3, <2>1, <2>2
<1>7. QED
  BY <1>5, <1>6

LEMMA GrantOnce ==
  ASSUME IInv, AInv, NEW who, Grant(who)
  PROVE  /\ \A i, j \in DOMAIN waiters' :
              waiters'[i].who = "call" /\ waiters'[j].who = "call" /\ waiters'[i].m = waiters'[j].m
                => i = j
         /\ who # "call" => Waiting' = Waiting
         /\ who = "call" => Waiting' = Waiting \ {Head(waiters).m} /\ Head(waiters).m \in Waiting
<1>1. waiters \in Seq(Req) /\ waiters # <<>> /\ waiters' = Tail(waiters) /\ Head(waiters).who = who
  BY DEF Grant, First, IInv, TypeOK, Req, Who
<1>2. /\ 1 \in DOMAIN waiters /\ Head(waiters) = waiters[1]
      /\ \A i \in DOMAIN waiters' : i \in Nat /\ i >= 1 /\ i + 1 \in DOMAIN waiters
                                    /\ waiters'[i] = waiters[i + 1]
      /\ \A i \in DOMAIN waiters : i # 1 => i - 1 \in DOMAIN waiters' /\ waiters'[i - 1] = waiters[i]
  BY <1>1, TailAt
<1>3. ASSUME NEW i \in DOMAIN waiters', NEW j \in DOMAIN waiters',
             waiters'[i].who = "call", waiters'[j].who = "call", waiters'[i].m = waiters'[j].m
      PROVE  i = j
  <2>1. i + 1 \in DOMAIN waiters /\ j + 1 \in DOMAIN waiters /\ i \in Nat /\ j \in Nat
    BY <1>2
  <2>2. waiters'[i] = waiters[i + 1] /\ waiters'[j] = waiters[j + 1]
    BY <1>2
  <2>3. i + 1 = j + 1
    BY <1>3, <2>1, <2>2 DEF AInv, Singly
  <2>4. QED
    BY <2>1, <2>3
<1>4. ASSUME NEW x
      PROVE  x \in Waiting' <=> \E i \in DOMAIN waiters : i # 1 /\ waiters[i].who = "call" /\ waiters[i].m = x
  <2>1. x \in Waiting' <=> \E i \in DOMAIN waiters' : waiters'[i].who = "call" /\ waiters'[i].m = x
    BY DEF Waiting
  <2>2. ASSUME NEW i \in DOMAIN waiters'
        PROVE  i + 1 \in DOMAIN waiters /\ i + 1 # 1 /\ waiters'[i] = waiters[i + 1]
    <3>1. i \in Nat /\ i >= 1 /\ i + 1 \in DOMAIN waiters /\ waiters'[i] = waiters[i + 1]
      BY <1>2
    <3>2. QED
      BY <3>1
  <2>3. QED
    BY <1>2, <2>1, <2>2
<1>5. ASSUME NEW x
      PROVE  x \in Waiting <=> \E i \in DOMAIN waiters : waiters[i].who = "call" /\ waiters[i].m = x
  BY DEF Waiting
<1>6. who # "call" => Waiting' = Waiting
  <2>1. who # "call" => \A i \in DOMAIN waiters : waiters[i].who = "call" => i # 1
    BY <1>1, <1>2
  <2>2. QED
    BY <1>4, <1>5, <2>1
<1>7. ASSUME who = "call"
      PROVE  Waiting' = Waiting \ {Head(waiters).m} /\ Head(waiters).m \in Waiting
  <2>1. \A i \in DOMAIN waiters : waiters[i].who = "call" /\ waiters[i].m = waiters[1].m => i = 1
    BY <1>1, <1>2, <1>7 DEF AInv, Singly
  <2>2. \A x : x \in Waiting' <=> x \in Waiting /\ x # waiters[1].m
    BY <1>2, <1>4, <1>5, <2>1
  <2>3. waiters[1].m \in Waiting
    BY <1>1, <1>2, <1>5, <1>7
  <2>4. QED
    BY <1>2, <2>2, <2>3
<1>8. QED
  BY <1>3, <1>6, <1>7

LEMMA PutOnce ==
  ASSUME IInv, AInv, NEW m \in Msg, m \notin Queued, queue' = Append(queue, m)
  PROVE  /\ Queued' = Queued \cup {m}
         /\ \A i, j \in DOMAIN queue' : queue'[i] = queue'[j] => i = j
<1>1. queue \in Seq(Msg)
  BY DEF IInv, TypeOK
<1>2. /\ \A i \in DOMAIN queue : i \in DOMAIN queue' /\ queue'[i] = queue[i]
      /\ Len(queue) + 1 \in DOMAIN queue' /\ queue'[Len(queue) + 1] = m
      /\ \A i \in DOMAIN queue' : i \in DOMAIN queue \/ i = Len(queue) + 1
  BY <1>1, AppendAt
<1>3. \A i \in DOMAIN queue : queue[i] # m
  BY DEF Queued
<1>4. Queued' = Queued \cup {m}
  BY <1>2 DEF Queued
<1>5. QED
  BY <1>2, <1>3, <1>4 DEF AInv, Singly

LEMMA TakeOnce ==
  ASSUME IInv, AInv, LogTake
  PROVE  /\ Head(queue) \in Queued
         /\ Queued' = Queued \ {Head(queue)} /\ Taken' = Taken \cup {Head(queue)}
         /\ \A i, j \in DOMAIN queue' : queue'[i] = queue'[j] => i = j
         /\ \A i, j \in DOMAIN taken' : taken'[i] = taken'[j] => i = j
<1>1. /\ queue \in Seq(Msg) /\ taken \in Seq(Msg) /\ queue # <<>>
      /\ taken' = Append(taken, Head(queue)) /\ queue' = Tail(queue)
  BY DEF LogTake, IInv, TypeOK
<1>2. /\ 1 \in DOMAIN queue /\ Head(queue) = queue[1] /\ Head(queue) \in Msg
      /\ \A i \in DOMAIN queue' : i \in Nat /\ i >= 1 /\ i + 1 \in DOMAIN queue
                                  /\ queue'[i] = queue[i + 1]
      /\ \A i \in DOMAIN queue : i # 1 => i - 1 \in DOMAIN queue' /\ queue'[i - 1] = queue[i]
  BY <1>1, TailAt
<1>3. /\ \A i \in DOMAIN taken : i \in DOMAIN taken' /\ taken'[i] = taken[i]
      /\ Len(taken) + 1 \in DOMAIN taken' /\ taken'[Len(taken) + 1] = Head(queue)
      /\ \A i \in DOMAIN taken' : i \in DOMAIN taken \/ i = Len(taken) + 1
  BY <1>1, <1>2, AppendAt
<1>4. Head(queue) \in Queued
  BY <1>2 DEF Queued
<1>5. \A i \in DOMAIN taken : taken[i] # Head(queue)
  BY <1>4 DEF AInv, Once, Taken
<1>6. Taken' = Taken \cup {Head(queue)}
  BY <1>3 DEF Taken
<1>7. \A i, j \in DOMAIN taken' : taken'[i] = taken'[j] => i = j
  BY <1>3, <1>5 DEF AInv, Singly
<1>8. ASSUME NEW i \in DOMAIN queue', NEW j \in DOMAIN queue', queue'[i] = queue'[j]
      PROVE  i = j
  <2>1. i + 1 \in DOMAIN queue /\ j + 1 \in DOMAIN queue /\ i \in Nat /\ j \in Nat
        /\ queue[i + 1] = queue[j + 1]
    BY <1>2, <1>8
  <2>2. i + 1 = j + 1
    BY <2>1 DEF AInv, Singly
  <2>3. QED
    BY <2>1, <2>2
<1>9. Queued' = Queued \ {Head(queue)}
  <2>1. \A i \in DOMAIN queue : queue[i] = queue[1] => i = 1
    BY <1>2 DEF AInv, Singly
  <2>2. ASSUME NEW i \in DOMAIN queue'
        PROVE  i + 1 \in DOMAIN queue /\ i + 1 # 1 /\ queue'[i] = queue[i + 1]
    <3>1. i \in Nat /\ i >= 1 /\ i + 1 \in DOMAIN queue /\ queue'[i] = queue[i + 1]
      BY <1>2
    <3>2. QED
      BY <3>1
  <2>3. \A x : x \in Queued' <=> \E i \in DOMAIN queue : i # 1 /\ queue[i] = x
    <3>1. \A x : x \in Queued' <=> \E i \in DOMAIN queue' : queue'[i] = x
      BY DEF Queued
    <3>2. QED
      BY <1>2, <2>2, <3>1
  <2>4. \A x : x \in Queued <=> \E i \in DOMAIN queue : queue[i] = x
    BY DEF Queued
  <2>5. QED
    BY <1>2, <2>1, <2>3, <2>4
<1>10. QED
  BY <1>4, <1>6, <1>7, <1>8, <1>9

(* Every step preserves it.                                                 *)
LEMMA AskLockOnce == ASSUME IInv, AInv, MainAsk \/ LogAsk \/ HupAsk PROVE AInv'
<1>1. PICK who \in Who \ {"call"} : Ask(who, Nobody)
  BY DEF MainAsk, LogAsk, HupAsk, Who
<1>2. /\ UNCHANGED <<calls, spawned, queue, taken, lost>>
      /\ logpc' = logpc \/ (logpc = "spawned" /\ logpc' = "ask")
  BY DEF MainAsk, LogAsk, HupAsk
<1>3. Singly' /\ Waiting' = Waiting
  BY <1>1, <1>2, AskOnce, NobodyIsMsg
<1>4. Queued' = Queued /\ Taken' = Taken
  BY <1>2, SameContents
<1>5. Once' /\ Somewhere' /\ Begun'
  BY <1>2, <1>3, <1>4 DEF AInv, Once, Somewhere, Begun
<1>6. QED
  BY <1>3, <1>5 DEF AInv

LEMMA CallAskOnce == ASSUME IInv, AInv, NEW m \in spawned, CallAsk(m) PROVE AInv'
<1>1. /\ UNCHANGED <<calls, logpc, queue, taken, lost>>
      /\ spawned' = spawned \ {m} /\ Ask("call", m)
  BY DEF CallAsk
<1>2. m \in Msg /\ m \notin Waiting \cup Queued \cup Taken \cup lost /\ m.n \in 1 .. calls
  BY DEF IInv, TypeOK, Apart, Elsewhere
<1>3. Singly' /\ Waiting' = Waiting \cup {m}
  BY <1>1, <1>2, AskOnce DEF Who
<1>4. Queued' = Queued /\ Taken' = Taken
  BY <1>1, SameContents
<1>5. m # Nobody
  BY <1>2 DEF Nobody, Message
<1>6. Once' /\ Somewhere' /\ Begun'
  BY <1>1, <1>2, <1>3, <1>4, <1>5 DEF AInv, Once, Somewhere, Begun
<1>7. QED
  BY <1>3, <1>6 DEF AInv

LEMMA SetOnce == ASSUME IInv, AInv, MainSet \/ \E d \in BOOLEAN : HupSet(d) PROVE AInv'
<1>1. PICK who \in Who \ {"call"} : Grant(who)
  BY DEF MainSet, HupSet, GrantWrite, Who
<1>2. UNCHANGED <<calls, logpc, spawned, queue, taken, lost>>
  BY DEF MainSet, HupSet
<1>3. Waiting' = Waiting /\ Queued' = Queued /\ Taken' = Taken
  BY <1>1, <1>2, GrantOnce, SameContents
<1>4. Singly'
  BY <1>1, <1>2, GrantOnce DEF AInv, Singly
<1>5. Once' /\ Somewhere' /\ Begun'
  BY <1>2, <1>3 DEF AInv, Once, Somewhere, Begun
<1>6. QED
  BY <1>4, <1>5 DEF AInv

LEMMA CallSendOnce == ASSUME IInv, AInv, CallSend PROVE AInv'
<1>1. /\ Grant("call") /\ TrySend(Head(waiters).m)
      /\ UNCHANGED <<calls, logpc, spawned, taken>>
  BY DEF CallSend
<1>2. PICK m : m = Head(waiters).m
  OBVIOUS
<1>3. /\ Waiting' = Waiting \ {m} /\ m \in Waiting /\ Taken' = Taken
      /\ \A i, j \in DOMAIN waiters' :
           waiters'[i].who = "call" /\ waiters'[j].who = "call" /\ waiters'[i].m = waiters'[j].m
             => i = j
  BY <1>1, <1>2, GrantOnce, SameContents
<1>4. m \in Msg /\ m \notin Queued \cup Taken \cup lost /\ m # Nobody
  <2>1. Head(waiters) \in Req
    BY <1>1, GrantWaiting DEF IInv, TypeOK, Req, Who
  <2>2. QED
    BY <1>2, <1>3, <2>1 DEF Req, AInv, Once, Begun
<1>5. CASE queue' = Append(queue, m) /\ UNCHANGED lost /\ ~Closed
  <2>1. Queued' = Queued \cup {m} /\ \A i, j \in DOMAIN queue' : queue'[i] = queue'[j] => i = j
    BY <1>4, <1>5, PutOnce
  <2>2. Singly'
    BY <1>1, <1>3, <2>1 DEF AInv, Singly
  <2>3. Once' /\ Somewhere' /\ Begun'
    BY <1>1, <1>3, <1>4, <1>5, <2>1 DEF AInv, Once, Somewhere, Begun, Closed
  <2>4. QED
    BY <2>2, <2>3 DEF AInv
<1>6. CASE lost' = lost \cup {m} /\ UNCHANGED queue
  <2>1. Queued' = Queued
    BY <1>6, SameContents
  <2>2. Singly'
    BY <1>1, <1>3, <1>6 DEF AInv, Singly
  <2>3. Once' /\ Somewhere' /\ Begun'
    BY <1>1, <1>3, <1>4, <1>6, <2>1 DEF AInv, Once, Somewhere, Begun
  <2>4. QED
    BY <2>2, <2>3 DEF AInv
<1>7. QED
  BY <1>1, <1>2, <1>5, <1>6 DEF TrySend

LEMMA LogStartOnce == ASSUME IInv, AInv, LogStart PROVE AInv'
<1>1. Grant("log") /\ UNCHANGED <<calls, spawned, taken>>
  BY DEF LogStart
<1>2. /\ Waiting' = Waiting /\ Taken' = Taken
      /\ \A i, j \in DOMAIN waiters' :
           waiters'[i].who = "call" /\ waiters'[j].who = "call" /\ waiters'[i].m = waiters'[j].m
             => i = j
  BY <1>1, GrantOnce, SameContents
<1>3. logpc = "ask"
  <2>1. 1 \in DOMAIN waiters /\ waiters[1].who = "log" /\ "log" \in Who
    BY <1>1, GrantWaiting DEF IInv, TypeOK, Req, Who
  <2>2. QED
    BY <2>1 DEF IInv, Requests, IsWaiting
<1>4. Nobody \notin Waiting \cup Queued \cup Taken \cup lost
  BY <1>3 DEF AInv, Begun
<1>5. CASE Len(queue) < QueueCap
  <2>1. queue' = Append(queue, Nobody) /\ logpc' = "start" /\ lost' = lost
    BY <1>5 DEF LogStart
  <2>2. /\ Queued' = Queued \cup {Nobody}
        /\ \A i, j \in DOMAIN queue' : queue'[i] = queue'[j] => i = j
    BY <1>4, <2>1, PutOnce, NobodyIsMsg
  <2>3. Singly'
    BY <1>1, <1>2, <2>2 DEF AInv, Singly
  <2>4. Once' /\ Somewhere' /\ Begun'
    BY <1>1, <1>2, <1>4, <2>1, <2>2 DEF AInv, Once, Somewhere, Begun
  <2>5. QED
    BY <2>3, <2>4 DEF AInv
<1>6. CASE ~(Len(queue) < QueueCap)
  <2>1. queue' = <<>> /\ logpc' = "dead" /\ lost' = lost \cup Queued
    BY <1>6 DEF LogStart, Queued
  <2>2. DOMAIN queue' = {} /\ Queued' = {}
    BY <2>1 DEF Queued
  <2>3. Singly'
    BY <1>1, <1>2, <2>2 DEF AInv, Singly
  <2>4. Once' /\ Somewhere' /\ Begun'
    BY <1>1, <1>2, <1>4, <2>1, <2>2 DEF AInv, Once, Somewhere, Begun
  <2>5. QED
    BY <2>3, <2>4 DEF AInv
<1>7. QED
  BY <1>5, <1>6

LEMMA LogTakeOnce == ASSUME IInv, AInv, LogTake PROVE AInv'
<1>1. UNCHANGED <<calls, spawned, waiters, lost>> /\ logpc' = logpc /\ logpc \in {"run", "drain"}
  BY DEF LogTake
<1>2. Waiting' = Waiting
  BY <1>1, SameContents
<1>3. PICK h : h = Head(queue)
  OBVIOUS
<1>4. /\ h \in Queued /\ Queued' = Queued \ {h} /\ Taken' = Taken \cup {h}
      /\ \A i, j \in DOMAIN queue' : queue'[i] = queue'[j] => i = j
      /\ \A i, j \in DOMAIN taken' : taken'[i] = taken'[j] => i = j
  BY <1>3, TakeOnce
<1>5. Singly'
  BY <1>1, <1>4 DEF AInv, Singly
<1>6. Once' /\ Somewhere' /\ Begun'
  BY <1>1, <1>2, <1>4 DEF AInv, Once, Somewhere, Begun
<1>7. QED
  BY <1>5, <1>6 DEF AInv

LEMMA QuietOnce ==
  ASSUME IInv, AInv, Quiet \/ UNCHANGED vars \/ \E l \in Level : LogCall(l) PROVE AInv'
<1>1. UNCHANGED <<waiters, queue, taken, lost>>
  BY DEF Quiet, MainSpawn, StartBarrier, LogShutdown, ShutBarrier, LogEnd, SendShutdown, vars,
     LogCall
<1>2. Waiting' = Waiting /\ Queued' = Queued /\ Taken' = Taken
  BY <1>1, SameContents
<1>3. Singly' /\ Once'
  BY <1>1, <1>2 DEF AInv, Singly, Once
<1>4. Begun'
  <2>1. \/ logpc' = logpc
        \/ logpc \in {"none", "start", "run", "shut"} /\ logpc' \in {"spawned", "run", "shut", "drain"}
           /\ (logpc' = "spawned" => logpc = "none")
        \/ logpc' = "end" /\ queue = <<>>
    <3>1. CASE MainSpawn
      BY <3>1 DEF MainSpawn, IInv, Order
    <3>2. QED
      BY <3>1 DEF Quiet, StartBarrier, LogShutdown, ShutBarrier, LogEnd, SendShutdown, vars, LogCall
  <2>2. QED
    BY <1>1, <1>2, <2>1 DEF AInv, Begun
<1>5. Somewhere'
  <2>1. CASE Quiet \/ UNCHANGED vars
    <3>1. UNCHANGED <<calls, spawned>>
      BY <2>1 DEF Quiet, MainSpawn, StartBarrier, LogShutdown, ShutBarrier, LogEnd,
         SendShutdown, vars
    <3>2. QED
      BY <1>1, <1>2, <3>1 DEF AInv, Somewhere
  <2>2. ASSUME NEW l \in Level, LogCall(l) PROVE Somewhere'
    <3>1. calls \in Nat /\ calls' = calls + 1 /\ spawned' = spawned \cup {Message(calls + 1, l)}
      BY <2>2, CapAssumption DEF LogCall, IInv, TypeOK
    <3>2. Message(calls + 1, l).n = calls + 1
      BY DEF Message
    <3>3. \A k \in 1 .. calls + 1 : k \in 1 .. calls \/ k = calls + 1
      BY <3>1
    <3>4. QED
      BY <1>1, <1>2, <3>1, <3>2, <3>3 DEF AInv, Somewhere
  <2>3. QED
    BY <2>1, <2>2
<1>6. QED
  BY <1>3, <1>4, <1>5 DEF AInv

LEMMA NextOnce == IInv /\ AInv /\ [Next]_vars => AInv'
<1> SUFFICES ASSUME IInv, AInv, [Next]_vars PROVE AInv'
  OBVIOUS
<1>1. CASE Main \/ Hup
  BY <1>1, AskLockOnce, SetOnce, QuietOnce DEF Main, Hup, Quiet
<1>2. CASE Calls
  BY <1>2, CallAskOnce, CallSendOnce DEF Calls
<1>3. CASE LogTask \/ LogTake
  BY <1>3, AskLockOnce, LogStartOnce, LogTakeOnce, QuietOnce DEF LogTask, Quiet
<1>4. CASE ShutBarrier \/ SendShutdown \/ UNCHANGED vars \/ \E l \in Level : LogCall(l)
  BY <1>4, QuietOnce DEF Quiet
<1>5. QED
  BY <1>1, <1>2, <1>3, <1>4 DEF Next

LEMMA InitOnce == Init => AInv
<1> SUFFICES ASSUME Init PROVE AInv
  OBVIOUS
<1>1. DOMAIN waiters = {} /\ DOMAIN queue = {} /\ DOMAIN taken = {}
  BY DEF Init
<1>2. Waiting = {} /\ Queued = {} /\ Taken = {} /\ lost = {} /\ calls = 0
  BY <1>1 DEF Waiting, Queued, Taken, Init
<1>3. Singly /\ Once /\ Somewhere /\ Begun
  BY <1>1, <1>2 DEF Singly, Once, Somewhere, Begun, Init
<1>4. QED
  BY <1>3 DEF AInv

(* A sequence without repetitions is as long as its set is large.           *)
LEMMA AsManyAsPlaces ==
  ASSUME NEW S, NEW s \in Seq(S), \A i, j \in DOMAIN s : s[i] = s[j] => i = j
  PROVE  /\ IsFiniteSet({s[i] : i \in DOMAIN s})
         /\ Cardinality({s[i] : i \in DOMAIN s}) = Len(s)
<1> DEFINE T == {s[i] : i \in DOMAIN s}
<1>1. Len(s) \in Nat /\ DOMAIN s = 1 .. Len(s)
  OBVIOUS
<1>2. [i \in 1 .. Len(s) |-> s[i]] \in Bijection(1 .. Len(s), T)
  BY <1>1 DEF Bijection, Injection, IsInjective, Surjection
<1>3. IsFiniteSet(1 .. Len(s)) /\ Cardinality(1 .. Len(s)) = Len(s)
  BY <1>1, FS_Interval
<1>4. ExistsBijection(1 .. Len(s), T)
  BY <1>2 DEF ExistsBijection
<1> HIDE DEF T
<1>5. IsFiniteSet(T) /\ Cardinality(T) = Cardinality(1 .. Len(s))
  BY <1>3, <1>4, FS_Bijection
<1>6. QED
  BY <1>3, <1>5 DEF T

(* The message of every log call is in exactly one place, at one position:  *)
(* with its task, waiting for the lock, queued, received, or lost to a      *)
(* panic, for any number of calls, any capacity of the queue and a shutdown *)
(* at any moment.                                                           *)
THEOREM NothingUnaccounted == Spec => []Accounted
<1>1. Init => IInv /\ AInv
  BY InitInv, InitOnce
<1>2. IInv /\ AInv /\ [Next]_vars => (IInv /\ AInv)'
  BY NextInv, NextOnce
<1>3. ASSUME IInv, AInv PROVE Accounted
  <2>1. \A k \in 1 .. calls : \E p \in 1 .. 5 : \E m \in Places[p] : m.n = k
    <3>1. Places = <<spawned, Waiting, Queued, Taken, lost>>
      BY DEF Places
    <3>2. /\ Places[1] = spawned /\ Places[2] = Waiting /\ Places[3] = Queued
          /\ Places[4] = Taken /\ Places[5] = lost
      BY <3>1
    <3>3. {1, 2, 3, 4, 5} \subseteq 1 .. 5
      OBVIOUS
    <3>4. QED
      BY <1>3, <3>2, <3>3 DEF AInv, Somewhere
  <2>2. \A p, q \in 1 .. 5 : p # q => Places[p] \cap Places[q] \subseteq {Nobody}
    <3>1. spawned \cap (Waiting \cup Queued \cup Taken \cup lost) = {}
      BY <1>3 DEF IInv, Apart, Elsewhere
    <3>2. /\ Places[1] = spawned /\ Places[2] = Waiting /\ Places[3] = Queued
          /\ Places[4] = Taken /\ Places[5] = lost
      BY DEF Places
    <3>3. \A p \in 1 .. 5 : p = 1 \/ p = 2 \/ p = 3 \/ p = 4 \/ p = 5
      OBVIOUS
    <3>4. QED
      BY <1>3, <3>1, <3>2, <3>3 DEF AInv, Once
  <2>3. Len(taken \o queue) = Cardinality(Queued \cup Taken)
    <3>1. queue \in Seq(Msg) /\ taken \in Seq(Msg)
      BY <1>3 DEF IInv, TypeOK
    <3>2. /\ IsFiniteSet(Queued) /\ Cardinality(Queued) = Len(queue)
          /\ IsFiniteSet(Taken) /\ Cardinality(Taken) = Len(taken)
      BY <1>3, <3>1, AsManyAsPlaces DEF Queued, Taken, AInv, Singly
    <3>3. Cardinality(Queued \cap Taken) = 0
      <4>1. Queued \cap Taken = {}
        BY <1>3 DEF AInv, Once
      <4>2. QED
        BY <4>1, FS_EmptySet
    <3>4. Cardinality(Queued \cup Taken) =
            Cardinality(Queued) + Cardinality(Taken) - Cardinality(Queued \cap Taken)
      BY <3>2, FS_Union
    <3>5. Len(queue) \in Nat /\ Len(taken) \in Nat
      BY <3>1
    <3>6. Cardinality(Queued \cup Taken) = Len(queue) + Len(taken)
      BY <3>2, <3>3, <3>4, <3>5
    <3>7. Len(taken \o queue) = Len(taken) + Len(queue)
      BY <3>1
    <3>8. QED
      BY <3>5, <3>6, <3>7
  <2>4. logpc = "end" => queue = <<>>
    BY <1>3 DEF AInv, Begun
  <2>5. QED
    BY <2>1, <2>2, <2>3, <2>4 DEF Accounted
<1>4. QED
  BY <1>1, <1>2, <1>3, PTL DEF Spec
=============================================================================
