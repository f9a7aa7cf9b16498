----------------------------- MODULE DnsLookup ------------------------------
(***************************************************************************)
(* src/dnslookup.rs: the DNS task, the reverse lookups it spawns and the   *)
(* caller of resolve_ip.  The only caller is the server task, which waits  *)
(* for the answer inside its accept branch (Connection::start_processing), *)
(* so at most one call is under way; lookups it gave up on may still be.    *)
(* Calls begin after the start-up barrier, when DNS_CHANNELS is set.        *)
(***************************************************************************)
EXTENDS Integers, Sequences

CONSTANTS
  Addr,         \* IP addresses asked about
  NoAddr, NoNames,
  MaxLookups,   \* calls of resolve_ip (bound)
  ReqCap,       \* capacity of the request queue     (256 in the code)
  RespCap       \* capacity of the answer broadcast  (256)

ASSUME AddrAssumption ==
  NoAddr \notin Addr /\ NoNames \notin Addr
ASSUME CapAssumption ==
  MaxLookups \in Nat /\ ReqCap \in Nat \ {0} /\ RespCap \in Nat \ {0}

VARIABLES
  dns,          \* the DNS task: "run", or "bye" after its loop
  srv,          \* the server task: "run", or "bye" when it accepts no more
  asker,        \* where the call is: "idle", "send", "wait"
  addr, n,      \* what it asks about; how many calls there have been
  result,       \* what the last call returned; an address stands for its names
  requests,     \* request queue
  lookups,      \* reverse lookups under way
  answers,      \* every answer broadcast so far
  pos           \* how many of them the caller's receiver has passed

vars == <<dns, srv, asker, addr, n, result, requests, lookups, answers, pos>>

(* A definition named X_mutation is X with a bug one could write; the       *)
(* properties must notice it (README, "Mutants").                           *)

(* "n" tells the properties which call a request belongs to; no action of   *)
(* the code reads it.                                                       *)
Request(a, k)   == [addr |-> a, n |-> k]
Answer(r, names) == [addr |-> r.addr, n |-> r.n, names |-> names]

Init ==
  /\ dns = "run" /\ srv = "run"
  /\ asker = "idle" /\ addr = NoAddr /\ n = 0 /\ result = NoNames
  /\ requests = <<>> /\ lookups = {} /\ answers = <<>> /\ pos = 0

-----------------------------------------------------------------------------
(* resolve_ip.                                                              *)

Ask_oneTooFar(a) ==
  /\ srv = "run" /\ asker = "idle" /\ n < MaxLookups
  /\ asker' = "send" /\ addr' = a /\ n' = n + 1
  /\ pos' = Len(answers) + 1
  /\ UNCHANGED <<dns, srv, result, requests, lookups, answers>>

Ask(a) ==               \* subscribe before the request is sent
  /\ srv = "run" /\ asker = "idle" /\ n < MaxLookups
  /\ asker' = "send" /\ addr' = a /\ n' = n + 1
  /\ pos' = Len(answers)
  /\ UNCHANGED <<dns, srv, result, requests, lookups, answers>>

SendRequest ==          \* waits for room in the queue, without a time-out
  /\ asker = "send" /\ Len(requests) < ReqCap
  /\ requests' = Append(requests, Request(addr, n))
  /\ asker' = "wait"
  /\ UNCHANGED <<dns, srv, addr, n, result, lookups, answers, pos>>

Return(names) ==
  /\ asker' = "idle" /\ addr' = NoAddr
  /\ result' = names

Unread == pos < Len(answers)
Lagged == Len(answers) - pos > RespCap

Receive_unmatched ==
  /\ asker = "wait" /\ Unread
  /\ IF Lagged THEN Return(NoNames) ELSE Return(answers[pos + 1].names)
  /\ UNCHANGED <<dns, srv, n, requests, lookups, answers, pos>>

Receive_resubscribes ==
  /\ asker = "wait" /\ Unread
  /\ IF Lagged
     THEN Return(NoNames) /\ UNCHANGED pos
     ELSE IF answers[pos + 1].addr = addr
          THEN Return(answers[pos + 1].names) /\ UNCHANGED pos
          ELSE pos' = Len(answers) /\ UNCHANGED <<asker, addr, result>>
  /\ UNCHANGED <<dns, srv, n, requests, lookups, answers>>

Receive ==              \* response_inner
  /\ asker = "wait" /\ Unread
  /\ \/ /\ Lagged                                   \* recv() is an error
        /\ Return(NoNames) /\ UNCHANGED pos
     \/ /\ ~Lagged /\ answers[pos + 1].addr = addr
        /\ Return(answers[pos + 1].names) /\ UNCHANGED pos
     \/ /\ ~Lagged /\ answers[pos + 1].addr # addr
        /\ pos' = pos + 1 /\ UNCHANGED <<asker, addr, result>>
  /\ UNCHANGED <<dns, srv, n, requests, lookups, answers>>

Timeout_never == FALSE /\ UNCHANGED vars

(* timeout() looks at the clock only when the receiver has nothing.         *)
Timeout ==
  /\ asker = "wait" /\ ~Unread
  /\ Return(NoNames)
  /\ UNCHANGED <<dns, srv, n, requests, lookups, answers, pos>>

-----------------------------------------------------------------------------
(* The DNS task and the lookups it spawns.                                  *)

DnsTake_drops ==
  /\ dns = "run" /\ requests # <<>>
  /\ lookups' = IF lookups = {} THEN {Head(requests)} ELSE lookups
  /\ requests' = Tail(requests)
  /\ UNCHANGED <<dns, srv, asker, addr, n, result, answers, pos>>

DnsTake ==
  /\ dns = "run" /\ requests # <<>>
  /\ lookups' = lookups \cup {Head(requests)}
  /\ requests' = Tail(requests)
  /\ UNCHANGED <<dns, srv, asker, addr, n, result, answers, pos>>

(* reverse_lookup: names, or none on an error or an empty result.           *)
LookupDone(r) ==
  /\ r \in lookups
  /\ \E names \in {r.addr, NoNames} : answers' = Append(answers, Answer(r, names))
  /\ lookups' = lookups \ {r}
  /\ UNCHANGED <<dns, srv, asker, addr, n, result, requests, pos>>

(* Shutdown, taken by either task at its own time; the queue stays open.    *)
DnsShutdown ==
  /\ dns = "run" /\ dns' = "bye"
  /\ UNCHANGED <<srv, asker, addr, n, result, requests, lookups, answers, pos>>

SrvShutdown ==
  /\ srv = "run" /\ asker = "idle" /\ srv' = "bye"
  /\ UNCHANGED <<dns, asker, addr, n, result, requests, lookups, answers, pos>>

-----------------------------------------------------------------------------
Call == SendRequest \/ Receive \/ Timeout

Next ==
  \/ \E a \in Addr : Ask(a)
  \/ SendRequest \/ Receive \/ Timeout
  \/ DnsTake \/ \E r \in lookups : LookupDone(r)
  \/ DnsShutdown \/ SrvShutdown

Spec == Init /\ [][Next]_vars

(* Tasks that can run are run, and the clock reaches the time-out; lookups  *)
(* may take for ever.                                                       *)
FairSpec == Spec /\ WF_vars(Call) /\ WF_vars(DnsTake)

-----------------------------------------------------------------------------
(* Properties.                                                              *)

Req == [addr : Addr, n : Nat]

(* Every variable has its type, the request queue its bound, and the        *)
(* caller's receiver is never beyond what has been broadcast.               *)
TypeOK ==
  /\ dns \in {"run", "bye"} /\ srv \in {"run", "bye"}
  /\ asker \in {"idle", "send", "wait"}
  /\ addr \in Addr \cup {NoAddr} /\ n \in 0 .. MaxLookups
  /\ result \in Addr \cup {NoNames}
  /\ requests \in Seq(Req) /\ Len(requests) <= ReqCap
  /\ lookups \in SUBSET Req
  /\ answers \in Seq([addr : Addr, n : Nat, names : Addr \cup {NoNames}])
  /\ pos \in 0 .. Len(answers)

(* A call never passes its own answer by: while it waits, the answer to its *)
(* request is still under way or still ahead of its receiver, behind late   *)
(* answers to calls that timed out.  Together with the order in which       *)
(* timeout() looks, a call that times out has not been answered.            *)
AnswerStillAhead ==
  asker # "idle" => \A i \in 1 .. pos : answers[i].n # n

(* Nor is it lost: until the caller has an answer, its question is in the   *)
(* queue, being looked up, or answered and still ahead of its receiver,     *)
(* whatever else is asked, looked up or given up meanwhile.                 *)
RequestKept ==
  asker = "wait" =>
    \/ \E i \in DOMAIN requests : requests[i].addr = addr
    \/ \E r \in lookups : r.addr = addr
    \/ \E i \in pos + 1 .. Len(answers) : answers[i].addr = addr

(* Every call ends, although the lookup may take for ever and the DNS task  *)
(* may be told to stop first; only a request queue that is full when the    *)
(* DNS task stops holds a call up, because the send has no time-out.        *)
CallEnds ==
  asker # "idle" ~> asker = "idle" \/ (dns = "bye" /\ Len(requests) = ReqCap)

(* The caller sees an abstract resolver: the names of the address it asked  *)
(* about, or none, although late answers to other calls reach it too.       *)
R == INSTANCE Resolver WITH asking <- addr
ResolverSpec == R!Spec
=============================================================================
