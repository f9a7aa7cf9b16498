----------------------------- MODULE DnsProofs ------------------------------
(***************************************************************************)
(* Proofs about DnsLookup: a caller's question and its answer are not lost *)
(* on the way, and the module implements the abstract Resolver.            *)
(***************************************************************************)
EXTENDS DnsLookup, TLAPS

(* addr is set exactly while a call is under way.                           *)
CallAddr == addr \in Addr <=> asker # "idle"

(* Numbers of earlier calls are smaller, and what has the number of the     *)
(* call under way is about its address.                                     *)
Numbered(x) == x.n <= n /\ (asker # "idle" /\ x.n = n => x.addr = addr)
Numbers ==
  /\ \A i \in DOMAIN requests : Numbered(requests[i])
  /\ \A r \in lookups : Numbered(r)
  /\ \A i \in DOMAIN answers : Numbered(answers[i])

(* An answer has the names of the address it is about, or none.             *)
AnswersMatch ==
  \A i \in DOMAIN answers : answers[i].names \in {answers[i].addr, NoNames}

IInv == /\ TypeOK /\ CallAddr /\ Numbers /\ AnswersMatch
        /\ AnswerStillAhead /\ RequestKept

Ans == [addr : Addr, n : Nat, names : Addr \cup {NoNames}]

LEMMA InitInv == Init => IInv
  BY AddrAssumption, CapAssumption DEF Init, IInv, TypeOK, CallAddr, Numbers, AnswersMatch,
     AnswerStillAhead, RequestKept

LEMMA AskStep == ASSUME IInv, NEW a \in Addr, Ask(a) PROVE IInv'
<1>1. /\ UNCHANGED <<dns, srv, result, requests, lookups, answers>>
      /\ asker = "idle" /\ asker' = "send" /\ addr' = a
      /\ n \in Nat /\ n' = n + 1 /\ n' \in 0 .. MaxLookups /\ pos' = Len(answers)
  BY CapAssumption DEF Ask, IInv, TypeOK
<1>2. /\ requests \in Seq(Req) /\ lookups \in SUBSET Req /\ answers \in Seq(Ans)
  BY DEF IInv, TypeOK, Ans
<1>3. TypeOK'
  BY <1>1, <1>2 DEF IInv, TypeOK, Ans
<1>4. CallAddr'
  BY <1>1 DEF CallAddr
<1>4a. \A i \in DOMAIN answers : answers[i].n \in Nat
  <2>1. \A i \in DOMAIN answers : answers[i] \in Ans
    BY <1>2
  <2>2. QED
    BY <2>1 DEF Ans
<1>5. Numbers'
  <2>1. \A x : x.n \in Nat /\ Numbered(x) => Numbered(x)' /\ x.n # n'
    BY <1>1 DEF Numbered
  <2>2. \A i \in DOMAIN requests : requests[i].n \in Nat
    <3>1. \A i \in DOMAIN requests : requests[i] \in Req
      BY <1>2
    <3>2. QED
      BY <3>1 DEF Req
  <2>3. \A r \in lookups : r.n \in Nat
    BY <1>2 DEF Req
  <2>4. QED
    BY <1>1, <1>4a, <2>1, <2>2, <2>3 DEF IInv, Numbers
<1>6. AnswersMatch'
  BY <1>1 DEF IInv, AnswersMatch
<1>7. AnswerStillAhead'
  <2>1. \A i \in DOMAIN answers : answers[i].n \in Nat /\ answers[i].n <= n
    BY <1>4a DEF IInv, Numbers, Numbered
  <2>2. DOMAIN answers = 1 .. Len(answers)
    BY <1>2
  <2>3. QED
    BY <1>1, <2>1, <2>2 DEF AnswerStillAhead
<1>8. RequestKept'
  BY <1>1 DEF RequestKept
<1>9. QED
  BY <1>3, <1>4, <1>5, <1>6, <1>7, <1>8 DEF IInv

LEMMA SendStep == ASSUME IInv, SendRequest PROVE IInv'
<1> DEFINE q == Request(addr, n)
<1>1. /\ UNCHANGED <<dns, srv, addr, n, result, lookups, answers, pos>>
      /\ asker = "send" /\ asker' = "wait" /\ requests' = Append(requests, q)
  BY DEF SendRequest
<1>2. addr \in Addr /\ n \in Nat /\ requests \in Seq(Req)
  BY <1>1 DEF IInv, TypeOK, CallAddr
<1>3. q \in Req /\ q.addr = addr /\ q.n = n
  BY <1>2 DEF Request, Req
<1>4. /\ requests' \in Seq(Req) /\ Len(requests') <= ReqCap
      /\ Len(requests') \in DOMAIN requests' /\ requests'[Len(requests')] = q
      /\ \A i \in DOMAIN requests' : requests'[i] = q \/ (i \in DOMAIN requests
                                                       /\ requests'[i] = requests[i])
  BY <1>1, <1>2, <1>3, CapAssumption DEF SendRequest
<1>5. TypeOK'
  BY <1>1, <1>4 DEF IInv, TypeOK
<1>6. CallAddr'
  BY <1>1 DEF IInv, CallAddr
<1>7. Numbers'
  <2>1. \A x : Numbered(x) => Numbered(x)'
    BY <1>1 DEF Numbered
  <2>2. Numbered(q)'
    BY <1>1, <1>2, <1>3 DEF Numbered
  <2>3. QED
    BY <1>1, <1>4, <2>1, <2>2 DEF IInv, Numbers
<1>8. AnswersMatch' /\ AnswerStillAhead'
  BY <1>1 DEF IInv, AnswersMatch, AnswerStillAhead
<1>9. RequestKept'
  BY <1>1, <1>3, <1>4 DEF RequestKept
<1>10. QED
  BY <1>5, <1>6, <1>7, <1>8, <1>9 DEF IInv

(* A call that returns, with what a matching answer or a time-out gives it. *)
LEMMA ReturnStep ==
  ASSUME IInv, NEW names \in Addr \cup {NoNames}, Return(names),
         UNCHANGED <<dns, srv, n, requests, lookups, answers, pos>>
  PROVE  IInv'
<1>1. asker' = "idle" /\ addr' = NoAddr /\ result' = names
  BY DEF Return
<1>2. TypeOK'
  BY <1>1 DEF IInv, TypeOK
<1>3. CallAddr'
  BY <1>1, AddrAssumption DEF CallAddr
<1>4. Numbers'
  <2>1. \A x : Numbered(x) => Numbered(x)'
    BY <1>1 DEF Numbered
  <2>2. QED
    BY <2>1 DEF IInv, Numbers
<1>5. AnswersMatch' /\ AnswerStillAhead' /\ RequestKept'
  BY <1>1 DEF IInv, AnswersMatch, AnswerStillAhead, RequestKept
<1>6. QED
  BY <1>2, <1>3, <1>4, <1>5 DEF IInv

(* What the three outcomes of a receive are.                                *)
LEMMA ReceiveCases ==
  ASSUME IInv, Receive
  PROVE  /\ asker = "wait" /\ addr \in Addr
         /\ UNCHANGED <<dns, srv, n, requests, lookups, answers>>
         /\ pos + 1 \in DOMAIN answers
         /\ \/ \E names \in {addr, NoNames} : Return(names) /\ UNCHANGED pos
            \/ /\ answers[pos + 1].addr # addr
               /\ pos' = pos + 1 /\ UNCHANGED <<asker, addr, result>>
<1>1. asker = "wait" /\ Unread /\ UNCHANGED <<dns, srv, n, requests, lookups, answers>>
  BY DEF Receive
<1>2. addr \in Addr
  BY <1>1 DEF IInv, CallAddr
<1>3. pos + 1 \in DOMAIN answers
  BY <1>1 DEF IInv, TypeOK, Unread
<1>4. answers[pos + 1].addr = addr => answers[pos + 1].names \in {addr, NoNames}
  BY <1>3 DEF IInv, AnswersMatch
<1>5. QED
  BY <1>1, <1>2, <1>3, <1>4 DEF Receive

LEMMA ReceiveStep == ASSUME IInv, Receive PROVE IInv'
<1>1. CASE \E names \in {addr, NoNames} : Return(names) /\ UNCHANGED pos
  BY <1>1, ReceiveCases, ReturnStep
<1>2. CASE /\ answers[pos + 1].addr # addr
           /\ pos' = pos + 1 /\ UNCHANGED <<asker, addr, result>>
  <2>1. /\ asker = "wait" /\ pos + 1 \in DOMAIN answers
        /\ UNCHANGED <<dns, srv, n, requests, lookups, answers>>
    BY ReceiveCases
  <2>2. answers \in Seq(Ans) /\ pos \in 0 .. Len(answers)
    BY DEF IInv, TypeOK, Ans
  <2>3. pos' \in 0 .. Len(answers)
    BY <1>2, <2>1, <2>2
  <2>4. TypeOK'
    BY <1>2, <2>1, <2>3 DEF IInv, TypeOK
  <2>5. CallAddr' /\ AnswersMatch'
    BY <1>2, <2>1 DEF IInv, CallAddr, AnswersMatch
  <2>6. Numbers'
    BY <1>2, <2>1 DEF IInv, Numbers, Numbered
  <2>7. AnswerStillAhead'
    <3>1. answers[pos + 1].n # n
      BY <1>2, <2>1 DEF IInv, Numbers, Numbered
    <3>2. QED
      BY <1>2, <2>1, <2>2, <3>1 DEF IInv, AnswerStillAhead
  <2>8. RequestKept'
    <3>1. \A i \in pos + 1 .. Len(answers) :
             answers[i].addr = addr => i \in pos' + 1 .. Len(answers)
      BY <1>2, <2>2
    <3>2. QED
      BY <1>2, <2>1, <3>1 DEF IInv, RequestKept
  <2>9. QED
    BY <2>4, <2>5, <2>6, <2>7, <2>8 DEF IInv
<1>3. QED
  BY <1>1, <1>2, ReceiveCases

LEMMA TakeStep == ASSUME IInv, DnsTake PROVE IInv'
<1>1. /\ UNCHANGED <<dns, srv, asker, addr, n, result, answers, pos>>
      /\ requests # <<>> /\ requests' = Tail(requests)
      /\ lookups' = lookups \cup {Head(requests)}
  BY DEF DnsTake
<1>2. requests \in Seq(Req)
  BY DEF IInv, TypeOK
<1>3. /\ requests' \in Seq(Req) /\ Head(requests) = requests[1] /\ 1 \in DOMAIN requests
      /\ requests[1] \in Req
      /\ \A i \in DOMAIN requests' : i + 1 \in DOMAIN requests
                                     /\ requests'[i] = requests[i + 1]
      /\ \A i \in DOMAIN requests : i = 1 \/ (i - 1 \in DOMAIN requests'
                                              /\ requests'[i - 1] = requests[i])
  BY <1>1, <1>2
<1>4. TypeOK'
  <2>1. Len(requests) \in Nat /\ Len(requests') = Len(requests) - 1
    BY <1>1, <1>2
  <2>2. Len(requests') <= ReqCap
    BY <2>1, CapAssumption DEF IInv, TypeOK
  <2>3. QED
    BY <1>1, <1>3, <2>2 DEF IInv, TypeOK
<1>5. CallAddr' /\ AnswersMatch' /\ AnswerStillAhead'
  BY <1>1 DEF IInv, CallAddr, AnswersMatch, AnswerStillAhead
<1>6. Numbers'
  <2>1. \A x : Numbered(x) => Numbered(x)'
    BY <1>1 DEF Numbered
  <2>2. QED
    BY <1>1, <1>3, <2>1 DEF IInv, Numbers
<1>7. RequestKept'
  BY <1>1, <1>3 DEF IInv, RequestKept
<1>8. QED
  BY <1>4, <1>5, <1>6, <1>7 DEF IInv

LEMMA LookupStep == ASSUME IInv, NEW r \in lookups, LookupDone(r) PROVE IInv'
<1>1. PICK names \in {r.addr, NoNames} : answers' = Append(answers, Answer(r, names))
  BY DEF LookupDone
<1> DEFINE e == Answer(r, names)
<1>2. /\ UNCHANGED <<dns, srv, asker, addr, n, result, requests, pos>>
      /\ lookups' = lookups \ {r}
  BY DEF LookupDone
<1>3. r \in Req /\ answers \in Seq(Ans) /\ pos \in 0 .. Len(answers)
  BY DEF IInv, TypeOK, Ans
<1>4. e \in Ans /\ e.addr = r.addr /\ e.n = r.n /\ e.names = names
  BY <1>3 DEF Answer, Req, Ans
<1>5. /\ answers' \in Seq(Ans) /\ Len(answers') = Len(answers) + 1
      /\ answers'[Len(answers) + 1] = e
      /\ \A i \in 1 .. Len(answers) : answers'[i] = answers[i]
      /\ DOMAIN answers = 1 .. Len(answers) /\ DOMAIN answers' = 1 .. Len(answers) + 1
      /\ Len(answers) \in Nat
  BY <1>1, <1>3, <1>4
<1>6. TypeOK'
  <2>1. pos' \in 0 .. Len(answers')
    BY <1>2, <1>3, <1>5
  <2>2. QED
    BY <1>2, <1>5, <2>1 DEF IInv, TypeOK, Ans
<1>7. CallAddr'
  BY <1>2 DEF IInv, CallAddr
<1>8. Numbers'
  <2>1. \A x : Numbered(x) => Numbered(x)'
    BY <1>2 DEF Numbered
  <2>2. Numbered(e)
    BY <1>4 DEF IInv, Numbers, Numbered
  <2>3. QED
    BY <1>2, <1>5, <2>1, <2>2 DEF IInv, Numbers
<1>9. AnswersMatch'
  BY <1>1, <1>4, <1>5 DEF IInv, AnswersMatch
<1>10. AnswerStillAhead'
  BY <1>2, <1>3, <1>5 DEF IInv, AnswerStillAhead
<1>11. RequestKept'
  <2>1. r.addr = addr => \E i \in pos' + 1 .. Len(answers') : answers'[i].addr = addr
    <3>1. Len(answers) + 1 \in pos' + 1 .. Len(answers')
      BY <1>2, <1>3, <1>5
    <3>2. QED
      BY <1>4, <1>5, <3>1
  <2>2. \A i \in pos + 1 .. Len(answers) :
           i \in pos' + 1 .. Len(answers') /\ answers'[i] = answers[i]
    BY <1>2, <1>3, <1>5
  <2>3. QED
    BY <1>2, <2>1, <2>2 DEF IInv, RequestKept
<1>12. QED
  BY <1>6, <1>7, <1>8, <1>9, <1>10, <1>11 DEF IInv

LEMMA NextInv == IInv /\ [Next]_vars => IInv'
<1> SUFFICES ASSUME IInv, [Next]_vars PROVE IInv'
  OBVIOUS
<1>1. CASE Timeout
  BY <1>1, ReturnStep DEF Timeout
<1>2. CASE DnsShutdown \/ SrvShutdown \/ UNCHANGED vars
  <2>1. UNCHANGED <<asker, addr, n, result, requests, lookups, answers, pos>>
    BY <1>2 DEF DnsShutdown, SrvShutdown, vars
  <2>2. TypeOK'
    BY <1>2, <2>1 DEF IInv, TypeOK, DnsShutdown, SrvShutdown, vars
  <2>3. QED
    BY <2>1, <2>2 DEF IInv, CallAddr, Numbers, Numbered, AnswersMatch, AnswerStillAhead,
       RequestKept
<1>3. QED
  BY <1>1, <1>2, AskStep, SendStep, ReceiveStep, TakeStep, LookupStep DEF Next

(* Every reachable state satisfies the inductive invariant.                 *)
THEOREM InductiveInvariant == Spec => []IInv
<1>1. QED
  BY InitInv, NextInv, PTL DEF Spec

(* Every variable keeps its type.                                           *)
THEOREM TypeCorrect == Spec => []TypeOK
<1>1. IInv => TypeOK
  BY DEF IInv
<1>2. QED
  BY <1>1, InductiveInvariant, PTL

(* A call of resolve_ip never passes its own answer by.                     *)
THEOREM AnswerReachable == Spec => []AnswerStillAhead
<1>1. IInv => AnswerStillAhead
  BY DEF IInv
<1>2. QED
  BY <1>1, InductiveInvariant, PTL

(* The question of a waiting call is never lost: it is queued, looked up or *)
(* answered, whatever else is asked or given up meanwhile.                  *)
THEOREM QuestionKept == Spec => []RequestKept
<1>1. IInv => RequestKept
  BY DEF IInv
<1>2. QED
  BY <1>1, InductiveInvariant, PTL

(* resolve_ip with its queue, tasks, late answers and time-outs implements  *)
(* the abstract Resolver, for any addresses and capacities.                 *)
THEOREM ImplementsResolver == Spec => ResolverSpec
<1>1. Init => R!Init
  BY DEF Init, R!Init
<1>2. ASSUME IInv, [Next]_vars PROVE [R!Next]_<<addr, result>>
  <2>1. ASSUME NEW a \in Addr, Ask(a) PROVE R!Ask(a)
    <3>1. asker = "idle" /\ addr' = a /\ UNCHANGED result
      BY <2>1 DEF Ask
    <3>2. addr \in Addr \cup {NoAddr} /\ addr \notin Addr
      BY <1>2, <3>1 DEF IInv, TypeOK, CallAddr
    <3>3. QED
      BY <3>1, <3>2 DEF R!Ask
  <2>2. ASSUME NEW names \in {addr, NoNames}, addr \in Addr, Return(names) PROVE R!Answer
    BY <2>2, AddrAssumption DEF Return, R!Answer
  <2>3. CASE Receive
    <3>1. addr \in Addr
      BY <1>2, <2>3, ReceiveCases
    <3>2. ASSUME NEW names \in {addr, NoNames}, Return(names) PROVE R!Next
      BY <2>2, <3>1, <3>2 DEF R!Next
    <3>3. QED
      BY <1>2, <2>3, <3>2, ReceiveCases
  <2>4. CASE Timeout
    <3>1. addr \in Addr /\ Return(NoNames)
      BY <1>2, <2>4 DEF Timeout, IInv, CallAddr
    <3>2. QED
      BY <2>2, <3>1 DEF R!Next
  <2>5. CASE \/ SendRequest \/ DnsTake \/ \E r \in lookups : LookupDone(r)
             \/ DnsShutdown \/ SrvShutdown \/ UNCHANGED vars
    BY <2>5 DEF SendRequest, DnsTake, LookupDone, DnsShutdown, SrvShutdown, vars
  <2>6. QED
    BY <1>2, <2>1, <2>3, <2>4, <2>5 DEF Next, R!Next
<1>3. QED
  BY <1>1, <1>2, InductiveInvariant, PTL DEF Spec, ResolverSpec, R!Spec
=============================================================================
