-------------------------- MODULE LineInputProofs ---------------------------
(***************************************************************************)
(* Proofs about LineInput, for inputs of any length in any chunks: what the *)
(* user channel gets, and that it does not depend on the chunks.  First     *)
(* what loops compute and what parts of sequences are, then one part for    *)
(* each of telnet, handle_telnet_commands, read_line, the delivering loop   *)
(* and the lines as typed, and the invariant, at the end.                   *)
(***************************************************************************)
EXTENDS LineInput, Induction

-----------------------------------------------------------------------------
(* Loops: f[k] is what k rounds make of x, of which the i-th is step[i].    *)
IsRun(f, step, x, n) ==
  /\ DOMAIN f = 0 .. n /\ f[0] = x
  /\ \A k \in 1 .. n : f[k] = step[k][f[k - 1]]

LEMMA RunExists ==
  ASSUME NEW step, NEW x, NEW n \in Nat PROVE \E f : IsRun(f, step, x, n)
<1>1. PICK T : T = {k \in 0 .. n : \E f : IsRun(f, step, x, k)}
  OBVIOUS
<1>2. 0 \in T
  <2>1. IsRun([k \in 0 .. 0 |-> x], step, x, 0)
    BY DEF IsRun
  <2>2. QED
    BY <1>1, <2>1
<1>3. ASSUME NEW k \in 0 .. n - 1, k \in T PROVE k + 1 \in T
  <2>1. PICK f : IsRun(f, step, x, k)
    BY <1>1, <1>3
  <2>2. PICK g : g = [i \in 0 .. k + 1 |-> IF i = k + 1 THEN step[k + 1][f[k]] ELSE f[i]]
    OBVIOUS
  <2>3. /\ \A i \in 0 .. k : i \in 0 .. k + 1 /\ i # k + 1 /\ g[i] = f[i]
        /\ k + 1 \in 0 .. k + 1 /\ g[k + 1] = step[k + 1][f[k]]
    BY <2>2
  <2>4. ASSUME NEW i \in 1 .. k + 1 PROVE g[i] = step[i][g[i - 1]]
    <3>1. i - 1 \in 0 .. k /\ (i = k + 1 \/ i \in 1 .. k)
      OBVIOUS
    <3>2. g[i - 1] = f[i - 1]
      BY <2>3, <3>1
    <3>3. CASE i = k + 1
      BY <2>3, <3>2, <3>3
    <3>4. CASE i \in 1 .. k
      <4>1. f[i] = step[i][f[i - 1]] /\ g[i] = f[i]
        BY <2>1, <2>3, <3>4 DEF IsRun
      <4>2. QED
        BY <3>2, <4>1
    <3>5. QED
      BY <3>1, <3>3, <3>4
  <2>5. g[0] = x
    BY <2>1, <2>3 DEF IsRun
  <2>6. IsRun(g, step, x, k + 1)
    BY <2>2, <2>4, <2>5 DEF IsRun
  <2>7. k + 1 \in 0 .. n
    OBVIOUS
  <2>8. QED
    BY <1>1, <2>6, <2>7
<1>4. n \in T
  BY <1>2, <1>3, Upward
<1>5. QED
  BY <1>1, <1>4

(* A run of n rounds, and one of one more with the same steps.              *)
LEMMA OneMore ==
  ASSUME NEW f, NEW g, NEW step, NEW other, NEW x, NEW n \in Nat,
         IsRun(f, step, x, n), IsRun(g, other, x, n + 1), \A k \in 1 .. n : step[k] = other[k]
  PROVE  f[n] = g[n]
<1>1. PICK T : T = {k \in 0 .. n : f[k] = g[k]}
  OBVIOUS
<1>2. 0 \in T
  BY <1>1 DEF IsRun
<1>3. ASSUME NEW k \in 0 .. n - 1, k \in T PROVE k + 1 \in T
  <2>1. k + 1 \in 1 .. n /\ k + 1 \in 1 .. n + 1 /\ k + 1 - 1 = k
    OBVIOUS
  <2>2. f[k + 1] = step[k + 1][f[k]] /\ g[k + 1] = other[k + 1][g[k]]
    BY <2>1 DEF IsRun
  <2>3. f[k] = g[k] /\ step[k + 1] = other[k + 1]
    BY <1>1, <1>3, <2>1
  <2>4. QED
    BY <1>1, <2>1, <2>2, <2>3
<1>4. n \in T
  BY <1>2, <1>3, Upward
<1>5. QED
  BY <1>1, <1>4

-----------------------------------------------------------------------------
(* Rounds.                                                                  *)
LEMMA RoundsRun ==
  ASSUME NEW step, NEW x, NEW n \in Nat
  PROVE  \E f : IsRun(f, [k \in 1 .. n |-> step], x, n) /\ Rounds(step, x, n) = f[n]
<1> DEFINE steps == [k \in 1 .. n |-> step]
<1>1. PICK g : IsRun(g, steps, x, n)
  BY RunExists
<1>2. ASSUME NEW f
      PROVE  f = [k \in 0 .. n |-> IF k = 0 THEN x ELSE step[f[k - 1]]] => IsRun(f, steps, x, n)
  <2>1. SUFFICES ASSUME f = [k \in 0 .. n |-> IF k = 0 THEN x ELSE step[f[k - 1]]]
                 PROVE  IsRun(f, steps, x, n)
    OBVIOUS
  <2>2. 0 \in 0 .. n /\ \A k \in 1 .. n : k \in 0 .. n /\ k # 0 /\ steps[k] = step
    OBVIOUS
  <2>3. \A k \in 1 .. n : f[k] = step[f[k - 1]]
    BY <2>1, <2>2
  <2>4. f[0] = x /\ DOMAIN f = 0 .. n
    BY <2>1, <2>2
  <2>5. QED
    BY <2>2, <2>3, <2>4 DEF IsRun
<1>3. PICK h : h = [k \in 0 .. n |-> g[k]]
  OBVIOUS
<1>4. h = [k \in 0 .. n |-> IF k = 0 THEN x ELSE step[h[k - 1]]]
  <2>1. ASSUME NEW k \in 0 .. n PROVE h[k] = IF k = 0 THEN x ELSE step[h[k - 1]]
    <3>1. CASE k = 0
      BY <1>1, <1>3, <3>1 DEF IsRun
    <3>2. CASE k # 0
      <4>1. k \in 1 .. n /\ k - 1 \in 0 .. n /\ steps[k] = step
        BY <3>2
      <4>2. g[k] = step[g[k - 1]]
        BY <1>1, <4>1 DEF IsRun
      <4>3. QED
        BY <1>3, <3>2, <4>1, <4>2
    <3>3. QED
      BY <3>1, <3>2
  <2>2. QED
    BY <1>3, <2>1
<1>5. PICK f : /\ f = [k \in 0 .. n |-> IF k = 0 THEN x ELSE step[f[k - 1]]]
               /\ Rounds(step, x, n) = f[n]
  BY <1>4 DEF Rounds
<1>6. QED
  BY <1>2, <1>5

LEMMA RoundsStep ==
  ASSUME NEW step, NEW x, NEW n \in Nat
  PROVE  Rounds(step, x, n + 1) = step[Rounds(step, x, n)]
<1>1. PICK f, p : /\ p = [k \in 1 .. n |-> step]
                  /\ IsRun(f, p, x, n) /\ Rounds(step, x, n) = f[n]
  BY RoundsRun
<1>2. n + 1 \in Nat
  OBVIOUS
<1>3. PICK g, q : /\ q = [k \in 1 .. n + 1 |-> step]
                  /\ IsRun(g, q, x, n + 1) /\ Rounds(step, x, n + 1) = g[n + 1]
  BY <1>2, RoundsRun
<1>4. f[n] = g[n]
  <2>1. \A k \in 1 .. n : p[k] = q[k]
    BY <1>1, <1>3
  <2>2. IsRun(f, p, x, n) /\ IsRun(g, q, x, n + 1)
    BY <1>1, <1>3
  <2>3. QED
    BY <2>1, <2>2, OneMore
<1>5. g[n + 1] = step[g[n]]
  BY <1>3 DEF IsRun
<1>6. QED
  BY <1>1, <1>3, <1>4, <1>5

LEMMA RoundsStart == ASSUME NEW step, NEW x PROVE Rounds(step, x, 0) = x
<1>1. PICK f : IsRun(f, [k \in 1 .. 0 |-> step], x, 0) /\ Rounds(step, x, 0) = f[0]
  BY RoundsRun
<1>2. QED
  BY <1>1 DEF IsRun

LEMMA RoundsType ==
  ASSUME NEW Y, NEW step \in [Y -> Y], NEW x \in Y, NEW n \in Nat
  PROVE  Rounds(step, x, n) \in Y
<1>1. PICK T : T = {k \in 0 .. n : Rounds(step, x, k) \in Y}
  OBVIOUS
<1>2. 0 \in T
  BY <1>1, RoundsStart
<1>3. ASSUME NEW k \in 0 .. n - 1, k \in T PROVE k + 1 \in T
  <2>1. k + 1 \in 0 .. n /\ k \in Nat
    OBVIOUS
  <2>2. Rounds(step, x, k) \in Y
    BY <1>1, <1>3
  <2>3. QED
    BY <1>1, <2>1, <2>2, RoundsStep
<1>4. n \in T
  BY <1>2, <1>3, Upward
<1>5. QED
  BY <1>1, <1>4


-----------------------------------------------------------------------------
(* Over.                                                                    *)
LEMMA OverRun ==
  ASSUME NEW E, NEW s \in Seq(E), NEW step, NEW x
  PROVE  \E f : IsRun(f, [k \in 1 .. Len(s) |-> step[s[k]]], x, Len(s))
                /\ Over(step, x, s) = f[Len(s)]
<1>1. PICK n \in Nat : n = Len(s)
  OBVIOUS
<1> DEFINE steps == [k \in 1 .. n |-> step[s[k]]]
<1>2. PICK g : IsRun(g, steps, x, n)
  BY RunExists
<1>3. ASSUME NEW f
      PROVE  f = [k \in 0 .. n |-> IF k = 0 THEN x ELSE step[s[k]][f[k - 1]]]
               => IsRun(f, steps, x, n)
  <2>1. SUFFICES ASSUME f = [k \in 0 .. n |-> IF k = 0 THEN x ELSE step[s[k]][f[k - 1]]]
                 PROVE  IsRun(f, steps, x, n)
    OBVIOUS
  <2>2. 0 \in 0 .. n /\ \A k \in 1 .. n : k \in 0 .. n /\ k # 0 /\ steps[k] = step[s[k]]
    OBVIOUS
  <2>3. \A k \in 1 .. n : f[k] = step[s[k]][f[k - 1]]
    BY <2>1, <2>2
  <2>4. f[0] = x /\ DOMAIN f = 0 .. n
    BY <2>1, <2>2
  <2>5. QED
    BY <2>2, <2>3, <2>4 DEF IsRun
<1>4. PICK h : h = [k \in 0 .. n |-> g[k]]
  OBVIOUS
<1>5. h = [k \in 0 .. n |-> IF k = 0 THEN x ELSE step[s[k]][h[k - 1]]]
  <2>1. ASSUME NEW k \in 0 .. n
        PROVE  h[k] = IF k = 0 THEN x ELSE step[s[k]][h[k - 1]]
    <3>1. CASE k = 0
      BY <1>2, <1>4, <3>1 DEF IsRun
    <3>2. CASE k # 0
      <4>1. k \in 1 .. n /\ k - 1 \in 0 .. n /\ steps[k] = step[s[k]]
        BY <3>2
      <4>2. g[k] = step[s[k]][g[k - 1]]
        BY <1>2, <4>1 DEF IsRun
      <4>3. QED
        BY <1>4, <3>2, <4>1, <4>2
    <3>3. QED
      BY <3>1, <3>2
  <2>2. QED
    BY <1>4, <2>1
<1>6. PICK f : /\ f = [k \in 0 .. n |-> IF k = 0 THEN x ELSE step[s[k]][f[k - 1]]]
               /\ Over(step, x, s) = f[n]
  BY <1>1, <1>5 DEF Over
<1>7. QED
  BY <1>1, <1>3, <1>6

LEMMA OverNone == ASSUME NEW step, NEW x PROVE Over(step, x, <<>>) = x
<1>1. <<>> \in Seq({}) /\ Len(<<>>) = 0
  OBVIOUS
<1>2. PICK f, steps : IsRun(f, steps, x, 0) /\ Over(step, x, <<>>) = f[0]
  BY <1>1, OverRun
<1>3. QED
  BY <1>2 DEF IsRun

LEMMA OverAppend ==
  ASSUME NEW E, NEW s \in Seq(E), NEW e \in E, NEW step, NEW x
  PROVE  Over(step, x, Append(s, e)) = step[e][Over(step, x, s)]
<1>1. PICK n \in Nat : n = Len(s)
  OBVIOUS
<1>2. PICK u : u = Append(s, e)
  OBVIOUS
<1>3. u \in Seq(E) /\ Len(u) = n + 1 /\ u[n + 1] = e /\ \A k \in 1 .. n : u[k] = s[k]
  BY <1>1, <1>2
<1>4. PICK f, p : /\ p = [k \in 1 .. n |-> step[s[k]]]
                  /\ IsRun(f, p, x, n) /\ Over(step, x, s) = f[n]
  BY <1>1, OverRun
<1>5. PICK g, q : /\ q = [k \in 1 .. n + 1 |-> step[u[k]]]
                  /\ IsRun(g, q, x, n + 1) /\ Over(step, x, u) = g[n + 1]
  BY <1>3, OverRun
<1>6. f[n] = g[n]
  <2>1. \A k \in 1 .. n : p[k] = q[k]
    BY <1>3, <1>4, <1>5
  <2>2. IsRun(f, p, x, n) /\ IsRun(g, q, x, n + 1)
    BY <1>4, <1>5
  <2>3. QED
    BY <2>1, <2>2, OneMore
<1>7. g[n + 1] = step[u[n + 1]][g[n]]
  BY <1>5 DEF IsRun
<1>8. QED
  BY <1>2, <1>3, <1>4, <1>5, <1>6, <1>7

(* The first part of a sequence, and what comes next.                       *)
LEMMA NextOf ==
  ASSUME NEW E, NEW s \in Seq(E), NEW k \in 0 .. Len(s) - 1
  PROVE  /\ SubSeq(s, 1, k) \in Seq(E) /\ s[k + 1] \in E
         /\ SubSeq(s, 1, k + 1) = Append(SubSeq(s, 1, k), s[k + 1])
<1>1. k \in Nat /\ k + 1 \in 1 .. Len(s)
  OBVIOUS
<1>2. s[k + 1] \in E /\ SubSeq(s, 1, k) \in Seq(E)
  BY <1>1
<1>3. SubSeq(s, 1, k + 1) = Append(SubSeq(s, 1, k), s[k + 1])
  BY <1>1
<1>4. QED
  BY <1>2, <1>3

LEMMA OverConcat ==
  ASSUME NEW E, NEW s \in Seq(E), NEW u \in Seq(E), NEW step, NEW x
  PROVE  Over(step, x, s \o u) = Over(step, Over(step, x, s), u)
<1>1. PICK n \in Nat : n = Len(u)
  OBVIOUS
<1> DEFINE y == Over(step, x, s)
           Same(k) == Over(step, x, s \o SubSeq(u, 1, k)) = Over(step, y, SubSeq(u, 1, k))
<1>2. PICK T : T = {k \in 0 .. n : Same(k)}
  OBVIOUS
<1>3. 0 \in T
  <2>1. SubSeq(u, 1, 0) = <<>> /\ s \o <<>> = s
    OBVIOUS
  <2>2. Over(step, y, <<>>) = y
    BY OverNone
  <2>3. Same(0)
    BY <2>1, <2>2, Zenon
  <2>4. 0 \in 0 .. n
    OBVIOUS
  <2>5. QED
    BY <1>2, <2>3, <2>4, Zenon
<1>4. ASSUME NEW k \in 0 .. n - 1, k \in T PROVE k + 1 \in T
  <2>1. PICK v \in Seq(E), e \in E : /\ v = SubSeq(u, 1, k)
                                     /\ SubSeq(u, 1, k + 1) = Append(v, e)
    BY <1>1, NextOf
  <2>2. s \o v \in Seq(E) /\ s \o Append(v, e) = Append(s \o v, e)
    OBVIOUS
  <2>3. Over(step, x, Append(s \o v, e)) = step[e][Over(step, x, s \o v)]
    BY <2>2, OverAppend
  <2>4. Over(step, y, Append(v, e)) = step[e][Over(step, y, v)]
    BY OverAppend
  <2>5. Over(step, x, s \o v) = Over(step, y, v)
    BY <1>2, <1>4, <2>1
  <2>6. Same(k + 1)
    BY <2>1, <2>2, <2>3, <2>4, <2>5, Zenon
  <2>7. k + 1 \in 0 .. n
    OBVIOUS
  <2>8. QED
    BY <1>2, <2>6, <2>7, Zenon
<1>5. n \in T
  BY <1>3, <1>4, Upward, Zenon
<1>6. SubSeq(u, 1, n) = u
  BY <1>1
<1>7. QED
  BY <1>2, <1>5, <1>6

LEMMA OverType ==
  ASSUME NEW E, NEW Y, NEW step \in [E -> [Y -> Y]], NEW x \in Y, NEW s \in Seq(E)
  PROVE  Over(step, x, s) \in Y
<1>1. PICK n \in Nat : n = Len(s)
  OBVIOUS
<1>2. PICK T : T = {k \in 0 .. n : Over(step, x, SubSeq(s, 1, k)) \in Y}
  OBVIOUS
<1>3. 0 \in T
  <2>1. SubSeq(s, 1, 0) = <<>>
    OBVIOUS
  <2>2. Over(step, x, SubSeq(s, 1, 0)) \in Y
    BY <2>1, OverNone, Zenon
  <2>3. 0 \in 0 .. n
    OBVIOUS
  <2>4. QED
    BY <1>2, <2>2, <2>3, Zenon
<1>4. ASSUME NEW k \in 0 .. n - 1, k \in T PROVE k + 1 \in T
  <2>1. PICK v \in Seq(E), e \in E : /\ v = SubSeq(s, 1, k)
                                     /\ SubSeq(s, 1, k + 1) = Append(v, e)
    BY <1>1, NextOf
  <2>2. Over(step, x, Append(v, e)) = step[e][Over(step, x, v)]
    BY OverAppend
  <2>3. Over(step, x, v) \in Y
    BY <1>2, <1>4, <2>1
  <2>4. Over(step, x, SubSeq(s, 1, k + 1)) \in Y
    BY <2>1, <2>2, <2>3
  <2>5. k + 1 \in 0 .. n
    OBVIOUS
  <2>6. QED
    BY <1>2, <2>4, <2>5, Zenon
<1>5. n \in T
  BY <1>3, <1>4, Upward, Zenon
<1>6. SubSeq(s, 1, n) = s
  BY <1>1
<1>7. QED
  BY <1>2, <1>5, <1>6

(* If h changes nothing in how the values of s are taken, it may as well be *)
(* applied in the end.                                                      *)
Neutral(h, step, E, Y) == \A e \in E, y \in Y : step[e][h[y]] = h[step[e][y]]

LEMMA OverSame ==
  ASSUME NEW E, NEW Y, NEW step \in [E -> [Y -> Y]], NEW x \in Y, NEW s \in Seq(E),
         NEW h, Neutral(h, step, E, Y)
  PROVE  Over(step, h[x], s) = h[Over(step, x, s)]
<1>1. PICK n \in Nat : n = Len(s)
  OBVIOUS
<1> DEFINE Same(v) == Over(step, h[x], v) = h[Over(step, x, v)]
<1>2. PICK T : T = {k \in 0 .. n : Same(SubSeq(s, 1, k))}
  OBVIOUS
<1>3. 0 \in T
  <2>1. SubSeq(s, 1, 0) = <<>>
    OBVIOUS
  <2>2. Same(<<>>)
    BY OverNone
  <2>3. 0 \in 0 .. n
    OBVIOUS
  <2>4. QED
    BY <1>2, <2>1, <2>2, <2>3, Zenon
<1>4. ASSUME NEW k \in 0 .. n - 1, k \in T PROVE k + 1 \in T
  <2>0. /\ SubSeq(s, 1, k) \in Seq(E) /\ s[k + 1] \in E
        /\ SubSeq(s, 1, k + 1) = Append(SubSeq(s, 1, k), s[k + 1])
    BY <1>1, NextOf
  <2>1. PICK v \in Seq(E), e \in E : /\ v = SubSeq(s, 1, k)
                                     /\ SubSeq(s, 1, k + 1) = Append(v, e)
    BY <2>0
  <2>2. PICK y \in Y : y = Over(step, x, v)
    BY OverType
  <2>3. Over(step, x, Append(v, e)) = step[e][y]
    BY <2>2, OverAppend
  <2>4. Over(step, h[x], Append(v, e)) = step[e][Over(step, h[x], v)]
    BY OverAppend
  <2>5. Over(step, h[x], v) = h[y]
    BY <1>2, <1>4, <2>1, <2>2
  <2>6. step[e][h[y]] = h[step[e][y]]
    BY DEF Neutral
  <2>7. Same(SubSeq(s, 1, k + 1))
    BY <2>1, <2>2, <2>3, <2>4, <2>5, <2>6, Zenon
  <2>8. k + 1 \in 0 .. n
    OBVIOUS
  <2>9. QED
    BY <1>2, <2>7, <2>8, Zenon
<1>5. n \in T
  BY <1>3, <1>4, Upward
<1>6. SubSeq(s, 1, n) = s
  BY <1>1
<1>7. QED
  BY <1>2, <1>5, <1>6

-----------------------------------------------------------------------------
(* Parts of a sequence.                                                     *)
LEMMA PartType ==
  ASSUME NEW E, NEW s \in Seq(E), NEW i \in 1 .. Len(s) + 1, NEW j \in i - 1 .. Len(s)
  PROVE  /\ SubSeq(s, i, j) \in Seq(E) /\ Len(SubSeq(s, i, j)) = j - i + 1
         /\ \A k \in 1 .. j - i + 1 : SubSeq(s, i, j)[k] = s[i + k - 1]
<1>1. \A k \in i .. j : k \in 1 .. Len(s)
  OBVIOUS
<1>2. \A k \in i .. j : s[k] \in E
  BY <1>1
<1>3. SubSeq(s, i, j) \in Seq(E)
  BY <1>1, <1>2
<1>4. Len(SubSeq(s, i, j)) = j - i + 1
  OBVIOUS
<1>5. \A k \in 1 .. j - i + 1 : SubSeq(s, i, j)[k] = s[i + k - 1]
  OBVIOUS
<1>6. QED
  BY <1>3, <1>4, <1>5

LEMMA Halves ==
  ASSUME NEW E, NEW s \in Seq(E), NEW i \in 0 .. Len(s)
  PROVE  /\ SubSeq(s, 1, i) \in Seq(E) /\ Len(SubSeq(s, 1, i)) = i
         /\ From(s, i + 1) \in Seq(E) /\ Len(From(s, i + 1)) = Len(s) - i
         /\ \A k \in 1 .. i : SubSeq(s, 1, i)[k] = s[k]
         /\ \A k \in 1 .. Len(s) - i : From(s, i + 1)[k] = s[i + k]
         /\ s = SubSeq(s, 1, i) \o From(s, i + 1)
<1>1. PICK n \in Nat : n = Len(s) /\ i <= n
  OBVIOUS
<1>2. PICK p, q : p = SubSeq(s, 1, i) /\ q = From(s, i + 1)
  OBVIOUS
<1>3. p \in Seq(E) /\ Len(p) = i /\ \A k \in 1 .. i : p[k] = s[k]
  <2>1. 1 \in 1 .. Len(s) + 1 /\ i \in 1 - 1 .. Len(s) /\ i - 1 + 1 = i
    BY <1>1
  <2>2. QED
    BY <1>2, <2>1, PartType
<1>4. q \in Seq(E) /\ Len(q) = n - i /\ \A k \in 1 .. n - i : q[k] = s[i + k]
  <2>1. i + 1 \in 1 .. Len(s) + 1 /\ n \in i + 1 - 1 .. Len(s) /\ n - (i + 1) + 1 = n - i
    BY <1>1
  <2>2. /\ q \in Seq(E) /\ Len(q) = n - (i + 1) + 1
        /\ \A k \in 1 .. n - (i + 1) + 1 : q[k] = s[i + 1 + k - 1]
    BY <1>1, <1>2, <2>1, PartType DEF From
  <2>3. QED
    BY <2>1, <2>2
<1>5. s = p \o q
  <2>1. PICK r : r = p \o q
    OBVIOUS
  <2>2. r \in Seq(E) /\ Len(r) = n
    <3>1. p \in Seq(E) /\ q \in Seq(E)
      BY <1>3, <1>4
    <3>2. r \in Seq(E) /\ Len(r) = Len(p) + Len(q)
      BY <2>1, <3>1
    <3>3. QED
      BY <1>1, <1>3, <1>4, <3>2
  <2>3. ASSUME NEW k \in 1 .. n PROVE r[k] = s[k]
    <3>1. CASE k <= i
      BY <1>3, <2>1, <2>3, <3>1
    <3>2. CASE k > i
      <4>1. k - i \in 1 .. n - i /\ i + (k - i) = k
        BY <1>1, <2>3, <3>2
      <4>2. r[k] = q[k - i]
        BY <1>3, <1>4, <2>1, <3>2, <4>1, SMTT(20)
      <4>3. QED
        BY <1>4, <4>1, <4>2
    <3>3. QED
      BY <3>1, <3>2
  <2>4. QED
    BY <1>1, <2>1, <2>2, <2>3
<1>6. QED
  BY <1>1, <1>2, <1>3, <1>4, <1>5

LEMMA SplitSame ==
  ASSUME NEW E, NEW s \in Seq(E), NEW c \in Seq(E), NEW n \in 0 .. Len(s)
  PROVE  /\ SubSeq(s \o c, 1, n) = SubSeq(s, 1, n)
         /\ From(s \o c, n + 1) = From(s, n + 1) \o c
<1>1. PICK u, m, l : u = s \o c /\ m = Len(s) /\ l = Len(c)
  OBVIOUS
<1>2. m \in Nat /\ l \in Nat /\ n \in 0 .. m /\ u \in Seq(E) /\ Len(u) = m + l
  BY <1>1
<1>3. PICK p, q : p = SubSeq(s, 1, n) /\ q = From(s, n + 1)
  OBVIOUS
<1>4. PICK v, w : v = SubSeq(u, 1, n) /\ w = From(u, n + 1)
  OBVIOUS
<1>5. /\ p \in Seq(E) /\ Len(p) = n /\ \A k \in 1 .. n : p[k] = s[k]
      /\ q \in Seq(E) /\ Len(q) = m - n /\ \A k \in 1 .. m - n : q[k] = s[n + k]
  BY <1>1, <1>3, Halves
<1>6. PICK d \in Nat : d = Len(u) - n /\ d = (m - n) + l
  BY <1>2
<1>7. /\ v \in Seq(E) /\ Len(v) = n /\ \A k \in 1 .. n : v[k] = u[k]
      /\ w \in Seq(E) /\ Len(w) = d /\ \A k \in 1 .. d : w[k] = u[n + k]
  <2>1. n \in 0 .. Len(u)
    BY <1>2
  <2>2. QED
    BY <1>2, <1>4, <1>6, <2>1, Halves
<1>8. p = v
  <2>1. \A k \in 1 .. n : u[k] = s[k]
    BY <1>1, <1>2
  <2>2. \A k \in 1 .. n : v[k] = p[k]
    BY <1>5, <1>7, <2>1
  <2>3. QED
    BY <1>5, <1>7, <2>2
<1>9. w = q \o c
  <2>1. PICK z : z = q \o c
    OBVIOUS
  <2>2. z \in Seq(E) /\ Len(z) = d
    <3>1. q \in Seq(E)
      BY <1>5
    <3>2. z \in Seq(E) /\ Len(z) = Len(q) + Len(c)
      BY <2>1, <3>1
    <3>3. QED
      BY <1>1, <1>5, <1>6, <3>2
  <2>3. ASSUME NEW k \in 1 .. d PROVE w[k] = z[k]
    <3>1. w[k] = u[n + k]
      BY <1>7
    <3>2. CASE k <= m - n
      <4>1. z[k] = s[n + k]
        BY <1>2, <1>5, <2>1, <3>2
      <4>2. u[n + k] = s[n + k]
        BY <1>1, <1>2, <3>2
      <4>3. QED
        BY <3>1, <4>1, <4>2
    <3>3. CASE k > m - n
      <4>1. z[k] = c[k - (m - n)]
        <5>1. q \in Seq(E) /\ Len(q) = m - n
          BY <1>5
        <5>2. k \in Len(q) + 1 .. Len(q) + Len(c)
          BY <1>1, <1>2, <1>6, <3>3, <5>1
        <5>3. z[k] = c[k - Len(q)]
          BY <2>1, <5>1, <5>2
        <5>4. QED
          BY <5>1, <5>3
      <4>2. u[n + k] = c[n + k - m]
        BY <1>1, <1>2, <1>6, <3>3
      <4>3. k - (m - n) = n + k - m
        BY <1>2
      <4>4. QED
        BY <3>1, <4>1, <4>2, <4>3
    <3>4. QED
      BY <1>2, <3>2, <3>3
  <2>4. d \in Nat
    BY <1>6
  <2>5. w = z
    BY <1>7, <2>2, <2>3, <2>4
  <2>6. QED
    BY <2>1, <2>5
<1>10. QED
  BY <1>1, <1>3, <1>4, <1>8, <1>9

-----------------------------------------------------------------------------
(* Places(f, x, s): every byte of x stands in s at its place f, and the     *)
(* places are in order.  Part(x, s): x is s without some of its bytes.      *)
Places(f, x, s) ==
  /\ \A i \in 1 .. Len(x) : f[i] \in 1 .. Len(s) /\ x[i] = s[f[i]]
  /\ \A i, j \in 1 .. Len(x) : i < j => f[i] < f[j]
Part(x, s) == \E f : Places(f, x, s)

LEMMA PartSelf == ASSUME NEW s \in Bytes PROVE Part(s, s)
<1>1. PICK n \in Nat : n = Len(s)
  BY DEF Bytes
<1>2. Places([i \in 1 .. n |-> i], s, s)
  BY <1>1 DEF Places
<1>3. QED
  BY <1>2 DEF Part

LEMMA PartNone == ASSUME NEW s \in Bytes PROVE Part(<<>>, s)
<1>1. Len(<<>>) = 0
  OBVIOUS
<1>2. Places(<<>>, <<>>, s)
  BY <1>1 DEF Places
<1>3. QED
  BY <1>2 DEF Part

LEMMA PartOfPart ==
  ASSUME NEW x \in Bytes, NEW y \in Bytes, NEW s \in Bytes, Part(x, y), Part(y, s)
  PROVE  Part(x, s)
<1>1. PICK n \in Nat, m \in Nat, k \in Nat : n = Len(x) /\ m = Len(y) /\ k = Len(s)
  BY DEF Bytes
<1>2. PICK f : /\ \A i \in 1 .. n : f[i] \in 1 .. m /\ x[i] = y[f[i]]
               /\ \A i, j \in 1 .. n : i < j => f[i] < f[j]
  BY <1>1, SMTT(20) DEF Part, Places
<1>3. PICK g : /\ \A i \in 1 .. m : g[i] \in 1 .. k /\ y[i] = s[g[i]]
               /\ \A i, j \in 1 .. m : i < j => g[i] < g[j]
  BY <1>1 DEF Part, Places
<1>4. PICK h : h = [i \in 1 .. n |-> g[f[i]]]
  OBVIOUS
<1>5. \A i \in 1 .. n : h[i] \in 1 .. k /\ x[i] = s[h[i]]
  BY <1>2, <1>3, <1>4
<1>6. \A i, j \in 1 .. n : i < j => h[i] < h[j]
  BY <1>2, <1>3, <1>4
<1>7. Places(h, x, s)
  BY <1>1, <1>5, <1>6, Zenon DEF Places
<1>8. QED
  BY <1>7 DEF Part

LEMMA ConcatOf ==
  ASSUME NEW x \in Bytes, NEW y \in Bytes
  PROVE  /\ x \o y \in Bytes /\ Len(x \o y) = Len(x) + Len(y)
         /\ \A i \in 1 .. Len(x) : (x \o y)[i] = x[i]
         /\ \A i \in 1 .. Len(y) : (x \o y)[Len(x) + i] = y[i]
<1>1. x \in Seq(Byte) /\ y \in Seq(Byte)
  BY DEF Bytes
<1>2. x \o y \in Seq(Byte) /\ Len(x \o y) = Len(x) + Len(y)
  BY <1>1
<1>3. \A i \in 1 .. Len(x) : (x \o y)[i] = x[i]
  BY <1>1
<1>4. \A i \in 1 .. Len(y) : (x \o y)[Len(x) + i] = y[i]
  BY <1>1
<1>5. QED
  BY <1>2, <1>3, <1>4 DEF Bytes

(* Two parts of two sequences make a part of the whole.                     *)
LEMMA PartBoth ==
  ASSUME NEW x \in Bytes, NEW y \in Bytes, NEW s \in Bytes, NEW t \in Bytes,
         Part(x, s), Part(y, t)
  PROVE  Part(x \o y, s \o t)
<1>1. PICK n \in Nat, m \in Nat, k \in Nat, l \in Nat :
         n = Len(x) /\ m = Len(y) /\ k = Len(s) /\ l = Len(t)
  BY DEF Bytes
<1>2. PICK f : /\ \A i \in 1 .. n : f[i] \in 1 .. k /\ x[i] = s[f[i]]
               /\ \A i, j \in 1 .. n : i < j => f[i] < f[j]
  BY <1>1 DEF Part, Places
<1>3. PICK g : /\ \A i \in 1 .. m : g[i] \in 1 .. l /\ y[i] = t[g[i]]
               /\ \A i, j \in 1 .. m : i < j => g[i] < g[j]
  BY <1>1 DEF Part, Places
<1>4. PICK z \in Bytes : /\ z = x \o y /\ Len(z) = n + m
                         /\ \A i \in 1 .. n : z[i] = x[i]
                         /\ \A i \in 1 .. m : z[n + i] = y[i]
  <2>1. PICK z : z = x \o y
    OBVIOUS
  <2>2. /\ z \in Bytes /\ Len(z) = Len(x) + Len(y)
        /\ \A i \in 1 .. Len(x) : z[i] = x[i]
        /\ \A i \in 1 .. Len(y) : z[Len(x) + i] = y[i]
    BY <2>1, ConcatOf
  <2>3. QED
    BY <1>1, <2>1, <2>2
<1>5. PICK w \in Bytes : /\ w = s \o t /\ Len(w) = k + l
                         /\ \A i \in 1 .. k : w[i] = s[i]
                         /\ \A i \in 1 .. l : w[k + i] = t[i]
  <2>1. PICK w : w = s \o t
    OBVIOUS
  <2>2. /\ w \in Bytes /\ Len(w) = Len(s) + Len(t)
        /\ \A i \in 1 .. Len(s) : w[i] = s[i]
        /\ \A i \in 1 .. Len(t) : w[Len(s) + i] = t[i]
    BY <2>1, ConcatOf
  <2>3. QED
    BY <1>1, <2>1, <2>2
<1>6. PICK h : h = [i \in 1 .. n + m |-> IF i <= n THEN f[i] ELSE k + g[i - n]]
  OBVIOUS
<1>7. ASSUME NEW i \in 1 .. n
      PROVE  h[i] = f[i] /\ h[i] \in 1 .. k /\ h[i] \in 1 .. k + l /\ z[i] = w[h[i]]
  <2>1. h[i] = f[i]
    BY <1>6
  <2>2. f[i] \in 1 .. k /\ z[i] = s[f[i]]
    BY <1>2, <1>4
  <2>3. QED
    BY <1>5, <2>1, <2>2
<1>8. ASSUME NEW i \in 1 .. m
      PROVE  /\ h[n + i] = k + g[i] /\ h[n + i] \in k + 1 .. k + l
             /\ h[n + i] \in 1 .. k + l /\ z[n + i] = w[h[n + i]]
  <2>1. n + i \in 1 .. n + m /\ ~(n + i <= n) /\ n + i - n = i
    OBVIOUS
  <2>2. h[n + i] = k + g[i]
    BY <1>6, <2>1
  <2>3. g[i] \in 1 .. l /\ z[n + i] = t[g[i]]
    BY <1>3, <1>4
  <2>4. w[k + g[i]] = t[g[i]]
    BY <1>5, <2>3
  <2>5. QED
    BY <2>2, <2>3, <2>4
<1>9. \A i \in 1 .. n + m : i \in 1 .. n \/ \E j \in 1 .. m : i = n + j
  <2>1. ASSUME NEW i \in 1 .. n + m, i \notin 1 .. n PROVE i - n \in 1 .. m /\ i = n + (i - n)
    BY <2>1
  <2>2. QED
    BY <2>1
<1>10. \A i \in 1 .. n + m : h[i] \in 1 .. k + l /\ z[i] = w[h[i]]
  BY <1>7, <1>8, <1>9
<1>11. ASSUME NEW i \in 1 .. n + m, NEW j \in 1 .. n + m, i < j PROVE h[i] < h[j]
  <2>1. CASE i \in 1 .. n /\ j \in 1 .. n
    BY <1>2, <1>7, <1>11, <2>1
  <2>2. CASE i \in 1 .. n /\ j \notin 1 .. n
    <3>1. PICK b \in 1 .. m : j = n + b
      BY <1>9, <2>2
    <3>2. h[i] \in 1 .. k /\ h[j] \in k + 1 .. k + l
      BY <1>7, <1>8, <2>2, <3>1
    <3>3. QED
      BY <3>2
  <2>3. CASE i \notin 1 .. n
    <3>1. PICK a \in 1 .. m, b \in 1 .. m : i = n + a /\ j = n + b
      <4>1. j \notin 1 .. n
        BY <1>11, <2>3
      <4>2. QED
        BY <1>9, <2>3, <4>1
    <3>2. g[a] < g[b] /\ g[a] \in 1 .. l /\ g[b] \in 1 .. l
      BY <1>3, <1>11, <3>1
    <3>3. h[i] = k + g[a] /\ h[j] = k + g[b]
      BY <1>8, <3>1
    <3>4. QED
      BY <3>2, <3>3
  <2>4. QED
    BY <2>1, <2>2, <2>3
<1>12. Places(h, z, w)
  BY <1>4, <1>5, <1>10, <1>11, Zenon DEF Places
<1>13. QED
  BY <1>4, <1>5, <1>12 DEF Part

LEMMA PartMore ==
  ASSUME NEW x \in Bytes, NEW s \in Bytes, NEW t \in Bytes, Part(x, s)
  PROVE  Part(x, s \o t)
<1>1. <<>> \in Bytes
  BY DEF Bytes
<1>2. Part(x \o <<>>, s \o t)
  BY <1>1, PartBoth, PartNone, Zenon
<1>3. x \o <<>> = x
  BY DEF Bytes
<1>4. QED
  BY <1>2, <1>3, Zenon

(* What drain() leaves is a part.                                           *)
LEMMA PartWithout ==
  ASSUME NEW s \in Bytes, NEW i \in 1 .. Len(s), NEW k \in Nat, i + k - 1 <= Len(s)
  PROVE  Without(s, i, k) \in Bytes /\ Part(Without(s, i, k), s)
<1>0. PICK n \in Nat : n = Len(s) /\ s \in Seq(Byte)
  BY DEF Bytes
<1>1. PICK a \in 0 .. n, l \in 0 .. n :
         a = i - 1 /\ l = i + k - 1 /\ i + k = l + 1 /\ a <= l
  BY <1>0
<1>2. PICK p, q, z : p = SubSeq(s, 1, a) /\ q = From(s, l + 1) /\ z = p \o q
  OBVIOUS
<1>3. p \in Seq(Byte) /\ Len(p) = a /\ \A j \in 1 .. a : p[j] = s[j]
  BY <1>0, <1>1, <1>2, Halves, SMTT(20)
<1>4. q \in Seq(Byte) /\ Len(q) = n - l /\ \A j \in 1 .. n - l : q[j] = s[l + j]
  BY <1>0, <1>1, <1>2, Halves
<1>5. Without(s, i, k) = z
  BY <1>1, <1>2, Zenon DEF Without
<1>6. /\ z \in Seq(Byte) /\ Len(z) = a + (n - l)
      /\ \A j \in 1 .. a : z[j] = p[j]
      /\ \A j \in 1 .. n - l : z[a + j] = q[j]
  <2>1. p \in Bytes /\ q \in Bytes
    BY <1>3, <1>4 DEF Bytes
  <2>2. /\ z \in Bytes /\ Len(z) = Len(p) + Len(q)
        /\ \A j \in 1 .. Len(p) : z[j] = p[j]
        /\ \A j \in 1 .. Len(q) : z[Len(p) + j] = q[j]
    <3>1. z = p \o q
      BY <1>2, Zenon
    <3>2. QED
      BY <2>1, <3>1, ConcatOf, Zenon
  <2>3. QED
    BY <1>3, <1>4, <2>2, SMTT(20) DEF Bytes
<1>7. PICK f : f = [j \in 1 .. a + (n - l) |-> IF j <= a THEN j ELSE j - a + l]
  OBVIOUS
<1>8. ASSUME NEW j \in 1 .. a + (n - l) PROVE f[j] \in 1 .. n /\ z[j] = s[f[j]]
  <2>1. CASE j <= a
    BY <1>0, <1>1, <1>3, <1>6, <1>7, <2>1
  <2>2. CASE ~(j <= a)
    <3>1. PICK b \in 1 .. n - l : j = a + b /\ f[j] = l + b
      <4>1. j - a \in 1 .. n - l /\ j = a + (j - a) /\ f[j] = l + (j - a)
        BY <1>1, <1>7, <2>2
      <4>2. QED
        BY <4>1
    <3>2. z[j] = s[l + b]
      BY <1>4, <1>6, <3>1
    <3>3. QED
      BY <1>1, <3>1, <3>2
  <2>3. QED
    BY <2>1, <2>2
<1>9. \A j, m \in 1 .. a + (n - l) : j < m => f[j] < f[m]
  BY <1>1, <1>7
<1>10. Places(f, z, s)
  BY <1>0, <1>6, <1>8, <1>9, Zenon DEF Places
<1>11. QED
  BY <1>5, <1>6, <1>10 DEF Part, Bytes

LEMMA PartFirst ==
  ASSUME NEW s \in Bytes, NEW i \in 0 .. Len(s)
  PROVE  /\ SubSeq(s, 1, i) \in Bytes /\ Part(SubSeq(s, 1, i), s)
         /\ From(s, i + 1) \in Bytes /\ Part(From(s, i + 1), s)
         /\ s = SubSeq(s, 1, i) \o From(s, i + 1)
<1>1. PICK n \in Nat : n = Len(s) /\ s \in Seq(Byte)
  BY DEF Bytes
<1>2. PICK p, q : p = SubSeq(s, 1, i) /\ q = From(s, i + 1)
  OBVIOUS
<1>3. p \in Bytes /\ q \in Bytes /\ s = p \o q
  <2>1. /\ SubSeq(s, 1, i) \in Seq(Byte) /\ From(s, i + 1) \in Seq(Byte)
        /\ s = SubSeq(s, 1, i) \o From(s, i + 1)
    BY <1>1, Halves
  <2>2. QED
    BY <1>2, <2>1, Zenon DEF Bytes
<1>4. <<>> \in Bytes /\ p \o <<>> = p /\ <<>> \o q = q
  BY <1>3 DEF Bytes
<1>5. Part(p \o <<>>, p \o q) /\ Part(<<>> \o q, p \o q)
  BY <1>3, <1>4, PartBoth, PartSelf, PartNone
<1>6. QED
  BY <1>2, <1>3, <1>4, <1>5

(* The search of InOrder, which takes the first place it can, finds a part. *)
LEMMA PartFound ==
  ASSUME NEW x \in Bytes, NEW s \in Bytes, Part(x, s)
  PROVE  InOrder(x, s)
<1>1. PICK n \in Nat, m \in Nat : n = Len(s) /\ m = Len(x) /\ s \in Seq(Byte)
  BY DEF Bytes
<1>2. PICK f : /\ \A i \in 1 .. m : f[i] \in 1 .. n /\ x[i] = s[f[i]]
               /\ \A i, j \in 1 .. m : i < j => f[i] < f[j]
  BY <1>1 DEF Part, Places
<1>3. PICK found : found = [b \in Byte |-> [c \in 0 .. m |->
                              IF c < m /\ x[c + 1] = b THEN c + 1 ELSE c]]
  OBVIOUS
<1>4. PICK g : IsRun(g, [k \in 1 .. n |-> found[s[k]]], 0, n) /\ Over(found, 0, s) = g[n]
  BY <1>1, OverRun
<1>5. g[0] = 0 /\ \A k \in 1 .. n : g[k] = found[s[k]][g[k - 1]]
  BY <1>4 DEF IsRun
<1>6. PICK T : T = {k \in 0 .. n : /\ g[k] \in 0 .. m
                                   /\ \A i \in 1 .. m : f[i] <= k => i <= g[k]}
  OBVIOUS
<1>7. 0 \in T
  BY <1>2, <1>5, <1>6
<1>8. ASSUME NEW k \in 0 .. n - 1, k \in T PROVE k + 1 \in T
  <2>1. PICK c \in 0 .. m : c = g[k] /\ \A i \in 1 .. m : f[i] <= k => i <= c
    BY <1>6, <1>8
  <2>2. PICK j \in 1 .. n : j = k + 1 /\ j - 1 = k
    OBVIOUS
  <2>3. s[j] \in Byte
    BY <1>1
  <2>4. PICK d : d = g[j] /\ d = IF c < m /\ x[c + 1] = s[j] THEN c + 1 ELSE c
    BY <1>3, <1>5, <2>1, <2>2, <2>3
  <2>5. d \in 0 .. m /\ c <= d
    BY <2>4
  <2>6. ASSUME NEW i \in 1 .. m, f[i] <= j PROVE i <= d
    <3>1. CASE i <= c
      BY <2>5, <3>1
    <3>2. CASE ~(i <= c)
      <4>1. f[i] \in 1 .. n /\ ~(f[i] <= k)
        BY <1>2, <2>1, <3>2
      <4>2. f[i] = j
        BY <2>2, <2>6, <4>1
      <4>3. i = 1 \/ i - 1 <= c
        <5>1. ASSUME i # 1 PROVE i - 1 \in 1 .. m /\ i - 1 < i
          BY <5>1
        <5>2. ASSUME i # 1 PROVE f[i - 1] < f[i] /\ f[i - 1] \in 1 .. n
          BY <1>2, <5>1, <5>2
        <5>3. ASSUME i # 1 PROVE f[i - 1] <= k
          BY <2>2, <4>2, <5>2, <5>3
        <5>4. QED
          BY <2>1, <5>1, <5>3
      <4>4. i = c + 1
        BY <3>2, <4>3
      <4>5. x[c + 1] = s[j]
        BY <1>2, <4>2, <4>4
      <4>6. QED
        BY <2>4, <4>4, <4>5
    <3>3. QED
      BY <3>1, <3>2
  <2>7. j \in 0 .. n /\ \A i \in 1 .. m : f[i] <= j => i <= g[j]
    BY <2>4, <2>6
  <2>8. j \in T
    BY <1>6, <2>4, <2>5, <2>7, Zenon
  <2>9. QED
    BY <2>2, <2>8
<1>9. n \in T
  BY <1>7, <1>8, Upward
<1>10. g[n] \in 0 .. m /\ \A i \in 1 .. m : i <= g[n]
  <2>1. \A i \in 1 .. m : f[i] <= n
    BY <1>2
  <2>2. QED
    BY <1>6, <1>9, <2>1
<1>11. g[n] = m
  BY <1>10
<1>12. QED
  BY <1>1, <1>3, <1>4, <1>11, Zenon DEF InOrder

-----------------------------------------------------------------------------
(* Telnet.                                                                  *)
TelnetMap == [b \in Byte |-> [t \in TelnetState |-> TelnetStep(t, b)]]
Quiet == [out |-> <<>>, next |-> "data"]
Heard(t, s) == Over(TelnetMap, t, s)

LEMMA StepType ==
  ASSUME NEW t \in TelnetState, NEW b \in Byte PROVE TelnetStep(t, b) \in TelnetState
<1>1. t.out \in Seq(Byte) /\ Append(t.out, b) \in Seq(Byte)
  BY DEF TelnetState, Bytes
<1>2. QED
  BY <1>1 DEF TelnetStep, TelnetState, Bytes

LEMMA MapType == TelnetMap \in [Byte -> [TelnetState -> TelnetState]]
  BY StepType DEF TelnetMap

LEMMA HeardType ==
  ASSUME NEW t \in TelnetState, NEW s \in Bytes PROVE Heard(t, s) \in TelnetState
BY MapType, OverType DEF Heard, Bytes

LEMMA HeardNext ==
  ASSUME NEW t \in TelnetState, NEW s \in Bytes, NEW b \in Byte
  PROVE  Heard(t, Append(s, b)) = TelnetStep(Heard(t, s), b)
<1>1. Heard(t, Append(s, b)) = TelnetMap[b][Heard(t, s)]
  BY OverAppend DEF Heard, Bytes
<1>2. QED
  BY <1>1, HeardType DEF TelnetMap

LEMMA HeardNone == ASSUME NEW t PROVE Heard(t, <<>>) = t
BY OverNone DEF Heard

LEMMA HeardOne ==
  ASSUME NEW t \in TelnetState, NEW b \in Byte PROVE Heard(t, <<b>>) = TelnetStep(t, b)
<1>1. <<>> \in Bytes /\ Append(<<>>, b) = <<b>>
  BY DEF Bytes
<1>2. QED
  BY <1>1, HeardNext, HeardNone

LEMMA HeardBoth ==
  ASSUME NEW t, NEW s \in Bytes, NEW u \in Bytes
  PROVE  Heard(t, s \o u) = Heard(Heard(t, s), u)
BY OverConcat DEF Heard, Bytes

LEMMA HeardAll == ASSUME NEW s PROVE Telnet(s) = Heard(Quiet, s)
BY DEF Telnet, Heard, TelnetMap, Quiet

LEMMA QuietType == Quiet \in TelnetState
BY DEF Quiet, TelnetState, Bytes

(* Data is passed on.                                                       *)
LEMMA Plain ==
  ASSUME NEW t \in TelnetState, t.next = "data",
         NEW s \in Bytes, \A i \in 1 .. Len(s) : s[i] # IAC
  PROVE  Heard(t, s) = [out |-> t.out \o s, next |-> "data"]
<1>1. PICK n \in Nat : n = Len(s)
  BY DEF Bytes
<1>2. PICK o \in Seq(Byte) : t = [out |-> o, next |-> "data"]
  BY DEF TelnetState, Bytes
<1> DEFINE Same(v) == Heard(t, v) = [out |-> o \o v, next |-> "data"]
<1>3. PICK T : T = {k \in 0 .. n : Same(SubSeq(s, 1, k))}
  OBVIOUS
<1>4. 0 \in T
  <2>1. SubSeq(s, 1, 0) = <<>> /\ o \o <<>> = o
    BY DEF Bytes
  <2>2. Same(SubSeq(s, 1, 0))
    BY <1>2, <2>1, HeardNone, Zenon
  <2>3. 0 \in 0 .. n
    OBVIOUS
  <2>4. QED
    BY <1>3, <2>2, <2>3, Zenon
<1>5. ASSUME NEW k \in 0 .. n - 1, k \in T PROVE k + 1 \in T
  <2>1. PICK v, b : v = SubSeq(s, 1, k) /\ b = s[k + 1]
    OBVIOUS
  <2>2. v \in Seq(Byte) /\ b \in Byte /\ SubSeq(s, 1, k + 1) = Append(v, b)
    BY <1>1, <2>1, NextOf DEF Bytes
  <2>3. b # IAC
    BY <1>1, <2>1
  <2>4. PICK h : h = Heard(t, v) /\ h = [out |-> o \o v, next |-> "data"]
    BY <1>3, <1>5, <2>1
  <2>5. Heard(t, Append(v, b)) = TelnetStep(Heard(t, v), b)
    BY <2>2, HeardNext DEF Bytes
  <2>6. TelnetStep(h, b) = [out |-> Append(o \o v, b), next |-> "data"]
    <3>1. TelnetStep(h, b) = [h EXCEPT !.out = Append(@, b)]
      BY <2>3, <2>4 DEF TelnetStep
    <3>2. PICK w, x : w = o \o v /\ x = Append(w, b)
      OBVIOUS
    <3>3. h = [out |-> w, next |-> "data"] /\ TelnetStep(h, b) = [h EXCEPT !.out = x]
      BY <2>4, <3>1, <3>2
    <3>4. TelnetStep(h, b) = [out |-> x, next |-> "data"]
      BY <3>3
    <3>5. QED
      BY <3>2, <3>4
  <2>7. Append(o \o v, b) = o \o Append(v, b)
    BY <2>2
  <2>8. Same(SubSeq(s, 1, k + 1))
    BY <2>2, <2>4, <2>5, <2>6, <2>7, Zenon
  <2>9. k + 1 \in 0 .. n
    OBVIOUS
  <2>10. QED
    BY <1>3, <2>8, <2>9, Zenon
<1>6. n \in T
  BY <1>4, <1>5, Upward
<1>7. SubSeq(s, 1, n) = s
  BY <1>1 DEF Bytes
<1>8. Same(s) /\ t.out = o
  BY <1>2, <1>3, <1>6, <1>7
<1>9. QED
  BY <1>8


-----------------------------------------------------------------------------
(* handle_telnet_commands.                                                  *)
Clean(b) == \A k \in 1 .. Len(b) : b[k] # IAC

LEMMA DrainedOf == ASSUME NEW c PROVE Drained(c) \in 1 .. 3
BY DEF Drained

(* What a round does: nothing, or something at the first IAC.               *)
LEMMA DrainCases ==
  ASSUME NEW b \in Bytes
  PROVE  \/ Clean(b) /\ DrainCommand(b) = b
         \/ \E i \in 1 .. Len(b) :
              /\ b[i] = IAC /\ \A j \in 1 .. i - 1 : b[j] # IAC
              /\ \/ i = Len(b) /\ DrainCommand(b) = b
                 \/ /\ i < Len(b) /\ i + Drained(b[i + 1]) - 1 > Len(b)
                    /\ DrainCommand(b) = Panicked
                 \/ /\ i < Len(b) /\ i + Drained(b[i + 1]) - 1 <= Len(b)
                    /\ DrainCommand(b) = Without(b, i, Drained(b[i + 1]))
<1>1. PICK n \in Nat : n = Len(b)
  BY DEF Bytes
<1>2. PICK I : I = {i \in 1 .. n : b[i] = IAC}
  OBVIOUS
<1>3. PICK i : i = IF I # {} THEN Min(I) ELSE 0
  OBVIOUS
<1>4. SelectInSeq(b, LAMBDA x : x = IAC) = i
  BY <1>1, <1>2, <1>3 DEF SelectInSeq
<1>5. b # Panicked
  BY ByteAssumption DEF Bytes
<1>6. DrainCommand(b) =
        IF i \in {0, n} THEN b
        ELSE IF i + Drained(b[i + 1]) - 1 > n THEN Panicked ELSE Without(b, i, Drained(b[i + 1]))
  BY <1>1, <1>4, <1>5 DEF DrainCommand
<1>7. CASE I = {}
  <2>1. Clean(b)
    BY <1>1, <1>2, <1>7 DEF Clean
  <2>2. QED
    BY <1>3, <1>6, <1>7, <2>1
<1>8. CASE I # {}
  <2>1. I \subseteq Nat
    BY <1>2
  <2>2. i \in I /\ \A j \in I : i <= j
    BY <1>3, <1>8, <2>1, MinOf
  <2>3. i \in 1 .. n /\ b[i] = IAC
    BY <1>2, <2>2
  <2>4. \A j \in 1 .. i - 1 : b[j] # IAC
    BY <1>2, <2>2, <2>3
  <2>5. i + Drained(b[i + 1]) - 1 \in Int
    BY <2>3, DrainedOf
  <2>6. \/ i = n /\ DrainCommand(b) = b
        \/ /\ i < n /\ i + Drained(b[i + 1]) - 1 > n /\ DrainCommand(b) = Panicked
        \/ /\ i < n /\ i + Drained(b[i + 1]) - 1 <= n
           /\ DrainCommand(b) = Without(b, i, Drained(b[i + 1]))
    BY <1>6, <2>3, <2>5
  <2>7. QED
    BY <1>1, <2>3, <2>4, <2>6
<1>9. QED
  BY <1>7, <1>8

LEMMA WithoutOf ==
  ASSUME NEW E, NEW b \in Seq(E), NEW i \in 1 .. Len(b), NEW k \in Nat, i + k - 1 <= Len(b)
  PROVE  /\ SubSeq(b, 1, i - 1) \in Seq(E) /\ Len(SubSeq(b, 1, i - 1)) = i - 1
         /\ From(b, i + k) \in Seq(E) /\ Len(From(b, i + k)) = Len(b) - (i + k - 1)
         /\ Without(b, i, k) \in Seq(E) /\ Len(Without(b, i, k)) = Len(b) - k
<1>1. PICK n \in Nat : n = Len(b)
  OBVIOUS
<1>2. PICK l \in 0 .. n : l = i + k - 1 /\ i + k = l + 1
  BY <1>1
<1>3. PICK p, q : p = SubSeq(b, 1, i - 1) /\ q = From(b, i + k)
  OBVIOUS
<1>4. p \in Seq(E) /\ Len(p) = i - 1
  <2>1. i - 1 \in 0 .. Len(b)
    OBVIOUS
  <2>2. QED
    BY <1>3, <2>1, Halves
<1>5. q \in Seq(E) /\ Len(q) = n - l
  <2>1. l \in 0 .. Len(b)
    BY <1>1, <1>2
  <2>2. From(b, l + 1) \in Seq(E) /\ Len(From(b, l + 1)) = Len(b) - l
    BY <2>1, Halves
  <2>3. QED
    BY <1>1, <1>2, <1>3, <2>2, Zenon
<1>6. p \o q \in Seq(E) /\ Len(p \o q) = Len(p) + Len(q)
  <2>1. p \in Seq(E) /\ q \in Seq(E)
    BY <1>4, <1>5
  <2>2. QED
    BY <2>1
<1>7. Without(b, i, k) = p \o q
  BY <1>3 DEF Without
<1>8. Len(Without(b, i, k)) = n - k
  <2>1. Len(Without(b, i, k)) = (i - 1) + (n - l)
    BY <1>4, <1>5, <1>6, <1>7
  <2>2. (i - 1) + (n - l) = n - k
    BY <1>1, <1>2
  <2>3. QED
    BY <2>1, <2>2
<1>9. QED
  BY <1>1, <1>2, <1>3, <1>4, <1>5, <1>6, <1>7, <1>8

LEMMA DrainType ==
  ASSUME NEW b \in Bytes
  PROVE  \/ DrainCommand(b) = Panicked
         \/ DrainCommand(b) \in Bytes /\ Part(DrainCommand(b), b)
<1>1. ASSUME NEW i \in 1 .. Len(b), NEW k \in 1 .. 3, i + k - 1 <= Len(b)
      PROVE  Without(b, i, k) \in Bytes /\ Part(Without(b, i, k), b)
  <2>1. k \in Nat
    OBVIOUS
  <2>2. QED
    BY <1>1, <2>1, PartWithout
<1>2. Part(b, b)
  BY PartSelf
<1>3. QED
  BY <1>1, <1>2, DrainCases, DrainedOf

(* The bytes after the commands are taken out, if drain() did not panic.    *)
LEMMA CommandsType ==
  ASSUME NEW data \in Bytes
  PROVE  \/ HandleTelnetCommands(data) = Panicked
         \/ /\ HandleTelnetCommands(data) \in Bytes
            /\ Part(HandleTelnetCommands(data), data)
<1>1. PICK Y : Y = {b \in Bytes : Part(b, data)} \cup {Panicked}
  OBVIOUS
<1>2. Len(data) \in Nat /\ data \in Y
  BY <1>1, PartSelf DEF Bytes
<1>3. PICK drain : drain = [b \in Bytes \cup {Panicked} |-> DrainCommand(b)]
  OBVIOUS
<1>4. ASSUME NEW b \in Y PROVE drain[b] \in Y
  <2>1. CASE b = Panicked
    <3>1. DrainCommand(b) = Panicked
      BY <2>1 DEF DrainCommand
    <3>2. QED
      BY <1>1, <1>3, <2>1, <3>1
  <2>2. CASE b \in Bytes /\ Part(b, data)
    <3>1. drain[b] = DrainCommand(b)
      BY <1>3, <2>2
    <3>2. CASE DrainCommand(b) = Panicked
      BY <1>1, <3>1, <3>2
    <3>3. CASE DrainCommand(b) \in Bytes /\ Part(DrainCommand(b), b)
      <4>1. Part(DrainCommand(b), data)
        BY <2>2, <3>3, PartOfPart
      <4>2. QED
        BY <1>1, <3>1, <3>3, <4>1
    <3>4. QED
      BY <2>2, <3>2, <3>3, DrainType
  <2>3. QED
    BY <1>1, <2>1, <2>2
<1>5. PICK T : T = {k \in 0 .. Len(data) : Rounds(drain, data, k) \in Y}
  OBVIOUS
<1>6. 0 \in T
  BY <1>2, <1>5, RoundsStart
<1>7. ASSUME NEW k \in 0 .. Len(data) - 1, k \in T PROVE k + 1 \in T
  <2>1. k \in Nat /\ k + 1 \in 0 .. Len(data)
    BY <1>2
  <2>2. Rounds(drain, data, k + 1) = drain[Rounds(drain, data, k)]
    BY <2>1, RoundsStep
  <2>3. QED
    BY <1>4, <1>5, <1>7, <2>1, <2>2
<1>8. Len(data) \in T
  BY <1>2, <1>6, <1>7, Upward
<1>9. HandleTelnetCommands(data) \in Y
  BY <1>3, <1>5, <1>8 DEF HandleTelnetCommands
<1>10. QED
  BY <1>1, <1>9


(* A command is heard as nothing.                                           *)
LEMMA TwoBytes ==
  ASSUME NEW o \in Bytes, NEW c \in Byte, c # IAC, ~IsOptionCommand(c), IAC \in Byte
  PROVE  Heard([out |-> o, next |-> "data"], <<IAC, c>>) = [out |-> o, next |-> "data"]
<1>1. PICK t : t = [out |-> o, next |-> "data"]
  OBVIOUS
<1>2. PICK w : w = [out |-> o, next |-> "command"]
  OBVIOUS
<1>3. t \in TelnetState /\ w \in TelnetState
  BY <1>1, <1>2 DEF TelnetState
<1>4. TelnetStep(t, IAC) = w
  BY <1>1, <1>2 DEF TelnetStep
<1>5. TelnetStep(w, c) = t
  BY <1>1, <1>2 DEF TelnetStep
<1>6. <<IAC>> \in Bytes /\ <<IAC, c>> = Append(<<IAC>>, c)
  BY DEF Bytes
<1>7. Heard(t, <<IAC>>) = w
  BY <1>3, <1>4, HeardOne
<1>8. Heard(t, <<IAC, c>>) = TelnetStep(w, c)
  <2>1. Heard(t, Append(<<IAC>>, c)) = TelnetStep(Heard(t, <<IAC>>), c)
    BY <1>3, <1>6, HeardNext
  <2>2. QED
    BY <1>6, <1>7, <2>1, Zenon
<1>9. QED
  BY <1>1, <1>5, <1>8

LEMMA ThreeBytes ==
  ASSUME NEW o \in Bytes, NEW c \in Byte, NEW d \in Byte, IsOptionCommand(c), IAC \in Byte
  PROVE  /\ Heard([out |-> o, next |-> "data"], <<IAC, c>>) = [out |-> o, next |-> "option"]
         /\ Heard([out |-> o, next |-> "data"], <<IAC, c, d>>) = [out |-> o, next |-> "data"]
<1>1. PICK t : t = [out |-> o, next |-> "data"]
  OBVIOUS
<1>2. PICK w, v : w = [out |-> o, next |-> "command"] /\ v = [out |-> o, next |-> "option"]
  OBVIOUS
<1>3. t \in TelnetState /\ w \in TelnetState /\ v \in TelnetState
  BY <1>1, <1>2 DEF TelnetState
<1>4. TelnetStep(t, IAC) = w
  BY <1>1, <1>2 DEF TelnetStep
<1>5. TelnetStep(w, c) = v
  BY <1>1, <1>2 DEF TelnetStep, IsOptionCommand, IAC
<1>6. TelnetStep(v, d) = t
  BY <1>1, <1>2 DEF TelnetStep
<1>7. /\ <<IAC>> \in Bytes /\ <<IAC, c>> = Append(<<IAC>>, c)
      /\ <<IAC, c>> \in Bytes /\ <<IAC, c, d>> = Append(<<IAC, c>>, d)
  BY DEF Bytes
<1>8. Heard(t, <<IAC>>) = w
  BY <1>3, <1>4, HeardOne
<1>9. Heard(t, <<IAC, c>>) = v
  <2>1. Heard(t, Append(<<IAC>>, c)) = TelnetStep(Heard(t, <<IAC>>), c)
    BY <1>3, <1>7, HeardNext
  <2>2. QED
    BY <1>5, <1>7, <1>8, <2>1, Zenon
<1>10. Heard(t, <<IAC, c, d>>) = t
  <2>1. Heard(t, Append(<<IAC, c>>, d)) = TelnetStep(Heard(t, <<IAC, c>>), d)
    BY <1>3, <1>7, HeardNext
  <2>2. QED
    BY <1>6, <1>7, <1>9, <2>1, Zenon
<1>11. QED
  BY <1>1, <1>2, <1>9, <1>10

(* An input without escaped IACs.                                           *)
Single(b) == b \in Bytes /\ ~Escaped(b)

LEMMA Thirds ==
  ASSUME NEW E, NEW s \in Seq(E), NEW i \in 1 .. Len(s), NEW l \in i .. Len(s)
  PROVE  /\ SubSeq(s, i, l) \in Seq(E)
         /\ SubSeq(s, 1, l) = SubSeq(s, 1, i - 1) \o SubSeq(s, i, l)
<1>1. PICK p, m, u : p = SubSeq(s, 1, i - 1) /\ m = SubSeq(s, i, l) /\ u = SubSeq(s, 1, l)
  OBVIOUS
<1>2. PICK n \in Nat : n = Len(s) /\ i \in 1 .. n /\ l \in i .. n
  OBVIOUS
<1>3. p \in Seq(E) /\ Len(p) = i - 1 /\ \A k \in 1 .. i - 1 : p[k] = s[k]
  <2>1. i - 1 \in 0 .. Len(s)
    BY <1>2
  <2>2. QED
    BY <1>1, <2>1, Halves
<1>4. m \in Seq(E) /\ Len(m) = l - i + 1 /\ \A k \in 1 .. l - i + 1 : m[k] = s[i + k - 1]
  <2>1. i \in 1 .. Len(s) + 1 /\ l \in i - 1 .. Len(s)
    BY <1>2
  <2>2. QED
    BY <1>1, <2>1, PartType
<1>5. u \in Seq(E) /\ Len(u) = l /\ \A k \in 1 .. l : u[k] = s[k]
  <2>1. l \in 0 .. Len(s)
    BY <1>2
  <2>2. QED
    BY <1>1, <2>1, Halves
<1>6. PICK r : r = p \o m
  OBVIOUS
<1>7. r \in Seq(E) /\ Len(r) = l
  <2>1. r \in Seq(E) /\ Len(r) = Len(p) + Len(m)
    <3>1. p \in Seq(E) /\ m \in Seq(E)
      BY <1>3, <1>4
    <3>2. QED
      BY <1>6, <3>1
  <2>2. Len(p) + Len(m) = l
    BY <1>2, <1>3, <1>4
  <2>3. QED
    BY <2>1, <2>2
<1>8. ASSUME NEW k \in 1 .. l PROVE r[k] = s[k]
  <2>1. CASE k <= i - 1
    BY <1>2, <1>3, <1>4, <1>6, <2>1
  <2>2. CASE k > i - 1
    <3>1. k - (i - 1) \in 1 .. l - i + 1 /\ i + (k - (i - 1)) - 1 = k
      BY <1>2, <1>8, <2>2
    <3>2. r[k] = m[k - (i - 1)]
      BY <1>2, <1>3, <1>4, <1>6, <2>2, <3>1
    <3>3. QED
      BY <1>4, <3>1, <3>2
  <2>3. QED
    BY <1>2, <2>1, <2>2
<1>9. r = u
  BY <1>5, <1>7, <1>8
<1>10. QED
  BY <1>1, <1>4, <1>6, <1>9

(* A round at an IAC that is not followed by another: one that ends the     *)
(* input stays, a command that is cut off after its second byte makes       *)
(* drain() panic, and every other one is taken out, which leaves the input  *)
(* what it is heard as.                                                     *)
StepsOn(b, d) == Single(d) /\ Telnet(d) = Telnet(b) /\ Len(d) < Len(b)
DrainAt(b, n, i) ==
  \/ i = n /\ Telnet(b).next = "command"
  \/ i < n /\ i + Drained(b[i + 1]) - 1 > n /\ Telnet(b).next = "option"
  \/ /\ i < n /\ i + Drained(b[i + 1]) - 1 <= n
     /\ StepsOn(b, Without(b, i, Drained(b[i + 1])))

LEMMA DrainFollows ==
  ASSUME NEW b, Single(b)
  PROVE  \/ DrainCommand(b) = b /\ Clean(b)
         \/ DrainCommand(b) = b /\ Telnet(b).next = "command"
         \/ DrainCommand(b) = Panicked /\ Telnet(b).next = "option"
         \/ StepsOn(b, DrainCommand(b))
<1>1. b \in Seq(Byte) /\ b \in Bytes
  BY DEF Single, Bytes
<1>2. PICK n \in Nat : n = Len(b)
  BY <1>1
<1>3. CASE Clean(b) /\ DrainCommand(b) = b
  BY <1>3
<1>4. ASSUME NEW i \in 1 .. n, b[i] = IAC, \A j \in 1 .. i - 1 : b[j] # IAC
      PROVE  DrainAt(b, n, i)
  <2>1. PICK p : p = SubSeq(b, 1, i - 1)
    OBVIOUS
  <2>2. p \in Bytes /\ Len(p) = i - 1 /\ \A j \in 1 .. i - 1 : p[j] = b[j]
    <3>1. i - 1 \in 0 .. Len(b)
      BY <1>2
    <3>2. QED
      BY <1>1, <2>1, <3>1, Halves DEF Bytes
  <2>3. PICK t : t = [out |-> p, next |-> "data"]
    OBVIOUS
  <2>4. t \in TelnetState
    BY <2>2, <2>3 DEF TelnetState
  <2>5. Heard(Quiet, p) = t
    <3>1. \A j \in 1 .. Len(p) : p[j] # IAC
      BY <1>4, <2>2
    <3>2. Heard(Quiet, p) = [out |-> Quiet.out \o p, next |-> "data"]
      BY <2>2, <3>1, QuietType, Plain DEF Quiet
    <3>3. Quiet.out \o p = p
      BY <2>2 DEF Quiet, Bytes
    <3>4. QED
      BY <2>3, <3>2, <3>3
  <2>6. ASSUME NEW l \in i .. n
        PROVE  /\ SubSeq(b, i, l) \in Bytes /\ From(b, l + 1) \in Bytes
               /\ Telnet(b) = Heard(Heard(t, SubSeq(b, i, l)), From(b, l + 1))
    <3>1. PICK m, r, u : m = SubSeq(b, i, l) /\ r = From(b, l + 1) /\ u = SubSeq(b, 1, l)
      OBVIOUS
    <3>2. m \in Bytes /\ u = p \o m
      BY <1>1, <1>2, <2>1, <3>1, Thirds DEF Bytes
    <3>3. r \in Bytes /\ u \in Bytes /\ b = u \o r
      <4>1. l \in 0 .. Len(b)
        BY <1>2
      <4>2. /\ SubSeq(b, 1, l) \in Seq(Byte) /\ From(b, l + 1) \in Seq(Byte)
            /\ b = SubSeq(b, 1, l) \o From(b, l + 1)
        BY <1>1, <4>1, Halves
      <4>3. QED
        BY <3>1, <4>2 DEF Bytes
    <3>4. Telnet(b) = Heard(Heard(Quiet, u), r)
      BY <3>3, HeardAll, HeardBoth
    <3>5. Heard(Quiet, u) = Heard(t, m)
      BY <2>2, <2>5, <3>2, HeardBoth
    <3>6. QED
      BY <3>1, <3>2, <3>3, <3>4, <3>5
  <2>8. IAC \in Byte
    BY <1>1, <1>2, <1>4
  <2>7. CASE i = n
    <3>1. i = n
      BY <2>7
    <3>2. SubSeq(b, i, n) = <<IAC>> /\ From(b, n + 1) = <<>>
      <4>1. PICK m, r : m = SubSeq(b, i, n) /\ r = From(b, n + 1)
        OBVIOUS
      <4>2. i \in 1 .. Len(b) + 1 /\ n \in i - 1 .. Len(b) /\ n - i + 1 = 1 /\ i + 1 - 1 = i
        BY <1>2, <3>1
      <4>3. m \in Seq(Byte) /\ Len(m) = 1 /\ m[1] = IAC
        BY <1>1, <1>4, <4>1, <4>2, PartType
      <4>4. r \in Seq(Byte) /\ Len(r) = 0
        <5>1. Len(b) \in 0 .. Len(b) /\ Len(b) - Len(b) = 0
          BY <1>2
        <5>2. From(b, Len(b) + 1) \in Seq(Byte) /\ Len(From(b, Len(b) + 1)) = Len(b) - Len(b)
          BY <1>1, <5>1, Halves
        <5>3. r = From(b, Len(b) + 1)
          BY <1>2, <4>1, Zenon
        <5>4. QED
          BY <5>1, <5>2, <5>3, Zenon
      <4>5. m = <<IAC>> /\ r = <<>>
        BY <4>3, <4>4
      <4>6. QED
        BY <4>1, <4>5
    <3>3. Telnet(b) = Heard(Heard(t, <<IAC>>), <<>>)
      <4>1. n \in i .. n
        BY <1>2
      <4>2. Telnet(b) = Heard(Heard(t, SubSeq(b, i, n)), From(b, n + 1))
        BY <2>6, <4>1
      <4>3. QED
        BY <3>2, <4>2
    <3>4. Telnet(b) = TelnetStep(t, IAC)
      BY <2>4, <2>8, <3>3, HeardNone, HeardOne
    <3>5. TelnetStep(t, IAC) = [t EXCEPT !.next = "command"]
      BY <2>3 DEF TelnetStep
    <3>6. QED
      BY <2>3, <3>1, <3>4, <3>5 DEF DrainAt
  <2>9. SUFFICES ASSUME i < n PROVE DrainAt(b, n, i)
    BY <1>4, <2>7
  <2>10. PICK c \in Byte : c = b[i + 1]
    BY <1>1, <1>2, <2>9
  <2>11. c # IAC
    BY <1>2, <1>4, <2>9, <2>10 DEF Single, Escaped
  <2>12. SubSeq(b, i, i + 1) = <<IAC, c>> /\ i + 1 \in i .. n
    <3>1. PICK m : m = SubSeq(b, i, i + 1)
      OBVIOUS
    <3>2. /\ i \in 1 .. Len(b) + 1 /\ i + 1 \in i - 1 .. Len(b)
          /\ i + 1 - i + 1 = 2 /\ i + 1 - 1 = i /\ i + 2 - 1 = i + 1
      BY <1>2, <2>9
    <3>3. m \in Seq(Byte) /\ Len(m) = 2 /\ m[1] = IAC /\ m[2] = c
      BY <1>1, <1>4, <2>10, <3>1, <3>2, PartType
    <3>4. m = <<IAC, c>>
      BY <3>3
    <3>5. i + 1 \in i .. n
      BY <1>2, <2>9
    <3>6. QED
      BY <3>1, <3>4, <3>5
  <2>13. ASSUME NEW k \in {2, 3}, i + k - 1 <= n, Heard(t, SubSeq(b, i, i + k - 1)) = t
         PROVE  StepsOn(b, Without(b, i, k))
    <3>1. PICK r, d : r = From(b, i + k) /\ d = Without(b, i, k)
      OBVIOUS
    <3>2. i + k - 1 \in i .. n /\ i + k - 1 + 1 = i + k
      BY <2>13
    <3>3. r \in Bytes /\ Telnet(b) = Heard(t, r)
      BY <2>6, <2>13, <3>1, <3>2
    <3>4. d = p \o r
      BY <2>1, <3>1 DEF Without
    <3>5. Telnet(d) = Heard(t, r)
      BY <2>2, <2>5, <3>3, <3>4, HeardAll, HeardBoth
    <3>6. d \in Bytes /\ Len(d) = n - k /\ Len(r) = n - (i + k - 1)
      BY <1>1, <1>2, <2>13, <3>1, WithoutOf DEF Bytes
    <3>7. \A j \in 1 .. n - (i + k - 1) : r[j] = b[i + k - 1 + j]
      <4>1. PICK l \in 0 .. Len(b) : l = i + k - 1 /\ l + 1 = i + k
        BY <1>2, <3>2
      <4>2. \A j \in 1 .. Len(b) - l : From(b, l + 1)[j] = b[l + j]
        BY <1>1, Halves
      <4>3. QED
        BY <1>2, <3>1, <4>1, <4>2, Zenon
    <3>8. ~Escaped(d)
      <4>1. SUFFICES ASSUME NEW j \in 1 .. n - k - 1, d[j] = IAC, d[j + 1] = IAC PROVE FALSE
        BY <1>2, <3>6 DEF Escaped
      <4>2. p \in Seq(Byte) /\ r \in Seq(Byte)
        BY <2>2, <3>3 DEF Bytes
      <4>3. CASE j <= i - 1
        <5>1. j \in 1 .. Len(p) /\ j \in 1 .. i - 1
          BY <2>2, <4>3
        <5>2. (p \o r)[j] = p[j]
          BY <4>2, <5>1
        <5>3. d[j] = b[j]
          BY <2>2, <3>4, <5>1, <5>2
        <5>4. QED
          BY <1>4, <4>1, <5>1, <5>3
      <4>4. CASE j > i - 1
        <5>1. /\ j - (i - 1) \in 1 .. n - (i + k - 1) /\ i + k - 1 + (j - (i - 1)) = j + k
              /\ j + 1 - (i - 1) \in 1 .. n - (i + k - 1)
              /\ i + k - 1 + (j + 1 - (i - 1)) = j + k + 1
          BY <1>2, <2>13, <4>1, <4>4
        <5>2. d[j] = r[j - (i - 1)] /\ d[j + 1] = r[j + 1 - (i - 1)]
          BY <2>2, <3>4, <3>6, <4>2, <4>4, <5>1
        <5>3. d[j] = b[j + k] /\ d[j + 1] = b[j + k + 1]
          BY <3>7, <5>1, <5>2
        <5>4. j + k \in 1 .. Len(b) - 1
          BY <1>2, <4>1
        <5>5. QED
          BY <4>1, <5>3, <5>4 DEF Single, Escaped
      <4>5. QED
        BY <4>3, <4>4
    <3>9. Telnet(d) = Telnet(b) /\ Len(d) < Len(b)
      BY <1>2, <3>3, <3>5, <3>6
    <3>10. QED
      BY <3>1, <3>6, <3>8, <3>9 DEF Single, StepsOn
  <2>14. CASE ~IsOptionCommand(c)
    <3>1. Drained(b[i + 1]) = 2
      BY <2>10, <2>11, <2>14 DEF Drained
    <3>2. Heard(t, <<IAC, c>>) = t
      BY <2>2, <2>3, <2>8, <2>11, <2>14, TwoBytes
    <3>3. i + 2 - 1 = i + 1 /\ i + 2 - 1 <= n
      BY <2>9
    <3>4. QED
      BY <2>9, <2>12, <2>13, <3>1, <3>2, <3>3 DEF DrainAt
  <2>15. CASE IsOptionCommand(c)
    <3>1. Drained(b[i + 1]) = 3
      BY <2>10, <2>11, <2>15 DEF Drained
    <3>2. CASE i + 1 = n
      <4>1. i + 1 = n /\ i + 3 - 1 > n
        BY <2>9, <3>2
      <4>2. From(b, i + 1 + 1) = <<>>
        BY <1>1, <1>2, <4>1 DEF From
      <4>3. Telnet(b) = Heard(Heard(t, <<IAC, c>>), <<>>)
        BY <2>6, <2>12, <4>2
      <4>4. Telnet(b) = [out |-> p, next |-> "option"]
        BY <2>2, <2>3, <2>8, <2>15, <4>3, ThreeBytes, HeardNone
      <4>5. QED
        BY <2>9, <3>1, <4>1, <4>4 DEF DrainAt
    <3>8. SUFFICES ASSUME i + 2 <= n PROVE DrainAt(b, n, i)
      BY <2>9, <3>2
    <3>3. PICK d \in Byte : d = b[i + 2]
      BY <1>1, <1>2, <3>8
    <3>4. SubSeq(b, i, i + 2) = <<IAC, c, d>>
      <4>1. PICK m : m = SubSeq(b, i, i + 2)
        OBVIOUS
      <4>2. /\ i \in 1 .. Len(b) + 1 /\ i + 2 \in i - 1 .. Len(b)
            /\ i + 2 - i + 1 = 3 /\ i + 1 - 1 = i /\ i + 2 - 1 = i + 1 /\ i + 3 - 1 = i + 2
        BY <1>2, <3>8
      <4>3. m \in Seq(Byte) /\ Len(m) = 3 /\ m[1] = IAC /\ m[2] = c /\ m[3] = d
        BY <1>1, <1>4, <2>10, <3>3, <4>1, <4>2, PartType
      <4>4. m = <<IAC, c, d>>
        BY <4>3
      <4>5. QED
        BY <4>1, <4>4
    <3>5. Heard(t, <<IAC, c, d>>) = t
      BY <2>2, <2>3, <2>8, <2>15, ThreeBytes
    <3>6. i + 3 - 1 = i + 2 /\ i + 3 - 1 <= n
      BY <3>8
    <3>7. QED
      BY <2>9, <2>13, <3>1, <3>4, <3>5, <3>6 DEF DrainAt
  <2>16. QED
    BY <2>14, <2>15
<1>5. CASE \E i \in 1 .. Len(b) :
              /\ b[i] = IAC /\ \A j \in 1 .. i - 1 : b[j] # IAC
              /\ \/ i = Len(b) /\ DrainCommand(b) = b
                 \/ /\ i < Len(b) /\ i + Drained(b[i + 1]) - 1 > Len(b)
                    /\ DrainCommand(b) = Panicked
                 \/ /\ i < Len(b) /\ i + Drained(b[i + 1]) - 1 <= Len(b)
                    /\ DrainCommand(b) = Without(b, i, Drained(b[i + 1]))
  <2>1. PICK i \in 1 .. n :
              /\ b[i] = IAC /\ \A j \in 1 .. i - 1 : b[j] # IAC
              /\ \/ i = n /\ DrainCommand(b) = b
                 \/ /\ i < n /\ i + Drained(b[i + 1]) - 1 > n
                    /\ DrainCommand(b) = Panicked
                 \/ /\ i < n /\ i + Drained(b[i + 1]) - 1 <= n
                    /\ DrainCommand(b) = Without(b, i, Drained(b[i + 1]))
    BY <1>2, <1>5
  <2>2. PICK e \in 1 .. 3 : e = Drained(b[i + 1])
    BY DrainedOf
  <2>3. DrainAt(b, n, i)
    BY <1>4, <2>1
  <2>4. QED
    BY <2>1, <2>2, <2>3 DEF DrainAt
<1>6. QED
  BY <1>1, <1>3, <1>5, DrainCases


(* The draining loop does what Telnet does, if the input ends between       *)
(* commands, and drain() panics on exactly the inputs that end inside an    *)
(* option command.                                                          *)
LEMMA CommandsHeard ==
  ASSUME NEW data, Single(data)
  PROVE  /\ HandleTelnetCommands(data) = Panicked <=> Telnet(data).next = "option"
         /\ Telnet(data).next = "data" =>
              /\ HandleTelnetCommands(data) \in Bytes
              /\ HandleTelnetCommands(data) = Telnet(data).out
<1>1. PICK n \in Nat : n = Len(data)
  BY DEF Single, Bytes
<1>2. PICK drain : drain = [b \in Bytes \cup {Panicked} |-> DrainCommand(b)]
  OBVIOUS
<1> DEFINE Done(r, k) == DrainCommand(r) = r \/ Len(r) <= n - k
           Kept(r, k) == \/ r = Panicked /\ Telnet(data).next = "option"
                         \/ Single(r) /\ Telnet(r) = Telnet(data) /\ Done(r, k)
<1>3. PICK T : T = {k \in 0 .. n : Kept(Rounds(drain, data, k), k)}
  OBVIOUS
<1>4. 0 \in T
  <2>1. Rounds(drain, data, 0) = data
    BY RoundsStart
  <2>2. Kept(data, 0)
    BY <1>1
  <2>3. 0 \in 0 .. n
    OBVIOUS
  <2>4. QED
    BY <1>3, <2>1, <2>2, <2>3, Zenon
<1>5. ASSUME NEW k \in 0 .. n - 1, k \in T PROVE k + 1 \in T
  <2>1. PICK r, d : r = Rounds(drain, data, k) /\ d = DrainCommand(r)
    OBVIOUS
  <2>2. Kept(r, k)
    BY <1>3, <1>5, <2>1
  <2>3. r \in Bytes \cup {Panicked}
    BY <2>2 DEF Single
  <2>4. drain[r] = d
    BY <1>2, <2>1, <2>3
  <2>5. Rounds(drain, data, k + 1) = d
    <3>1. k \in Nat
      OBVIOUS
    <3>2. QED
      BY <2>1, <2>4, <3>1, RoundsStep
  <2>6. Kept(d, k + 1)
    <3>1. CASE r = Panicked /\ Telnet(data).next = "option"
      <4>1. d = Panicked
        BY <2>1, <3>1 DEF DrainCommand
      <4>2. QED
        BY <3>1, <4>1
    <3>2. CASE Single(r) /\ Telnet(r) = Telnet(data) /\ Done(r, k)
      <4>1. CASE d = r
        BY <2>1, <3>2, <4>1
      <4>2. CASE d = Panicked /\ Telnet(r).next = "option"
        BY <3>2, <4>2
      <4>3. CASE StepsOn(r, d) /\ d # r
        <5>1. Len(r) \in Nat /\ Len(d) \in Nat
          BY <3>2, <4>3 DEF Single, StepsOn, Bytes
        <5>2. Len(d) <= n - (k + 1)
          BY <2>1, <3>2, <4>3, <5>1 DEF StepsOn
        <5>3. QED
          BY <3>2, <4>3, <5>2 DEF StepsOn
      <4>4. QED
        BY <2>1, <3>2, <4>1, <4>2, <4>3, DrainFollows
    <3>3. QED
      BY <2>2, <3>1, <3>2
  <2>7. k + 1 \in 0 .. n
    OBVIOUS
  <2>8. QED
    BY <1>3, <2>5, <2>6, <2>7, Zenon
<1>6. n \in T
  BY <1>4, <1>5, Upward
<1>7. PICK r : r = Rounds(drain, data, n)
  OBVIOUS
<1>8. Kept(r, n) /\ HandleTelnetCommands(data) = r
  BY <1>1, <1>2, <1>3, <1>6, <1>7 DEF HandleTelnetCommands
<1>9. CASE r = Panicked /\ Telnet(data).next = "option"
  BY <1>8, <1>9
<1>10. CASE Single(r) /\ Telnet(r) = Telnet(data) /\ Done(r, n)
  <2>1. r \in Bytes /\ Len(r) \in Nat /\ r # Panicked
    BY <1>10, ByteAssumption DEF Single, Bytes
  <2>2. DrainCommand(r) = r
    <3>1. CASE Len(r) = 0
      BY <2>1, <3>1, DrainCases
    <3>2. QED
      BY <1>10, <2>1, <3>1
  <2>3. Clean(r) \/ Telnet(r).next = "command"
    BY <1>10, <2>1, <2>2, DrainFollows DEF StepsOn
  <2>4. CASE Telnet(r).next = "command"
    BY <1>8, <1>10, <2>1, <2>4
  <2>5. CASE Clean(r)
    <3>1. Heard(Quiet, r) = [out |-> <<>> \o r, next |-> "data"]
      BY <2>1, <2>5, QuietType, Plain DEF Quiet, Clean
    <3>2. <<>> \o r = r
      BY <2>1 DEF Bytes
    <3>3. Telnet(data).out = r /\ Telnet(data).next = "data"
      BY <1>10, <3>1, <3>2, HeardAll
    <3>4. QED
      BY <1>8, <2>1, <3>3
  <2>6. QED
    BY <2>3, <2>4, <2>5
<1>11. QED
  BY <1>8, <1>9, <1>10


(* What was heard before only stands in front of what is heard.             *)
Past(o, t) == [out |-> o \o t.out, next |-> t.next]

LEMMA StepAfter ==
  ASSUME NEW o \in Bytes, NEW t \in TelnetState, NEW b \in Byte
  PROVE  TelnetStep(Past(o, t), b) = Past(o, TelnetStep(t, b))
<1>1. PICK q \in Seq(Byte), x \in {"data", "command", "option"} : t = [out |-> q, next |-> x]
  BY DEF TelnetState, Bytes
<1>2. PICK w, v, u : w = o \o q /\ v = Append(q, b) /\ u = Append(w, b)
  OBVIOUS
<1>3. o \o v = u
  BY <1>2 DEF Bytes
<1>4. PICK p : p = Past(o, t)
  OBVIOUS
<1>5. p = [out |-> w, next |-> x]
  BY <1>1, <1>2, <1>4 DEF Past
<1>6. CASE x = "data" /\ b = IAC
  <2>1. /\ TelnetStep(t, b) = [out |-> q, next |-> "command"]
        /\ TelnetStep(p, b) = [out |-> w, next |-> "command"]
    BY <1>1, <1>5, <1>6 DEF TelnetStep
  <2>2. QED
    BY <1>2, <1>4, <2>1 DEF Past
<1>7. CASE x = "data" /\ b # IAC
  <2>1. TelnetStep(t, b) = [out |-> v, next |-> "data"]
    BY <1>1, <1>2, <1>7 DEF TelnetStep
  <2>2. TelnetStep(p, b) = [out |-> u, next |-> "data"]
    BY <1>2, <1>5, <1>7 DEF TelnetStep
  <2>3. Past(o, [out |-> v, next |-> "data"]) = [out |-> u, next |-> "data"]
    BY <1>3 DEF Past
  <2>4. QED
    BY <1>4, <2>1, <2>2, <2>3, Zenon
<1>8. CASE x = "command" /\ b = IAC
  <2>1. TelnetStep(t, b) = [out |-> v, next |-> "data"]
    BY <1>1, <1>2, <1>8 DEF TelnetStep, IsOptionCommand, IAC
  <2>2. TelnetStep(p, b) = [out |-> u, next |-> "data"]
    BY <1>2, <1>5, <1>8 DEF TelnetStep, IsOptionCommand, IAC
  <2>3. Past(o, [out |-> v, next |-> "data"]) = [out |-> u, next |-> "data"]
    BY <1>3 DEF Past
  <2>4. QED
    BY <1>4, <2>1, <2>2, <2>3, Zenon
<1>9. CASE x = "command" /\ b # IAC /\ IsOptionCommand(b)
  <2>1. /\ TelnetStep(t, b) = [out |-> q, next |-> "option"]
        /\ TelnetStep(p, b) = [out |-> w, next |-> "option"]
    BY <1>1, <1>5, <1>9 DEF TelnetStep
  <2>2. QED
    BY <1>2, <1>4, <2>1 DEF Past
<1>10. CASE x = "option" \/ (x = "command" /\ b # IAC /\ ~IsOptionCommand(b))
  <2>1. /\ TelnetStep(t, b) = [out |-> q, next |-> "data"]
        /\ TelnetStep(p, b) = [out |-> w, next |-> "data"]
    BY <1>1, <1>5, <1>10 DEF TelnetStep
  <2>2. QED
    BY <1>2, <1>4, <2>1 DEF Past
<1>11. QED
  BY <1>4, <1>6, <1>7, <1>8, <1>9, <1>10

LEMMA HeardAfter ==
  ASSUME NEW o \in Bytes, NEW t \in TelnetState, NEW s \in Bytes
  PROVE  Heard(Past(o, t), s) = Past(o, Heard(t, s))
<1>1. PICK h : h = [x \in TelnetState |-> Past(o, x)]
  OBVIOUS
<1>2. ASSUME NEW b \in Byte, NEW x \in TelnetState PROVE TelnetMap[b][h[x]] = h[TelnetMap[b][x]]
  <2>1. Past(o, x) \in TelnetState
    BY DEF Past, TelnetState, Bytes
  <2>2. TelnetMap[b][Past(o, x)] = TelnetStep(Past(o, x), b)
    BY <2>1 DEF TelnetMap
  <2>3. TelnetMap[b][x] = TelnetStep(x, b)
    BY DEF TelnetMap
  <2>4. TelnetStep(x, b) \in TelnetState
    BY StepType
  <2>5. QED
    BY <1>1, <2>2, <2>3, <2>4, StepAfter
<1>3. Over(TelnetMap, h[t], s) = h[Over(TelnetMap, t, s)]
  <2>1. s \in Seq(Byte)
    BY DEF Bytes
  <2>2. PICK map : map = TelnetMap
    OBVIOUS
  <2>3. /\ map \in [Byte -> [TelnetState -> TelnetState]]
        /\ Neutral(h, map, Byte, TelnetState)
    BY <1>2, <2>2, MapType DEF Neutral
  <2>4. Over(map, h[t], s) = h[Over(map, t, s)]
    BY <2>1, <2>3, OverSame
  <2>5. QED
    BY <2>2, <2>4
<1>4. QED
  BY <1>1, <1>3, HeardType DEF Heard

(* Two chunks, of which the first ends outside of a command.                *)
LEMMA TelnetBoth ==
  ASSUME NEW s \in Bytes, NEW u \in Bytes, Telnet(s).next = "data"
  PROVE  /\ Telnet(s).out \in Bytes /\ Telnet(u).out \in Bytes
         /\ Telnet(s \o u).out = Telnet(s).out \o Telnet(u).out
         /\ Telnet(s \o u).next = Telnet(u).next
<1>1. PICK t, v : t = Telnet(s) /\ v = Telnet(u)
  OBVIOUS
<1>2. t \in TelnetState /\ v \in TelnetState
  BY <1>1, QuietType, HeardType, HeardAll
<1>3. PICK o \in Bytes : o = t.out /\ t = [out |-> o, next |-> "data"]
  BY <1>1, <1>2 DEF TelnetState
<1>4. t = Past(o, Quiet)
  <2>1. o \o <<>> = o
    BY <1>3 DEF Bytes
  <2>2. QED
    BY <1>3, <2>1 DEF Past, Quiet
<1>5. Telnet(s \o u) = Heard(t, u)
  BY <1>1, HeardAll, HeardBoth
<1>6. Heard(Past(o, Quiet), u) = Past(o, Heard(Quiet, u))
  BY <1>3, QuietType, HeardAfter
<1>7. Telnet(s \o u) = Past(o, v)
  BY <1>1, <1>4, <1>5, <1>6, HeardAll
<1>8. QED
  BY <1>1, <1>2, <1>3, <1>7 DEF Past, TelnetState



-----------------------------------------------------------------------------
(* read_line: what is split off is a first part of the buffer.              *)
EndsAt(s, e, x) ==
  /\ Found(s, e) /\ s[e + 1] = LF
  /\ \A k \in 1 .. e - 1 : ~(Found(s, k) /\ s[k + 1] = LF)
  /\ x = Max({0} \cup {j + 1 : j \in {j \in 1 .. e - 1 : Found(s, j)}})
  /\ x <= e /\ LineEnd(s) = e - x + 1

LEMMA EndOf ==
  ASSUME NEW s \in Bytes
  PROVE  \/ LineEnd(s) = 0 /\ \A k \in 1 .. Len(s) - 1 : ~(Found(s, k) /\ s[k + 1] = LF)
         \/ \E e \in 1 .. Len(s) - 1, x \in Nat : EndsAt(s, e, x)
<1>1. PICK n \in Nat : n = Len(s)
  BY DEF Bytes
<1>2. PICK E : E = {k \in 1 .. n - 1 : Found(s, k) /\ s[k + 1] = LF}
  OBVIOUS
<1>3. CASE E = {}
  <2>1. LineEnd(s) = 0
    BY <1>1, <1>2, <1>3 DEF LineEnd
  <2>2. QED
    BY <1>1, <1>2, <1>3, <2>1
<1>4. CASE E # {}
  <2>1. E \subseteq Nat
    BY <1>2
  <2>2. PICK e \in E : e = Min(E) /\ \A k \in E : e <= k
    BY <1>4, <2>1, MinOf
  <2>3. e \in 1 .. n - 1 /\ Found(s, e) /\ s[e + 1] = LF
    BY <1>2
  <2>4. \A k \in 1 .. e - 1 : ~(Found(s, k) /\ s[k + 1] = LF)
    BY <1>2, <2>2, <2>3
  <2>5. PICK X : X = {0} \cup {j + 1 : j \in {j \in 1 .. e - 1 : Found(s, j)}}
    OBVIOUS
  <2>6. X \subseteq 0 .. e /\ X # {} /\ e \in Nat
    BY <2>3, <2>5
  <2>7. Max(X) \in 0 .. e
    BY <2>6, MaxOf
  <2>8. LineEnd(s) = e - Max(X) + 1
    BY <1>1, <1>2, <1>4, <2>2, <2>5 DEF LineEnd
  <2>9. EndsAt(s, e, Max(X))
    BY <2>3, <2>4, <2>5, <2>7, <2>8 DEF EndsAt
  <2>10. QED
    BY <1>1, <2>3, <2>7, <2>9
<1>5. QED
  BY <1>3, <1>4

LEMMA EndType == ASSUME NEW s \in Bytes PROVE LineEnd(s) \in 0 .. Len(s)
<1>1. Len(s) \in Nat
  BY DEF Bytes
<1>2. ASSUME NEW e \in 1 .. Len(s) - 1, NEW x \in Nat, x <= e, LineEnd(s) = e - x + 1
      PROVE  LineEnd(s) \in 0 .. Len(s)
  BY <1>1, <1>2
<1>3. CASE LineEnd(s) = 0
  BY <1>1, <1>3
<1>4. QED
  BY <1>2, <1>3, EndOf DEF EndsAt

LEMMA RuboutType ==
  ASSUME NEW l \in Bytes
  PROVE  RuboutFirst(l) \in Bytes /\ Part(RuboutFirst(l), l)
<1>1. PICK n \in Nat : n = Len(l) /\ l \in Seq(Byte)
  BY DEF Bytes
<1>2. PICK I : I = {i \in 1 .. n : l[i] = BS}
  OBVIOUS
<1>3. PICK i : i = IF I # {} THEN Min(I) ELSE 0
  OBVIOUS
<1>4. SelectInSeq(l, LAMBDA x : x = BS) = i
  BY <1>1, <1>2, <1>3 DEF SelectInSeq
<1>5. RuboutFirst(l) = IF i = 0 THEN l ELSE Rubout(l, i)
  BY <1>4 DEF RuboutFirst
<1>6. CASE I = {}
  BY <1>3, <1>5, <1>6, PartSelf
<1>7. CASE I # {}
  <2>1. I \subseteq Nat
    BY <1>2
  <2>2. i \in 1 .. n
    BY <1>2, <1>3, <1>7, <2>1, MinOf
  <2>3. RuboutFirst(l) = Rubout(l, i)
    BY <1>5, <2>2
  <2>4. CASE i = 1
    <3>1. Rubout(l, i) = Tail(l)
      BY <2>4 DEF Rubout
    <3>2. Tail(l) = From(l, 2)
      BY <1>1, <2>2 DEF From
    <3>3. From(l, 2) \in Bytes /\ Part(From(l, 2), l)
      <4>1. 1 \in 0 .. Len(l) /\ 1 + 1 = 2
        BY <1>1, <2>2
      <4>2. From(l, 1 + 1) \in Bytes /\ Part(From(l, 1 + 1), l)
        BY <4>1, PartFirst
      <4>3. QED
        BY <4>1, <4>2, Zenon
    <3>4. QED
      BY <2>3, <3>1, <3>2, <3>3, Zenon
  <2>5. CASE i # 1
    <3>1. PICK j \in 1 .. n : j = i - 1 /\ j + 1 <= n
      BY <2>2, <2>5
    <3>2. Rubout(l, i) = Without(l, j, 2)
      BY <2>5, <3>1 DEF Rubout
    <3>3. Without(l, j, 2) \in Bytes /\ Part(Without(l, j, 2), l)
      <4>1. j + 2 - 1 <= Len(l) /\ j \in 1 .. Len(l)
        BY <1>1, <3>1
      <4>2. QED
        BY <4>1, PartWithout
    <3>4. QED
      BY <2>3, <3>2, <3>3, Zenon
  <2>6. QED
    BY <2>4, <2>5
<1>8. QED
  BY <1>6, <1>7

LEMMA BackspacesType ==
  ASSUME NEW l \in Bytes
  PROVE  ProcessBackspaces(l) \in Bytes /\ Part(ProcessBackspaces(l), l)
<1>1. PICK n \in Nat : n = Len(l)
  BY DEF Bytes
<1>2. PICK rub : rub = [x \in Bytes |-> RuboutFirst(x)]
  OBVIOUS
<1>3. PICK T : T = {k \in 0 .. n : /\ Rounds(rub, l, k) \in Bytes
                                   /\ Part(Rounds(rub, l, k), l)}
  OBVIOUS
<1>4. 0 \in T
  <2>1. Rounds(rub, l, 0) = l
    BY RoundsStart
  <2>2. QED
    BY <1>1, <1>3, <2>1, PartSelf
<1>5. ASSUME NEW k \in 0 .. n - 1, k \in T PROVE k + 1 \in T
  <2>1. PICK r : r = Rounds(rub, l, k)
    OBVIOUS
  <2>2. r \in Bytes /\ Part(r, l)
    BY <1>3, <1>5, <2>1
  <2>3. k \in Nat /\ k + 1 \in 0 .. n
    OBVIOUS
  <2>4. Rounds(rub, l, k + 1) = RuboutFirst(r)
    BY <1>2, <2>1, <2>2, <2>3, RoundsStep
  <2>5. RuboutFirst(r) \in Bytes /\ Part(RuboutFirst(r), r)
    BY <2>2, RuboutType
  <2>6. Part(RuboutFirst(r), l)
    BY <2>2, <2>5, PartOfPart
  <2>7. QED
    BY <1>3, <2>3, <2>4, <2>5, <2>6
<1>6. n \in T
  BY <1>4, <1>5, Upward
<1>7. QED
  BY <1>1, <1>2, <1>3, <1>6 DEF ProcessBackspaces

LEMMA ReadLineType ==
  ASSUME NEW s \in Bytes
  PROVE  /\ ReadLine(s).line \in Bytes /\ ReadLine(s).rest \in Bytes
         /\ Len(ReadLine(s).rest) = Len(s) - LineEnd(s)
         /\ Part(ReadLine(s).line \o ReadLine(s).rest, s) /\ Part(ReadLine(s).rest, s)
         /\ LineEnd(s) = 0 => ReadLine(s).line = <<>> /\ ReadLine(s).rest = s
<1>1. PICK m \in Nat : m = Len(s) /\ s \in Seq(Byte)
  BY DEF Bytes
<1>2. PICK n \in 0 .. m : n = LineEnd(s)
  BY <1>1, EndType
<1>3. PICK p, q : p = SubSeq(s, 1, n) /\ q = From(s, n + 1)
  OBVIOUS
<1>4. p \in Bytes /\ Len(p) = n /\ q \in Bytes /\ Len(q) = m - n
  <2>1. p \in Seq(Byte) /\ Len(p) = n /\ q \in Seq(Byte) /\ Len(q) = m - n
    BY <1>1, <1>3, Halves
  <2>2. QED
    BY <2>1 DEF Bytes
<1>5. ReadLine(s).line = ProcessBackspaces(p) /\ ReadLine(s).rest = q
  BY <1>2, <1>3 DEF ReadLine
<1>6. PICK l \in Bytes : l = ProcessBackspaces(p) /\ Part(l, p)
  BY <1>4, BackspacesType
<1>7. n = 0 => l = <<>>
  <2>1. SUFFICES ASSUME n = 0 PROVE l = <<>>
    OBVIOUS
  <2>2. PICK f : \A i \in 1 .. Len(l) : f[i] \in 1 .. n
    BY <1>4, <1>6 DEF Part, Places
  <2>3. Len(l) \in Nat /\ 1 \notin 1 .. Len(l)
    BY <1>6, <2>1, <2>2 DEF Bytes
  <2>4. QED
    BY <1>6, <2>3 DEF Bytes
<1>8. n = 0 => q = s
  <2>1. From(s, 1) = s
    BY <1>1 DEF From
  <2>2. QED
    BY <1>3, <2>1
<1>9. s = p \o q /\ Part(q, s)
  <2>1. n \in 0 .. Len(s)
    BY <1>1
  <2>2. s = SubSeq(s, 1, n) \o From(s, n + 1) /\ Part(From(s, n + 1), s)
    BY <2>1, PartFirst
  <2>3. QED
    BY <1>3, <2>2, Zenon
<1>10. Part(l \o q, p \o q)
  <2>1. Part(q, q)
    BY <1>4, PartSelf
  <2>2. QED
    BY <1>4, <1>6, <2>1, PartBoth
<1>11. QED
  BY <1>1, <1>2, <1>4, <1>5, <1>6, <1>7, <1>8, <1>9, <1>10

LEMMA StrippedType ==
  ASSUME NEW l \in Bytes
  PROVE  Stripped(l) \in Bytes /\ Part(Stripped(l), l)
<1>1. PICK n \in Nat : n = Len(l) /\ l \in Seq(Byte)
  BY DEF Bytes
<1>2. CASE n >= 2
  <2>1. n - 2 \in 0 .. Len(l)
    BY <1>1, <1>2
  <2>2. QED
    BY <1>1, <2>1, PartFirst DEF Stripped
<1>3. CASE n < 2
  <2>1. Stripped(l) = <<>>
    BY <1>1, <1>3 DEF Stripped
  <2>2. <<>> \in Bytes
    BY DEF Bytes
  <2>3. QED
    BY <2>1, <2>2, PartNone
<1>4. QED
  BY <1>1, <1>2, <1>3



-----------------------------------------------------------------------------
(* The loop that delivers lines.                                            *)
Delivery == [t \in Progress |-> Deliver(t)]
After(s, m) == Rounds(Delivery, Begin(s), m)

LEMMA DeliverType ==
  ASSUME NEW t \in Progress
  PROVE  /\ Deliver(t) \in Progress
         /\ Deliver(t).rest = ReadLine(t.rest).rest
         /\ \/ Deliver(t).lines = t.lines
            \/ \E l \in Bytes : /\ Deliver(t).lines = Append(t.lines, l)
                                /\ Part(l \o Deliver(t).rest, t.rest)
<1>1. t.lines \in Seq(Bytes) /\ t.rest \in Bytes
  BY DEF Progress
<1>2. PICK l, q : l = ReadLine(t.rest).line /\ q = ReadLine(t.rest).rest
  OBVIOUS
<1>3. l \in Bytes /\ q \in Bytes /\ Part(l \o q, t.rest)
  BY <1>1, <1>2, ReadLineType
<1>4. PICK r, d : r = Stripped(l) /\ d = Deliver(t)
  OBVIOUS
<1>5. r \in Bytes /\ Part(r, l)
  BY <1>3, <1>4, StrippedType
<1>6. d = [lines |-> IF l = <<>> THEN t.lines ELSE Append(t.lines, r),
           rest |-> q, more |-> l # <<>>]
  BY <1>2, <1>4 DEF Deliver
<1>7. Append(t.lines, r) \in Seq(Bytes)
  BY <1>1, <1>5
<1>8. d \in Progress /\ d.rest = q
  BY <1>1, <1>3, <1>6, <1>7 DEF Progress
<1>9. Part(r \o q, t.rest)
  <2>1. Part(r \o q, l \o q)
    <3>1. Part(q, q)
      BY <1>3, PartSelf
    <3>2. QED
      BY <1>3, <1>5, <3>1, PartBoth
  <2>2. r \o q \in Bytes /\ l \o q \in Bytes
    BY <1>3, <1>5, ConcatOf
  <2>3. QED
    BY <1>1, <1>3, <2>1, <2>2, PartOfPart
<1>10. d.lines = t.lines \/ (d.lines = Append(t.lines, r) /\ Part(r \o d.rest, t.rest))
  BY <1>6, <1>8, <1>9
<1>11. QED
  BY <1>2, <1>4, <1>5, <1>8, <1>10

LEMMA BeginType == ASSUME NEW s \in Bytes PROVE Begin(s) \in Progress
BY DEF Begin, Progress

LEMMA AfterNone == ASSUME NEW s PROVE After(s, 0) = Begin(s)
BY RoundsStart DEF After

LEMMA AfterType ==
  ASSUME NEW s \in Bytes, NEW m \in Nat PROVE After(s, m) \in Progress
<1>1. Delivery \in [Progress -> Progress]
  BY DeliverType DEF Delivery
<1>2. QED
  BY <1>1, BeginType, RoundsType DEF After

LEMMA AfterNext ==
  ASSUME NEW s \in Bytes, NEW m \in Nat
  PROVE  After(s, m + 1) = Deliver(After(s, m))
<1>1. After(s, m + 1) = Delivery[After(s, m)]
  BY RoundsStep DEF After
<1>2. QED
  BY <1>1, AfterType DEF Delivery

(* Comes(s, ls, b): the lines ls can be taken from s, and leave b.          *)
Comes(s, ls, b) == \E m \in Nat : After(s, m).lines = ls /\ After(s, m).rest = b

LEMMA ComesFirst == ASSUME NEW s \in Bytes PROVE Comes(s, <<>>, s)
<1>1. After(s, 0).lines = <<>> /\ After(s, 0).rest = s
  BY AfterNone DEF Begin
<1>2. QED
  BY <1>1 DEF Comes

(* What Deliver makes of the lines before, and of the rest.                 *)
LEMMA DeliverOf ==
  ASSUME NEW t
  PROVE  /\ Deliver(t).lines = IF ReadLine(t.rest).line = <<>> THEN t.lines
                               ELSE Append(t.lines, Stripped(ReadLine(t.rest).line))
         /\ Deliver(t).rest = ReadLine(t.rest).rest
         /\ Deliver(t).more = (ReadLine(t.rest).line # <<>>)
BY DEF Deliver

LEMMA ComesType ==
  ASSUME NEW s \in Bytes, NEW ls, NEW b, Comes(s, ls, b)
  PROVE  ls \in Seq(Bytes) /\ b \in Bytes
<1>1. PICK m \in Nat : After(s, m).lines = ls /\ After(s, m).rest = b
  BY DEF Comes
<1>2. After(s, m) \in Progress
  BY AfterType
<1>3. QED
  BY <1>1, <1>2 DEF Progress

LEMMA ComesNext ==
  ASSUME NEW s \in Bytes, NEW ls, NEW b, Comes(s, ls, b)
  PROVE  Comes(s, IF ReadLine(b).line = <<>> THEN ls ELSE Append(ls, Stripped(ReadLine(b).line)),
                  ReadLine(b).rest)
<1>1. PICK m \in Nat : After(s, m).lines = ls /\ After(s, m).rest = b
  BY DEF Comes
<1>2. PICK t : t = After(s, m)
  OBVIOUS
<1>3. After(s, m + 1) = Deliver(t) /\ m + 1 \in Nat
  BY <1>2, AfterNext
<1>4. QED
  BY <1>1, <1>2, <1>3, DeliverOf DEF Comes


-----------------------------------------------------------------------------
(* A line that is complete stays so when more is received.                  *)
LEMMA FoundSame ==
  ASSUME NEW s \in Bytes, NEW c \in Bytes, NEW k \in 1 .. Len(s)
  PROVE  Found(s \o c, k) = Found(s, k)
<1>0. s \in Seq(Byte) /\ c \in Seq(Byte) /\ Len(s) \in Nat
  BY DEF Bytes
<1>1. PICK u, n : u = s \o c /\ n = Len(s)
  OBVIOUS
<1>2. \A i \in 1 .. k : u[i] = s[i]
  BY <1>0, <1>1
<1>3. PICK I : I = {i \in 1 .. k : s[i] # CR}
  OBVIOUS
<1>4. I = {i \in 1 .. k : u[i] # CR}
  BY <1>2, <1>3
<1>5. PICK x : x = IF I # {} THEN Max(I) ELSE 0
  OBVIOUS
<1>6. SelectLastInSubSeq(s, 1, k, LAMBDA y : y # CR) = x
  BY <1>3, <1>5 DEF SelectLastInSubSeq
<1>7. SelectLastInSubSeq(u, 1, k, LAMBDA y : y # CR) = x
  BY <1>4, <1>5 DEF SelectLastInSubSeq
<1>8. k \in 1 .. k
  BY <1>0
<1>9. u[k] = s[k]
  BY <1>2, <1>8
<1>10. QED
  BY <1>1, <1>6, <1>7, <1>9 DEF Found

LEMMA EndSame ==
  ASSUME NEW s \in Bytes, NEW c \in Bytes, LineEnd(s) # 0
  PROVE  LineEnd(s \o c) = LineEnd(s)
<1>0. PICK n, u, m : u = s \o c /\ n = Len(s) /\ m = Len(u)
  OBVIOUS
<1>1. /\ u = s \o c /\ n = Len(s) /\ m = Len(u)
      /\ n \in Nat /\ m \in Nat /\ n <= m
  <2>1. s \in Seq(Byte) /\ c \in Seq(Byte)
    BY DEF Bytes
  <2>2. n \in Nat /\ Len(c) \in Nat /\ m = n + Len(c)
    BY <1>0, <2>1
  <2>3. QED
    BY <1>0, <2>2
<1>2. PICK e \in 1 .. n - 1, x \in Nat : EndsAt(s, e, x)
  BY <1>1, EndOf
<1>3. \A k \in 1 .. n : Found(u, k) = Found(s, k)
  BY <1>1, FoundSame
<1>4. \A k \in 1 .. n : u[k] = s[k]
  BY <1>1 DEF Bytes
<1>5. Found(u, e) /\ u[e + 1] = LF
  <2>1. e \in 1 .. n /\ e + 1 \in 1 .. n
    BY <1>1
  <2>2. QED
    BY <1>2, <1>3, <1>4, <2>1 DEF EndsAt
<1>6. \A k \in 1 .. e - 1 : ~(Found(u, k) /\ u[k + 1] = LF)
  <2>1. \A k \in 1 .. e - 1 : k \in 1 .. n /\ k + 1 \in 1 .. n
    BY <1>1
  <2>2. QED
    BY <1>2, <1>3, <1>4, <2>1 DEF EndsAt
<1>7. u \in Bytes
  BY <1>1 DEF Bytes
<1>8. LineEnd(u) # 0
  <2>1. e \in 1 .. Len(u) - 1
    BY <1>1
  <2>2. PICK f \in 1 .. Len(u) - 1, y \in Nat : EndsAt(u, f, y)
    BY <1>5, <1>7, <2>1, EndOf
  <2>3. QED
    BY <2>2 DEF EndsAt
<1>9. PICK f \in 1 .. m - 1, y \in Nat : EndsAt(u, f, y)
  BY <1>1, <1>7, <1>8, EndOf
<1>10. e = f
  <2>1. ~(f < e)
    <3>1. SUFFICES ASSUME f < e PROVE FALSE
      OBVIOUS
    <3>2. f \in 1 .. e - 1
      BY <3>1
    <3>3. QED
      BY <1>6, <1>9, <3>2 DEF EndsAt
  <2>2. ~(e < f)
    <3>1. SUFFICES ASSUME e < f PROVE FALSE
      OBVIOUS
    <3>2. e \in 1 .. f - 1
      BY <3>1
    <3>3. QED
      BY <1>5, <1>9, <3>2 DEF EndsAt
  <2>3. QED
    BY <2>1, <2>2
<1>11. {j \in 1 .. e - 1 : Found(s, j)} = {j \in 1 .. f - 1 : Found(u, j)}
  <2>1. \A j \in 1 .. e - 1 : j \in 1 .. n
    BY <1>1
  <2>2. QED
    BY <1>3, <1>10, <2>1
<1>12. x = y
  BY <1>2, <1>9, <1>11 DEF EndsAt
<1>13. QED
  BY <1>1, <1>2, <1>9, <1>10, <1>12 DEF EndsAt

LEMMA ReadLineSame ==
  ASSUME NEW s \in Bytes, NEW c \in Bytes, LineEnd(s) # 0
  PROVE  ReadLine(s \o c).line = ReadLine(s).line /\ ReadLine(s \o c).rest = ReadLine(s).rest \o c
<1>1. s \in Seq(Byte) /\ c \in Seq(Byte)
  BY DEF Bytes
<1>2. PICK n \in 0 .. Len(s) : n = LineEnd(s) /\ LineEnd(s \o c) = n
  BY EndType, EndSame
<1>3. /\ SubSeq(s \o c, 1, n) = SubSeq(s, 1, n)
      /\ From(s \o c, n + 1) = From(s, n + 1) \o c
  BY <1>1, SplitSame
<1>4. QED
  BY <1>2, <1>3 DEF ReadLine

(* What came of a text comes of a longer one too.                           *)
LEMMA ComesMore ==
  ASSUME NEW s \in Bytes, NEW c \in Bytes, NEW ls, NEW b, Comes(s, ls, b)
  PROVE  Comes(s \o c, ls, b \o c)
<1>1. PICK m \in Nat : After(s, m).lines = ls /\ After(s, m).rest = b
  BY DEF Comes
<1>2. PICK u : u = s \o c
  OBVIOUS
<1>3. u \in Bytes
  BY <1>2 DEF Bytes
<1>4. PICK T : T = {k \in 0 .. m : Comes(u, After(s, k).lines, After(s, k).rest \o c)}
  OBVIOUS
<1>5. 0 \in T
  <2>1. After(s, 0).lines = <<>> /\ After(s, 0).rest = s
    BY AfterNone DEF Begin
  <2>2. Comes(u, <<>>, s \o c)
    BY <1>2, <1>3, ComesFirst
  <2>3. QED
    BY <1>4, <2>1, <2>2
<1>6. ASSUME NEW k \in 0 .. m - 1, k \in T PROVE k + 1 \in T
  <2>1. k \in Nat /\ k + 1 \in 0 .. m
    OBVIOUS
  <2>2. PICK t, d : t = After(s, k) /\ d = After(s, k + 1)
    OBVIOUS
  <2>3. t \in Progress /\ d = Deliver(t)
    BY <2>1, <2>2, AfterType, AfterNext
  <2>4. t.rest \in Bytes
    BY <2>3 DEF Progress
  <2>5. Comes(u, t.lines, t.rest \o c)
    BY <1>4, <1>6, <2>2
  <2>6. Comes(u, d.lines, d.rest \o c)
    <3>1. CASE LineEnd(t.rest) = 0
      <4>1. ReadLine(t.rest).line = <<>> /\ ReadLine(t.rest).rest = t.rest
        BY <2>4, <3>1, ReadLineType
      <4>2. d.lines = t.lines /\ d.rest = t.rest
        BY <2>3, <4>1, DeliverOf
      <4>3. QED
        BY <2>5, <4>2
    <3>2. CASE LineEnd(t.rest) # 0
      <4>1. PICK l, q : l = ReadLine(t.rest).line /\ q = ReadLine(t.rest).rest
        OBVIOUS
      <4>2. ReadLine(t.rest \o c).line = l /\ ReadLine(t.rest \o c).rest = q \o c
        BY <2>4, <3>2, <4>1, ReadLineSame
      <4>3. Comes(u, IF l = <<>> THEN t.lines ELSE Append(t.lines, Stripped(l)), q \o c)
        BY <1>3, <2>5, <4>2, ComesNext
      <4>4. d.lines = (IF l = <<>> THEN t.lines ELSE Append(t.lines, Stripped(l))) /\ d.rest = q
        BY <2>3, <4>1, DeliverOf
      <4>5. QED
        BY <4>3, <4>4
    <3>3. QED
      BY <3>1, <3>2
  <2>7. QED
    BY <1>4, <2>1, <2>2, <2>6
<1>7. m \in T
  BY <1>5, <1>6, Upward
<1>8. QED
  BY <1>1, <1>2, <1>4, <1>7

(* The inner loop of do_rx_process_thread.                                  *)
Loop == [t \in Progress |-> IF t.more THEN Deliver(t) ELSE t]
Looped(s, k) == Rounds(Loop, Begin(s), k)

LEMMA LoopedType ==
  ASSUME NEW s \in Bytes, NEW k \in Nat PROVE Looped(s, k) \in Progress
<1>1. Loop \in [Progress -> Progress]
  BY DeliverType DEF Loop
<1>2. QED
  BY <1>1, BeginType, RoundsType DEF Looped

LEMMA LoopedNone == ASSUME NEW s PROVE Looped(s, 0) = Begin(s)
BY RoundsStart DEF Looped

LEMMA LoopedNext ==
  ASSUME NEW s \in Bytes, NEW k \in Nat
  PROVE  Looped(s, k + 1) = IF Looped(s, k).more THEN Deliver(Looped(s, k)) ELSE Looped(s, k)
<1>1. Looped(s, k + 1) = Loop[Looped(s, k)]
  BY RoundsStep DEF Looped
<1>2. QED
  BY <1>1, LoopedType DEF Loop

LEMMA LoopedAll == ASSUME NEW s PROVE ReadLines(s) = Looped(s, Len(s) + 1)
BY DEF ReadLines, Looped, Loop

(* Lines can be taken off the rest, one after the other.                    *)
LEMMA TakenComes ==
  ASSUME NEW s \in Bytes, NEW ls, NEW b, Comes(s, ls, b), NEW n \in Nat,
         NEW f, \A k \in 0 .. n : f[k] \in Progress, f[0] = Begin(b),
         \A k \in 0 .. n - 1 : f[k + 1] \in {f[k], Deliver(f[k])}
  PROVE  Comes(s, ls \o f[n].lines, f[n].rest)
<1>1. ls \in Seq(Bytes) /\ b \in Bytes
  BY ComesType
<1>2. PICK T : T = {k \in 0 .. n : Comes(s, ls \o f[k].lines, f[k].rest)}
  OBVIOUS
<1>3. 0 \in T
  <2>1. f[0].lines = <<>> /\ f[0].rest = b
    BY DEF Begin
  <2>2. ls \o <<>> = ls
    BY <1>1
  <2>3. Comes(s, ls \o f[0].lines, f[0].rest)
    BY <2>1, <2>2, Zenon
  <2>4. 0 \in 0 .. n
    OBVIOUS
  <2>5. QED
    BY <1>2, <2>3, <2>4, Zenon
<1>4. ASSUME NEW k \in 0 .. n - 1, k \in T PROVE k + 1 \in T
  <2>1. k \in 0 .. n /\ k + 1 \in 0 .. n
    OBVIOUS
  <2>2. PICK t, d : t = f[k] /\ d = f[k + 1]
    OBVIOUS
  <2>3. t \in Progress /\ d \in {t, Deliver(t)}
    BY <2>1, <2>2
  <2>4. Comes(s, ls \o t.lines, t.rest)
    BY <1>2, <1>4, <2>2
  <2>5. CASE d = t
    BY <1>2, <2>1, <2>2, <2>4, <2>5
  <2>6. CASE d = Deliver(t)
    <3>1. PICK l, q : l = ReadLine(t.rest).line /\ q = ReadLine(t.rest).rest
      OBVIOUS
    <3>2. d.lines = (IF l = <<>> THEN t.lines ELSE Append(t.lines, Stripped(l))) /\ d.rest = q
      BY <2>6, <3>1, DeliverOf
    <3>3. Comes(s, IF l = <<>> THEN ls \o t.lines ELSE Append(ls \o t.lines, Stripped(l)), q)
      BY <2>4, <3>1, ComesNext
    <3>4. t.lines \in Seq(Bytes) /\ t.rest \in Bytes
      BY <2>3 DEF Progress
    <3>5. PICK r \in Bytes : l # <<>> => r = Stripped(l)
      BY <3>1, <3>4, ReadLineType, StrippedType
    <3>6. ls \o Append(t.lines, r) = Append(ls \o t.lines, r)
      BY <1>1, <3>4
    <3>7. ls \o d.lines = IF l = <<>> THEN ls \o t.lines ELSE Append(ls \o t.lines, Stripped(l))
      BY <3>2, <3>5, <3>6
    <3>8. Comes(s, ls \o d.lines, d.rest)
      BY <3>2, <3>3, <3>7
    <3>9. QED
      BY <1>2, <2>1, <2>2, <3>8
  <2>7. QED
    BY <2>3, <2>5, <2>6
<1>5. n \in T
  BY <1>3, <1>4, Upward
<1>6. QED
  BY <1>2, <1>5

LEMMA LoopComes ==
  ASSUME NEW s \in Bytes, NEW ls, NEW b, Comes(s, ls, b), NEW n \in Nat
  PROVE  Comes(s, ls \o Looped(b, n).lines, Looped(b, n).rest)
<1>1. b \in Bytes
  BY ComesType
<1>2. PICK f : f = [k \in 0 .. n |-> Looped(b, k)]
  OBVIOUS
<1>3. \A k \in 0 .. n : f[k] \in Progress /\ f[k] = Looped(b, k)
  BY <1>1, <1>2, LoopedType
<1>4. f[0] = Begin(b)
  BY <1>3, LoopedNone
<1>5. ASSUME NEW k \in 0 .. n - 1 PROVE f[k + 1] \in {f[k], Deliver(f[k])}
  <2>1. k \in Nat /\ k \in 0 .. n /\ k + 1 \in 0 .. n
    OBVIOUS
  <2>2. QED
    BY <1>1, <1>3, <2>1, LoopedNext
<1>6. Comes(s, ls \o f[n].lines, f[n].rest)
  BY <1>3, <1>4, <1>5, TakenComes
<1>7. f[n] = Looped(b, n)
  BY <1>3
<1>8. QED
  BY <1>6, <1>7

LEMMA AllComes ==
  ASSUME NEW s \in Bytes, NEW ls, NEW b, Comes(s, ls, b), NEW n \in Nat
  PROVE  Comes(s, ls \o After(b, n).lines, After(b, n).rest)
<1>1. b \in Bytes
  BY ComesType
<1>2. PICK f : f = [k \in 0 .. n |-> After(b, k)]
  OBVIOUS
<1>3. \A k \in 0 .. n : f[k] \in Progress /\ f[k] = After(b, k)
  BY <1>1, <1>2, AfterType
<1>4. f[0] = Begin(b)
  BY <1>3, AfterNone
<1>5. ASSUME NEW k \in 0 .. n - 1 PROVE f[k + 1] \in {f[k], Deliver(f[k])}
  <2>1. k \in Nat /\ k \in 0 .. n /\ k + 1 \in 0 .. n
    OBVIOUS
  <2>2. QED
    BY <1>1, <1>3, <2>1, AfterNext
<1>6. Comes(s, ls \o f[n].lines, f[n].rest)
  BY <1>3, <1>4, <1>5, TakenComes
<1>7. f[n] = After(b, n)
  BY <1>3
<1>8. QED
  BY <1>6, <1>7

(* Nothing is delivered twice.                                              *)
LEMMA LoopKeeps ==
  ASSUME NEW ls \in Seq(Bytes), NEW b \in Bytes, NEW n \in Nat
  PROVE  /\ Looped(b, n) \in Progress
         /\ Part(FlattenSeq(ls \o Looped(b, n).lines) \o Looped(b, n).rest,
                 FlattenSeq(ls) \o b)
<1> DEFINE Text(t) == FlattenSeq(ls \o t.lines) \o t.rest
<1>1. PICK z \in Bytes : z = FlattenSeq(ls) \o b
  <2>1. FlattenSeq(ls) \in Bytes
    BY FlattenOf DEF Bytes
  <2>2. QED
    BY <2>1, ConcatOf
<1>2. PICK T : T = {k \in 0 .. n : Part(Text(Looped(b, k)), z)}
  OBVIOUS
<1>3. 0 \in T
  <2>1. Looped(b, 0).lines = <<>> /\ Looped(b, 0).rest = b
    BY LoopedNone DEF Begin
  <2>2. ls \o <<>> = ls
    OBVIOUS
  <2>3. Text(Looped(b, 0)) = z
    BY <1>1, <2>1, <2>2, Zenon
  <2>4. 0 \in 0 .. n /\ Part(z, z)
    BY PartSelf
  <2>5. QED
    BY <1>2, <2>3, <2>4, Zenon
<1>4. ASSUME NEW k \in 0 .. n - 1, k \in T PROVE k + 1 \in T
  <2>1. k \in Nat /\ k + 1 \in 0 .. n
    OBVIOUS
  <2>2. PICK t, d : t = Looped(b, k) /\ d = Looped(b, k + 1)
    OBVIOUS
  <2>3. t \in Progress /\ d = IF t.more THEN Deliver(t) ELSE t
    BY <2>1, <2>2, LoopedType, LoopedNext
  <2>4. Part(Text(t), z)
    BY <1>2, <1>4, <2>2
  <2>5. Part(Text(d), z)
    <3>1. CASE ~t.more
      BY <2>3, <2>4, <3>1
    <3>2. CASE t.more
      <4>1. d = Deliver(t) /\ d \in Progress
        BY <2>3, <3>2, DeliverType
      <4>2. /\ t.lines \in Seq(Bytes) /\ t.rest \in Bytes
            /\ d.lines \in Seq(Bytes) /\ d.rest \in Bytes
        BY <2>3, <4>1 DEF Progress
      <4>3. PICK v, w : v = ls \o t.lines /\ w = FlattenSeq(v)
        OBVIOUS
      <4>4. v \in Seq(Bytes)
        BY <4>2, <4>3
      <4>5. w \in Bytes /\ Part(w, w)
        BY <4>3, <4>4, FlattenOf, PartSelf DEF Bytes
      <4>6. Text(t) = w \o t.rest /\ w \o t.rest \in Bytes
        BY <4>2, <4>3, <4>5, ConcatOf
      <4>7. ASSUME NEW y \in Bytes, Part(y, t.rest), Text(d) = w \o y PROVE Part(Text(d), z)
        <5>1. Part(w \o y, w \o t.rest)
          BY <4>2, <4>5, <4>7, PartBoth
        <5>2. w \o y \in Bytes
          BY <4>5, ConcatOf
        <5>3. Part(w \o t.rest, z)
          BY <2>4, <4>6, Zenon
        <5>4. Part(w \o y, z)
          BY <1>1, <4>6, <5>1, <5>2, <5>3, PartOfPart
        <5>5. QED
          BY <4>7, <5>4, Zenon
      <4>8. CASE d.lines = t.lines
        <5>1. Part(d.rest, t.rest)
          BY <4>1, <4>2, <2>3, DeliverType, ReadLineType
        <5>2. Text(d) = w \o d.rest
          BY <4>3, <4>8, Zenon
        <5>3. QED
          BY <4>2, <4>7, <5>1, <5>2, Zenon
      <4>9. ASSUME NEW l \in Bytes, d.lines = Append(t.lines, l),
                   Part(l \o d.rest, t.rest)
            PROVE  Part(Text(d), z)
        <5>1. ls \o d.lines = Append(v, l)
          <6>1. PICK q \in Seq(Bytes) : q = t.lines
            BY <4>2
          <6>2. ls \o Append(q, l) = Append(ls \o q, l)
            OBVIOUS
          <6>3. QED
            BY <4>3, <4>9, <6>1, <6>2, Zenon
        <5>2. FlattenSeq(ls \o d.lines) = w \o l
          BY <4>3, <4>4, <5>1, FlattenAppend DEF Bytes
        <5>3. PICK y \in Bytes : y = l \o d.rest
          BY <4>2, ConcatOf
        <5>4. (w \o l) \o d.rest = w \o (l \o d.rest)
          <6>1. PICK a \in Seq(Byte), c \in Seq(Byte), e \in Seq(Byte) :
                   a = w /\ c = l /\ e = d.rest
            BY <4>2, <4>5 DEF Bytes
          <6>2. (a \o c) \o e = a \o (c \o e)
            OBVIOUS
          <6>3. QED
            BY <6>1, <6>2, Zenon
        <5>5. Text(d) = w \o y
          BY <5>2, <5>3, <5>4
        <5>6. QED
          BY <4>7, <4>9, <5>3, <5>5, Zenon
      <4>10. QED
        BY <2>3, <4>1, <4>8, <4>9, DeliverType
    <3>3. QED
      BY <3>1, <3>2
  <2>6. QED
    BY <1>2, <2>1, <2>2, <2>5
<1>5. n \in T
  BY <1>3, <1>4, Upward
<1>6. Part(Text(Looped(b, n)), z)
  BY <1>2, <1>5
<1>7. QED
  BY <1>1, <1>6, LoopedType

-----------------------------------------------------------------------------
(* Type correctness.                                                        *)
LEMMA ChunkType ==
  ASSUME NEW k \in Nat, NEW chunk \in TupleOf(Byte, k)
  PROVE  chunk \in Bytes /\ Len(chunk) = k
BY DEF TupleOf, Bytes

(* Every variable keeps its type, and what is delivered and kept is the      *)
(* input without some of its bytes, in the order they came in and none of   *)
(* them twice: handle_telnet_commands and read_line only take bytes out.    *)
THEOREM TypeCorrect == Spec => []TypeOK
<1> DEFINE Keeps == /\ sent \in Bytes /\ cut \in BOOLEAN /\ rx \in {"run", "dead"}
                    /\ buf \in Bytes /\ lines \in Seq(Bytes)
                    /\ Part(FlattenSeq(lines) \o buf, sent)
<1>1. Init => Keeps
  <2>1. FlattenSeq(<<>>) = <<>>
    BY DEF FlattenSeq
  <2>2. <<>> \in Bytes /\ <<>> \in Seq(Bytes) /\ <<>> \o <<>> = <<>>
    BY DEF Bytes
  <2>3. Part(<<>>, <<>>)
    BY <2>2, PartNone
  <2>4. QED
    BY <2>1, <2>2, <2>3 DEF Init
<1>2. Keeps /\ [Next]_vars => Keeps'
  <2>1. SUFFICES ASSUME Keeps, [Next]_vars PROVE Keeps'
    OBVIOUS
  <2>2. ASSUME NEW k \in 1 .. MaxSent - Len(sent), NEW chunk \in TupleOf(Byte, k), Receive(chunk)
        PROVE  Keeps'
    <3>1. chunk \in Bytes
      BY ChunkType
    <3>2. PICK w \in Bytes : w = FlattenSeq(lines)
      BY <2>1, FlattenOf DEF Bytes
    <3>3. w \o buf \in Bytes /\ Part(w \o buf, sent)
      BY <2>1, <3>2, ConcatOf
    <3>4. sent' \in Bytes /\ sent' = sent \o chunk
      BY <2>1, <2>2, <3>1, ConcatOf DEF Receive
    <3>5. cut' \in BOOLEAN
      BY <2>1, <2>2 DEF Receive
    <3>6. CASE rx' = "dead" /\ UNCHANGED <<buf, lines>>
      <4>1. Part(w \o buf, sent')
        BY <2>1, <3>1, <3>3, <3>4, PartMore
      <4>2. QED
        BY <2>1, <3>2, <3>4, <3>5, <3>6, <4>1
    <3>7. ASSUME HandleTelnetCommands(chunk) # Panicked, rx' = rx,
                 NEW r, r = ReadLines(Collected(HandleTelnetCommands(chunk))),
                 buf' = r.rest, lines' = lines \o r.lines
          PROVE  Keeps'
      <4>1. PICK data \in Bytes : data = HandleTelnetCommands(chunk) /\ Part(data, chunk)
        BY <3>1, <3>7, CommandsType
      <4>2. PICK b \in Bytes : b = buf \o data
        BY <2>1, ConcatOf
      <4>3. r = Looped(b, Len(b) + 1) /\ Len(b) + 1 \in Nat
        <5>1. r = ReadLines(b)
          BY <3>7, <4>1, <4>2 DEF Collected
        <5>2. Len(b) \in Nat
          BY DEF Bytes
        <5>3. QED
          BY <5>1, <5>2, LoopedAll
      <4>4. r \in Progress /\ Part(FlattenSeq(lines \o r.lines) \o r.rest, w \o b)
        BY <2>1, <3>2, <4>3, LoopKeeps
      <4>5. r.rest \in Bytes /\ r.lines \in Seq(Bytes)
        BY <4>4 DEF Progress
      <4>6. PICK ls : ls = lines \o r.lines
        OBVIOUS
      <4>7. ls \in Seq(Bytes)
        BY <2>1, <4>5, <4>6
      <4>8. PICK y \in Bytes : y = FlattenSeq(ls) \o r.rest
        <5>1. FlattenSeq(ls) \in Bytes
          BY <4>7, FlattenOf DEF Bytes
        <5>2. QED
          BY <4>5, <5>1, ConcatOf
      <4>9. Part(w \o b, sent \o chunk)
        <5>1. Part((w \o buf) \o data, sent \o chunk)
          BY <2>1, <3>1, <3>3, <4>1, PartBoth
        <5>2. (w \o buf) \o data = w \o (buf \o data)
          <6>1. w \in Seq(Byte) /\ buf \in Seq(Byte) /\ data \in Seq(Byte)
            BY <2>1 DEF Bytes
          <6>2. QED
            BY <6>1, ConcatAssociative
        <5>3. QED
          BY <4>2, <5>1, <5>2
      <4>10. w \o b \in Bytes /\ sent \o chunk \in Bytes
        BY <2>1, <3>1, ConcatOf
      <4>11. Part(y, w \o b)
        BY <4>4, <4>6, <4>8, Zenon
      <4>12. Part(y, sent')
        BY <3>4, <4>9, <4>10, <4>11, PartOfPart
      <4>13. QED
        BY <2>1, <3>4, <3>5, <3>7, <4>5, <4>6, <4>7, <4>8, <4>12
    <3>8. QED
      BY <2>2, <3>6, <3>7 DEF Receive
  <2>3. CASE UNCHANGED vars
    BY <2>1, <2>3 DEF vars
  <2>4. QED
    BY <2>1, <2>2, <2>3 DEF Next
<1>3. Keeps => TypeOK
  <2>1. SUFFICES ASSUME Keeps PROVE InOrder(FlattenSeq(lines) \o buf, sent)
    BY DEF TypeOK, Bytes
  <2>2. FlattenSeq(lines) \in Bytes
    BY <2>1, FlattenOf DEF Bytes
  <2>3. FlattenSeq(lines) \o buf \in Bytes
    BY <2>1, <2>2, ConcatOf
  <2>4. QED
    BY <2>1, <2>3, PartFound
<1>4. QED
  BY <1>1, <1>2, <1>3, PTL DEF Spec


-----------------------------------------------------------------------------
(* How the loop ends.                                                       *)
LEMMA Settles ==
  ASSUME NEW s \in Bytes
  PROVE  LineEnd(After(s, Len(s)).rest) = 0
<1>1. PICK n \in Nat : n = Len(s)
  BY DEF Bytes
<1> DEFINE Near(b, k) == LineEnd(b) = 0 \/ Len(b) <= n - k
<1>2. PICK T : T = {k \in 0 .. n : Near(After(s, k).rest, k)}
  OBVIOUS
<1>3. 0 \in T
  <2>1. After(s, 0).rest = s
    BY AfterNone DEF Begin
  <2>2. Near(s, 0)
    BY <1>1
  <2>3. 0 \in 0 .. n
    OBVIOUS
  <2>4. QED
    BY <1>2, <2>1, <2>2, <2>3, Zenon
<1>4. ASSUME NEW k \in 0 .. n - 1, k \in T PROVE k + 1 \in T
  <2>1. k \in Nat /\ k + 1 \in 0 .. n
    OBVIOUS
  <2>2. PICK t, d : t = After(s, k) /\ d = After(s, k + 1)
    OBVIOUS
  <2>3. t \in Progress /\ d = Deliver(t)
    BY <2>1, <2>2, AfterType, AfterNext
  <2>4. PICK b, c : b = t.rest /\ c = d.rest
    OBVIOUS
  <2>5. b \in Bytes /\ c = ReadLine(b).rest
    BY <2>3, <2>4, DeliverOf DEF Progress
  <2>6. Near(b, k)
    BY <1>2, <1>4, <2>2, <2>4
  <2>7. Near(c, k + 1)
    <3>1. CASE LineEnd(b) = 0
      BY <2>5, <3>1, ReadLineType
    <3>2. CASE LineEnd(b) # 0
      <4>1. PICK x \in Nat : x = Len(b)
        BY <2>5 DEF Bytes
      <4>2. PICK e \in 1 .. x : e = LineEnd(b)
        BY <2>5, <3>2, <4>1, EndType
      <4>3. Len(c) = x - e
        BY <2>5, <4>1, <4>2, ReadLineType
      <4>4. QED
        BY <2>6, <3>2, <4>1, <4>3
    <3>3. QED
      BY <3>1, <3>2
  <2>8. QED
    BY <1>2, <2>1, <2>2, <2>4, <2>7
<1>5. n \in T
  BY <1>3, <1>4, Upward
<1>6. PICK b : b = After(s, n).rest
  OBVIOUS
<1>7. b \in Bytes
  BY <1>6, AfterType DEF Progress
<1>8. Near(b, n)
  BY <1>2, <1>5, <1>6
<1>9. LineEnd(b) = 0
  <2>1. PICK x \in Nat : x = Len(b)
    BY <1>7 DEF Bytes
  <2>2. LineEnd(b) \in 0 .. x
    BY <1>7, <2>1, EndType
  <2>3. QED
    BY <1>8, <2>1, <2>2
<1>10. QED
  BY <1>1, <1>6, <1>9

LEMMA Settled ==
  ASSUME NEW s \in Bytes, NEW m \in Nat, LineEnd(After(s, m).rest) = 0, NEW n \in Nat
  PROVE  After(s, m + n).lines = After(s, m).lines
<1>1. PICK ls, b : ls = After(s, m).lines /\ b = After(s, m).rest
  OBVIOUS
<1>2. PICK T : T = {k \in 0 .. n : After(s, m + k).lines = ls /\ After(s, m + k).rest = b}
  OBVIOUS
<1>3. 0 \in T
  <2>1. m + 0 = m /\ 0 \in 0 .. n
    OBVIOUS
  <2>2. QED
    BY <1>1, <1>2, <2>1
<1>4. b \in Bytes /\ LineEnd(b) = 0
  BY <1>1, AfterType DEF Progress
<1>5. ASSUME NEW k \in 0 .. n - 1, k \in T PROVE k + 1 \in T
  <2>1. PICK j \in Nat : j = m + k /\ m + (k + 1) = j + 1 /\ k + 1 \in 0 .. n
    OBVIOUS
  <2>2. After(s, j).lines = ls /\ After(s, j).rest = b
    BY <1>2, <1>5, <2>1
  <2>3. After(s, j + 1) = Deliver(After(s, j))
    BY AfterNext
  <2>4. ReadLine(b).line = <<>> /\ ReadLine(b).rest = b
    BY <1>4, ReadLineType
  <2>5. After(s, j + 1).lines = ls /\ After(s, j + 1).rest = b
    BY <2>2, <2>3, <2>4, DeliverOf
  <2>6. QED
    BY <1>2, <2>1, <2>5
<1>6. n \in T
  BY <1>3, <1>5, Upward
<1>7. QED
  BY <1>1, <1>2, <1>6

(* Taken to the end, a text has one result.                                 *)
LEMMA ComesOnce ==
  ASSUME NEW s \in Bytes, NEW ls, NEW b, Comes(s, ls, b), LineEnd(b) = 0
  PROVE  ls = AllLines(s)
<1>1. PICK m \in Nat : After(s, m).lines = ls /\ After(s, m).rest = b
  BY DEF Comes
<1>2. PICK n \in Nat : n = Len(s)
  BY DEF Bytes
<1>3. AllLines(s) = After(s, n).lines /\ LineEnd(After(s, n).rest) = 0
  BY <1>2, Settles DEF AllLines, After, Delivery
<1>4. CASE m <= n
  <2>1. PICK k \in Nat : n = m + k
    BY <1>4
  <2>2. QED
    BY <1>1, <1>3, <2>1, Settled
<1>5. CASE n <= m
  <2>1. PICK k \in Nat : m = n + k
    BY <1>5
  <2>2. QED
    BY <1>1, <1>3, <2>1, Settled
<1>6. QED
  BY <1>4, <1>5


-----------------------------------------------------------------------------
(* Lines as they are typed.                                                 *)
KeyMap == [b \in Byte |-> [t \in TypedState |-> Key(t, b)]]
Fresh == [done |-> <<>>, line |-> <<>>]
Keyed(t, s) == Over(KeyMap, t, s)

LEMMA FrontOf ==
  ASSUME NEW l \in Bytes
  PROVE  /\ Front(l) \in Bytes
         /\ \A b \in Byte : Append(l, b) \in Bytes /\ Front(Append(l, b)) = l
<1>1. PICK n \in Nat : n = Len(l) /\ l \in Seq(Byte)
  BY DEF Bytes
<1>2. ASSUME n = 0 PROVE Front(l) \in Bytes
  <2>1. Front(l) = <<>>
    BY <1>1, <1>2 DEF Front
  <2>2. QED
    BY <2>1 DEF Bytes
<1>3. ASSUME n # 0 PROVE Front(l) \in Bytes
  <2>1. PICK i \in 0 .. n : i = n - 1
    BY <1>3
  <2>2. SubSeq(l, 1, i) \in Seq(Byte)
    BY <1>1, Halves
  <2>3. QED
    BY <1>1, <2>1, <2>2 DEF Front, Bytes
<1>4. ASSUME NEW b \in Byte PROVE Append(l, b) \in Bytes /\ Front(Append(l, b)) = l
  <2>1. PICK m : m = Append(l, b)
    OBVIOUS
  <2>2. m \in Seq(Byte) /\ Len(m) = n + 1 /\ \A i \in 1 .. n : m[i] = l[i]
    BY <1>1, <2>1
  <2>3. PICK f : f = SubSeq(m, 1, n)
    OBVIOUS
  <2>4. f \in Seq(Byte) /\ Len(f) = n /\ \A i \in 1 .. n : f[i] = m[i]
    <3>1. n \in 0 .. Len(m)
      BY <2>2
    <3>2. QED
      BY <2>2, <2>3, <3>1, Halves
  <2>5. f = l
    <3>1. \A i \in 1 .. n : f[i] = l[i]
      BY <2>2, <2>4
    <3>2. QED
      BY <1>1, <2>4, <3>1
  <2>6. Front(m) = f
    BY <2>2, <2>3 DEF Front
  <2>7. QED
    BY <2>1, <2>2, <2>5, <2>6 DEF Bytes
<1>5. Front(l) \in Bytes
  BY <1>2, <1>3
<1>6. QED
  BY <1>4, <1>5

LEMMA KeyType ==
  ASSUME NEW t \in TypedState, NEW b \in Byte PROVE Key(t, b) \in TypedState
<1>1. t.done \in Seq(Bytes) /\ t.line \in Bytes
  BY DEF TypedState
<1>2. Front(t.line) \in Bytes /\ Append(t.line, b) \in Bytes /\ <<>> \in Bytes
  BY <1>1, FrontOf DEF Bytes
<1>3. Append(t.done, Front(t.line)) \in Seq(Bytes)
  BY <1>1, <1>2
<1>4. QED
  BY <1>1, <1>2, <1>3 DEF Key, TypedState

LEMMA KeyMapType == KeyMap \in [Byte -> [TypedState -> TypedState]]
BY KeyType DEF KeyMap

LEMMA FreshType == Fresh \in TypedState
BY DEF Fresh, TypedState, Bytes

LEMMA KeyedType ==
  ASSUME NEW t \in TypedState, NEW s \in Bytes PROVE Keyed(t, s) \in TypedState
BY KeyMapType, OverType DEF Keyed, Bytes

LEMMA KeyedNone == ASSUME NEW t PROVE Keyed(t, <<>>) = t
BY OverNone DEF Keyed

LEMMA KeyedNext ==
  ASSUME NEW t \in TypedState, NEW s \in Bytes, NEW b \in Byte
  PROVE  Keyed(t, Append(s, b)) = Key(Keyed(t, s), b)
<1>1. Keyed(t, Append(s, b)) = KeyMap[b][Keyed(t, s)]
  BY OverAppend DEF Keyed, Bytes
<1>2. QED
  BY <1>1, KeyedType DEF KeyMap

LEMMA KeyedOne ==
  ASSUME NEW t \in TypedState, NEW b \in Byte PROVE Keyed(t, <<b>>) = Key(t, b)
<1>1. <<>> \in Bytes /\ Append(<<>>, b) = <<b>>
  BY DEF Bytes
<1>2. QED
  BY <1>1, KeyedNext, KeyedNone

LEMMA KeyedBoth ==
  ASSUME NEW t, NEW s \in Bytes, NEW u \in Bytes
  PROVE  Keyed(t, s \o u) = Keyed(Keyed(t, s), u)
BY OverConcat DEF Keyed, Bytes

LEMMA TypedAll == ASSUME NEW s PROVE Typed(s) = Keyed(Fresh, s).done
BY DEF Typed, Keyed, KeyMap, Fresh

(* What was done before only stands in front of what is done.               *)
Earlier(d, t) == [done |-> d \o t.done, line |-> t.line]

LEMMA KeyAfter ==
  ASSUME NEW d \in Seq(Bytes), NEW t \in TypedState, NEW b \in Byte
  PROVE  Key(Earlier(d, t), b) = Earlier(d, Key(t, b))
<1>1. PICK e \in Seq(Bytes), l \in Bytes : t = [done |-> e, line |-> l]
  BY DEF TypedState
<1>2. PICK p : p = Earlier(d, t)
  OBVIOUS
<1>3. PICK f \in Bytes : f = Front(l)
  BY FrontOf
<1>4. PICK v, w, x : v = d \o e /\ w = Append(e, f) /\ x = Append(v, f)
  OBVIOUS
<1>5. d \o w = x
  BY <1>4
<1>6. p = [done |-> v, line |-> l]
  BY <1>1, <1>2, <1>4 DEF Earlier
<1>7. CASE b = LF
  <2>1. Key(t, b) = [done |-> w, line |-> <<>>]
    BY <1>1, <1>3, <1>4, <1>7 DEF Key, BS, LF
  <2>2. Key(p, b) = [done |-> x, line |-> <<>>]
    BY <1>3, <1>4, <1>6, <1>7 DEF Key, BS, LF
  <2>3. Earlier(d, [done |-> w, line |-> <<>>]) = [done |-> x, line |-> <<>>]
    BY <1>5 DEF Earlier
  <2>4. QED
    BY <1>2, <2>1, <2>2, <2>3, Zenon
<1>8. CASE b # LF
  <2>1. PICK k : k = IF b = BS THEN (IF l = <<>> THEN l ELSE f) ELSE Append(l, b)
    OBVIOUS
  <2>2. Key(t, b) = [done |-> e, line |-> k]
    BY <1>1, <1>3, <1>8, <2>1 DEF Key, BS, LF
  <2>3. Key(p, b) = [done |-> v, line |-> k]
    BY <1>3, <1>6, <1>8, <2>1 DEF Key, BS, LF
  <2>4. Earlier(d, [done |-> e, line |-> k]) = [done |-> v, line |-> k]
    BY <1>4 DEF Earlier
  <2>5. QED
    BY <1>2, <2>2, <2>3, <2>4, Zenon
<1>9. QED
  BY <1>7, <1>8

LEMMA KeyedAfter ==
  ASSUME NEW d \in Seq(Bytes), NEW t \in TypedState, NEW s \in Bytes
  PROVE  Keyed(Earlier(d, t), s) = Earlier(d, Keyed(t, s))
<1>1. PICK h : h = [x \in TypedState |-> Earlier(d, x)]
  OBVIOUS
<1>2. ASSUME NEW b \in Byte, NEW x \in TypedState PROVE KeyMap[b][h[x]] = h[KeyMap[b][x]]
  <2>1. Earlier(d, x) \in TypedState
    BY DEF Earlier, TypedState
  <2>2. KeyMap[b][Earlier(d, x)] = Key(Earlier(d, x), b)
    BY <2>1 DEF KeyMap
  <2>3. KeyMap[b][x] = Key(x, b)
    BY DEF KeyMap
  <2>4. Key(x, b) \in TypedState
    BY KeyType
  <2>5. QED
    BY <1>1, <2>2, <2>3, <2>4, KeyAfter
<1>3. Over(KeyMap, h[t], s) = h[Over(KeyMap, t, s)]
  <2>1. s \in Seq(Byte)
    BY DEF Bytes
  <2>2. PICK map : map = KeyMap
    OBVIOUS
  <2>3. /\ map \in [Byte -> [TypedState -> TypedState]]
        /\ Neutral(h, map, Byte, TypedState)
    BY <1>2, <2>2, KeyMapType DEF Neutral
  <2>4. Over(map, h[t], s) = h[Over(map, t, s)]
    BY <2>1, <2>3, OverSame
  <2>5. QED
    BY <2>2, <2>4
<1>4. QED
  BY <1>1, <1>3, KeyedType DEF Keyed


(* Keys that end no line, and keys that are only collected.                 *)
Lacks(s, b) == \A i \in 1 .. Len(s) : s[i] # b

LEMMA KeyedOpen ==
  ASSUME NEW s \in Bytes, Lacks(s, LF)
  PROVE  Keyed(Fresh, s).done = <<>> /\ (Lacks(s, BS) => Keyed(Fresh, s).line = s)
<1>1. PICK n \in Nat : n = Len(s)
  BY DEF Bytes
<1> DEFINE Open(v) == /\ Keyed(Fresh, v).done = <<>>
                      /\ Lacks(s, BS) => Keyed(Fresh, v).line = v
<1>2. PICK T : T = {k \in 0 .. n : Open(SubSeq(s, 1, k))}
  OBVIOUS
<1>3. 0 \in T
  <2>1. SubSeq(s, 1, 0) = <<>>
    BY DEF Bytes
  <2>2. Open(<<>>)
    BY KeyedNone DEF Fresh
  <2>3. 0 \in 0 .. n
    OBVIOUS
  <2>4. QED
    BY <1>2, <2>1, <2>2, <2>3, Zenon
<1>4. ASSUME NEW k \in 0 .. n - 1, k \in T PROVE k + 1 \in T
  <2>1. PICK v, b : v = SubSeq(s, 1, k) /\ b = s[k + 1]
    OBVIOUS
  <2>2. v \in Seq(Byte) /\ b \in Byte /\ SubSeq(s, 1, k + 1) = Append(v, b)
    BY <1>1, <2>1, NextOf DEF Bytes
  <2>3. b # LF /\ (Lacks(s, BS) => b # BS)
    BY <1>1, <2>1 DEF Lacks
  <2>4. PICK t \in TypedState : t = Keyed(Fresh, v)
    BY <2>2, FreshType, KeyedType DEF Bytes
  <2>5. t.done = <<>> /\ (Lacks(s, BS) => t.line = v)
    BY <1>2, <1>4, <2>1, <2>4
  <2>6. Keyed(Fresh, Append(v, b)) = Key(t, b)
    BY <2>2, <2>4, FreshType, KeyedNext DEF Bytes
  <2>7. PICK d, l : t = [done |-> d, line |-> l]
    BY <2>4 DEF TypedState
  <2>8. Key(t, b).done = <<>>
    BY <2>3, <2>5, <2>7 DEF Key
  <2>9. Lacks(s, BS) => Key(t, b).line = Append(v, b)
    BY <2>3, <2>5, <2>7 DEF Key
  <2>10. Open(SubSeq(s, 1, k + 1))
    BY <2>2, <2>6, <2>8, <2>9, Zenon
  <2>11. k + 1 \in 0 .. n
    OBVIOUS
  <2>12. QED
    BY <1>2, <2>10, <2>11, Zenon
<1>5. n \in T
  BY <1>3, <1>4, Upward
<1>6. SubSeq(s, 1, n) = s
  BY <1>1 DEF Bytes
<1>7. QED
  BY <1>2, <1>5, <1>6

(* A byte in the middle.                                                    *)
LEMMA Middle ==
  ASSUME NEW s \in Bytes, NEW i \in 1 .. Len(s)
  PROVE  /\ SubSeq(s, 1, i - 1) \in Bytes /\ From(s, i + 1) \in Bytes /\ s[i] \in Byte
         /\ Len(SubSeq(s, 1, i - 1)) = i - 1 /\ Len(From(s, i + 1)) = Len(s) - i
         /\ \A k \in 1 .. i - 1 : SubSeq(s, 1, i - 1)[k] = s[k]
         /\ \A k \in 1 .. Len(s) - i : From(s, i + 1)[k] = s[i + k]
         /\ s = Append(SubSeq(s, 1, i - 1), s[i]) \o From(s, i + 1)
<1>1. s \in Seq(Byte) /\ Len(s) \in Nat
  BY DEF Bytes
<1>2. /\ From(s, i + 1) \in Seq(Byte) /\ Len(From(s, i + 1)) = Len(s) - i
      /\ \A k \in 1 .. Len(s) - i : From(s, i + 1)[k] = s[i + k]
      /\ s = SubSeq(s, 1, i) \o From(s, i + 1)
  <2>1. i \in 0 .. Len(s)
    BY <1>1
  <2>2. QED
    BY <1>1, <2>1, Halves
<1>3. PICK j \in 0 .. Len(s) - 1 : j = i - 1 /\ j + 1 = i
  BY <1>1
<1>4. /\ SubSeq(s, 1, j) \in Seq(Byte) /\ Len(SubSeq(s, 1, j)) = j
      /\ \A k \in 1 .. j : SubSeq(s, 1, j)[k] = s[k]
  <2>1. j \in 0 .. Len(s)
    BY <1>1
  <2>2. QED
    BY <1>1, <2>1, Halves
<1>5. s[j + 1] \in Byte /\ SubSeq(s, 1, j + 1) = Append(SubSeq(s, 1, j), s[j + 1])
  BY <1>1, NextOf
<1>6. QED
  BY <1>2, <1>3, <1>4, <1>5 DEF Bytes

(* What one backspace does to a line w, which some text e without           *)
(* backspaces follows: what it does to w, and that types the same.          *)
LEMMA RuboutTyped ==
  ASSUME NEW w \in Bytes, Lacks(w, LF), ~Lacks(w, BS), NEW e \in Bytes
  PROVE  \E v \in Bytes : /\ RuboutFirst(w \o e) = v \o e
                          /\ Lacks(v, LF) /\ Len(v) < Len(w)
                          /\ Keyed(Fresh, v) = Keyed(Fresh, w)
<1>1. PICK n \in Nat : n = Len(w) /\ w \in Seq(Byte) /\ e \in Seq(Byte) /\ Len(e) \in Nat
  BY DEF Bytes
<1>2. PICK u : u = w \o e
  OBVIOUS
<1>3. u \in Seq(Byte) /\ Len(u) = n + Len(e) /\ \A i \in 1 .. n : u[i] = w[i]
  BY <1>1, <1>2
<1>4. PICK I : I = {i \in 1 .. Len(u) : u[i] = BS}
  OBVIOUS
<1>5. PICK i \in I : i = Min(I) /\ \A k \in I : i <= k
  <2>1. I \subseteq Nat
    BY <1>4
  <2>2. PICK k \in 1 .. n : w[k] = BS
    BY <1>1 DEF Lacks
  <2>3. k \in I
    BY <1>1, <1>3, <1>4, <2>2
  <2>4. QED
    BY <2>1, <2>3, MinOf
<1>6. i \in 1 .. n /\ w[i] = BS /\ \A k \in 1 .. i - 1 : w[k] # BS
  <2>1. PICK k \in 1 .. n : w[k] = BS
    BY <1>1 DEF Lacks
  <2>2. k \in I
    BY <1>1, <1>3, <1>4, <2>1
  <2>3. i \in 1 .. n
    BY <1>1, <1>3, <1>4, <1>5, <2>2
  <2>4. w[i] = BS
    BY <1>3, <1>4, <1>5, <2>3
  <2>5. ASSUME NEW j \in 1 .. i - 1, w[j] = BS PROVE FALSE
    <3>1. j \in 1 .. n /\ j \in 1 .. Len(u) /\ ~(i <= j)
      BY <1>1, <1>3, <2>3
    <3>2. j \in I
      BY <1>3, <1>4, <2>5, <3>1
    <3>3. QED
      BY <1>5, <3>1, <3>2
  <2>6. QED
    BY <2>3, <2>4, <2>5
<1>7. RuboutFirst(u) = Rubout(u, i)
  <2>1. SelectInSeq(u, LAMBDA x : x = BS) = i
    BY <1>4, <1>5 DEF SelectInSeq
  <2>2. i # 0
    BY <1>6
  <2>3. QED
    BY <2>1, <2>2 DEF RuboutFirst
<1>8. PICK p, q : p = SubSeq(w, 1, i - 1) /\ q = From(w, i + 1)
  OBVIOUS
<1>9. /\ p \in Bytes /\ q \in Bytes /\ Len(p) = i - 1 /\ Len(q) = n - i
      /\ \A k \in 1 .. i - 1 : p[k] = w[k]
      /\ \A k \in 1 .. n - i : q[k] = w[i + k]
      /\ w = Append(p, BS) \o q /\ BS \in Byte
  <2>1. w \in Bytes /\ i \in 1 .. Len(w)
    BY <1>1, <1>6
  <2>2. /\ p \in Bytes /\ q \in Bytes /\ w[i] \in Byte
        /\ Len(p) = i - 1 /\ Len(q) = Len(w) - i
        /\ \A k \in 1 .. i - 1 : p[k] = w[k]
        /\ \A k \in 1 .. Len(w) - i : q[k] = w[i + k]
        /\ w = Append(p, w[i]) \o q
    <3>1. w[i] \in Byte /\ w = Append(SubSeq(w, 1, i - 1), w[i]) \o From(w, i + 1)
      BY <2>1, Middle, Zenon
    <3>2. p \in Bytes /\ q \in Bytes /\ Len(p) = i - 1 /\ Len(q) = Len(w) - i
      BY <1>8, <2>1, Middle, Zenon
    <3>3. \A k \in 1 .. i - 1 : p[k] = w[k]
      BY <1>8, <2>1, Middle, Zenon
    <3>4. \A k \in 1 .. Len(w) - i : q[k] = w[i + k]
      BY <1>8, <2>1, Middle, Zenon
    <3>5. QED
      BY <1>8, <3>1, <3>2, <3>3, <3>4, Zenon
  <2>3. QED
    BY <1>1, <1>6, <2>2, Zenon
<1>10. Lacks(p, LF) /\ Lacks(p, BS) /\ Lacks(q, LF)
  <2>1. \A k \in 1 .. i - 1 : k \in 1 .. n
    BY <1>6
  <2>2. \A k \in 1 .. n - i : i + k \in 1 .. n
    BY <1>6
  <2>3. \A k \in 1 .. i - 1 : p[k] # LF /\ p[k] # BS
    BY <1>1, <1>6, <1>9, <2>1 DEF Lacks
  <2>4. \A k \in 1 .. n - i : q[k] # LF
    BY <1>1, <1>9, <2>2 DEF Lacks
  <2>5. QED
    BY <1>9, <2>3, <2>4 DEF Lacks
<1>11. Keyed(Fresh, p) = [done |-> <<>>, line |-> p]
  <2>1. Keyed(Fresh, p).done = <<>> /\ Keyed(Fresh, p).line = p
    BY <1>9, <1>10, KeyedOpen
  <2>2. Keyed(Fresh, p) \in TypedState
    BY <1>9, FreshType, KeyedType
  <2>3. QED
    BY <2>1, <2>2 DEF TypedState
<1>12. Keyed(Fresh, w) = Keyed([done |-> <<>>, line |-> IF p = <<>> THEN <<>> ELSE Front(p)], q)
  <2>1. Append(p, BS) \in Bytes
    BY <1>9, FrontOf
  <2>2. Keyed(Fresh, w) = Keyed(Keyed(Fresh, Append(p, BS)), q)
    BY <1>9, <2>1, KeyedBoth
  <2>3. Keyed(Fresh, Append(p, BS)) = Key([done |-> <<>>, line |-> p], BS)
    BY <1>9, <1>11, FreshType, KeyedNext
  <2>4. Key([done |-> <<>>, line |-> p], BS)
          = [done |-> <<>>, line |-> IF p = <<>> THEN <<>> ELSE Front(p)]
    BY DEF Key, BS, LF
  <2>5. QED
    BY <2>2, <2>3, <2>4
<1>13. From(u, i + 1) = q \o e
  <2>1. i \in 0 .. Len(w)
    BY <1>1, <1>6
  <2>2. QED
    BY <1>1, <1>2, <1>8, <2>1, SplitSame
<1>14. CASE i = 1
  <2>1. Rubout(u, i) = q \o e
    <3>1. Rubout(u, i) = Tail(u)
      BY <1>14 DEF Rubout
    <3>2. Tail(u) = From(u, 1 + 1)
      BY <1>3, <1>6 DEF From
    <3>3. QED
      BY <1>13, <1>14, <3>1, <3>2
  <2>2. p = <<>>
    BY <1>9, <1>14 DEF Bytes
  <2>3. Keyed(Fresh, w) = Keyed(Fresh, q)
    BY <1>12, <2>2 DEF Fresh
  <2>4. Len(q) < n
    BY <1>6, <1>9
  <2>5. QED
    BY <1>1, <1>2, <1>7, <1>9, <1>10, <2>1, <2>3, <2>4
<1>15. CASE i # 1
  <2>1. PICK j \in 0 .. n : j = i - 2 /\ j = (i - 1) - 1 /\ j < i - 1 /\ (i - 1) + 2 = i + 1
    BY <1>6, <1>15
  <2>2. PICK f : f = SubSeq(w, 1, j)
    OBVIOUS
  <2>3. f \in Bytes /\ Len(f) = j /\ \A k \in 1 .. j : f[k] = w[k]
    BY <1>1, <2>2, Halves DEF Bytes
  <2>4. SubSeq(u, 1, j) = f
    BY <1>1, <1>2, <2>2, SplitSame
  <2>5. Rubout(u, i) = f \o (q \o e)
    <3>1. Rubout(u, i) = SubSeq(u, 1, (i - 1) - 1) \o From(u, (i - 1) + 2)
      BY <1>15 DEF Rubout, Without
    <3>2. QED
      BY <1>13, <2>1, <2>4, <3>1
  <2>6. f = Front(p) /\ p # <<>>
    <3>1. SubSeq(p, 1, j) \in Seq(Byte) /\ Len(SubSeq(p, 1, j)) = j
          /\ \A k \in 1 .. j : SubSeq(p, 1, j)[k] = p[k]
      <4>1. j \in 0 .. Len(p) /\ p \in Seq(Byte)
        BY <1>9, <2>1 DEF Bytes
      <4>2. QED
        BY <4>1, Halves
    <3>2. PICK g : g = SubSeq(p, 1, j)
      OBVIOUS
    <3>3. \A k \in 1 .. j : g[k] = f[k]
      BY <1>6, <1>9, <2>1, <2>3, <3>1, <3>2
    <3>4. g = f
      BY <2>1, <2>3, <3>1, <3>2, <3>3 DEF Bytes
    <3>5. Front(p) = g
      BY <1>9, <2>1, <3>2 DEF Front
    <3>6. Len(p) # 0
      BY <1>6, <1>9, <1>15
    <3>7. QED
      BY <3>4, <3>5, <3>6
  <2>7. PICK v : v = f \o q
    OBVIOUS
  <2>8. v \in Bytes /\ Len(v) = j + (n - i) /\ f \o (q \o e) = v \o e
    <3>1. f \in Seq(Byte) /\ q \in Seq(Byte) /\ e \in Seq(Byte)
      BY <1>1, <1>9, <2>3 DEF Bytes
    <3>2. v \in Seq(Byte) /\ Len(v) = Len(f) + Len(q)
      BY <2>7, <3>1
    <3>3. f \o (q \o e) = (f \o q) \o e
      BY <3>1
    <3>4. QED
      BY <1>9, <2>3, <2>7, <3>2, <3>3 DEF Bytes
  <2>9. Lacks(f, LF) /\ Lacks(f, BS)
    <3>1. \A k \in 1 .. j : k \in 1 .. n /\ k \in 1 .. i - 1
      BY <1>6, <2>1
    <3>2. QED
      BY <1>1, <1>6, <2>3, <3>1 DEF Lacks
  <2>10. Keyed(Fresh, f) = [done |-> <<>>, line |-> f]
    <3>1. Keyed(Fresh, f).done = <<>> /\ Keyed(Fresh, f).line = f
      BY <2>3, <2>9, KeyedOpen
    <3>2. Keyed(Fresh, f) \in TypedState
      BY <2>3, FreshType, KeyedType
    <3>3. QED
      BY <3>1, <3>2 DEF TypedState
  <2>11. Keyed(Fresh, v) = Keyed(Fresh, w)
    <3>1. Keyed(Fresh, v) = Keyed(Keyed(Fresh, f), q)
      BY <1>9, <2>3, <2>7, KeyedBoth
    <3>2. QED
      BY <1>12, <2>6, <2>10, <3>1
  <2>12. Lacks(v, LF)
    <3>1. ASSUME NEW k \in 1 .. Len(v) PROVE v[k] # LF
      <4>1. f \in Seq(Byte) /\ q \in Seq(Byte)
        BY <1>9, <2>3 DEF Bytes
      <4>2. CASE k <= j
        <5>1. k \in 1 .. j /\ v[k] = f[k]
          BY <2>1, <2>3, <2>7, <2>8, <4>1, <4>2
        <5>2. QED
          BY <2>3, <2>9, <5>1 DEF Lacks
      <4>3. CASE k > j
        <5>1. k - j \in 1 .. Len(q) /\ v[k] = q[k - j]
          BY <1>6, <1>9, <2>1, <2>3, <2>7, <2>8, <4>1, <4>3
        <5>2. QED
          BY <1>10, <5>1 DEF Lacks
      <4>4. QED
        BY <2>1, <4>2, <4>3
    <3>2. QED
      BY <3>1 DEF Lacks
  <2>13. Len(v) < n
    BY <1>6, <2>1, <2>8
  <2>14. QED
    BY <1>1, <1>2, <1>7, <2>5, <2>8, <2>11, <2>12, <2>13
<1>16. QED
  BY <1>14, <1>15


LEMMA RuboutNone == ASSUME NEW l \in Bytes, Lacks(l, BS) PROVE RuboutFirst(l) = l
<1>1. PICK I : I = {i \in 1 .. Len(l) : l[i] = BS}
  OBVIOUS
<1>2. I = {}
  BY <1>1 DEF Lacks
<1>3. SelectInSeq(l, LAMBDA x : x = BS) = 0
  BY <1>1, <1>2 DEF SelectInSeq
<1>4. QED
  BY <1>3 DEF RuboutFirst

(* process_backspaces leaves of a line what was typed.                      *)
LEMMA BackspacesTyped ==
  ASSUME NEW w \in Bytes, Lacks(w, LF), NEW e \in Bytes, Lacks(e, BS)
  PROVE  /\ ProcessBackspaces(w \o e) = Keyed(Fresh, w).line \o e
         /\ Keyed(Fresh, w).done = <<>> /\ Keyed(Fresh, w).line \in Bytes
<1>1. PICK n \in Nat, l \in Nat : n = Len(w) /\ l = Len(e)
  BY DEF Bytes
<1>2. PICK u : u = w \o e
  OBVIOUS
<1>3. u \in Bytes /\ Len(u) = n + l
  BY <1>1, <1>2 DEF Bytes
<1>4. PICK rub : rub = [x \in Bytes |-> RuboutFirst(x)]
  OBVIOUS
<1> DEFINE Good(v, k) == /\ v \in Bytes /\ Lacks(v, LF) /\ Keyed(Fresh, v) = Keyed(Fresh, w)
                         /\ Lacks(v, BS) \/ Len(v) <= n - k
           Kept(r, k) == \E v : r = v \o e /\ Good(v, k)
<1>5. PICK T : T = {k \in 0 .. n + l : Kept(Rounds(rub, u, k), k)}
  OBVIOUS
<1>6. 0 \in T
  <2>1. Rounds(rub, u, 0) = u
    BY RoundsStart
  <2>2. Good(w, 0)
    BY <1>1
  <2>3. Kept(u, 0)
    BY <1>2, <2>2
  <2>4. 0 \in 0 .. n + l
    OBVIOUS
  <2>5. QED
    BY <1>5, <2>1, <2>3, <2>4, Zenon
<1>7. ASSUME NEW k \in 0 .. n + l - 1, k \in T PROVE k + 1 \in T
  <2>1. k \in Nat /\ k + 1 \in 0 .. n + l
    OBVIOUS
  <2>2. PICK r : r = Rounds(rub, u, k)
    OBVIOUS
  <2>3. PICK v : r = v \o e /\ Good(v, k)
    BY <1>5, <1>7, <2>2
  <2>4. v \in Bytes /\ r \in Bytes
    BY <2>3 DEF Bytes
  <2>5. Rounds(rub, u, k + 1) = RuboutFirst(r)
    BY <1>4, <2>1, <2>2, <2>4, RoundsStep
  <2>6. Kept(RuboutFirst(r), k + 1)
    <3>1. CASE Lacks(v, BS)
      <4>1. Lacks(r, BS)
        <5>1. PICK a \in Nat : a = Len(v)
          BY <2>4 DEF Bytes
        <5>2. v \in Seq(Byte) /\ e \in Seq(Byte)
          BY <2>4 DEF Bytes
        <5>3. ASSUME NEW i \in 1 .. Len(r) PROVE r[i] # BS
          <6>1. Len(r) = a + l
            BY <1>1, <2>3, <5>1, <5>2
          <6>2. CASE i <= a
            <7>1. i \in 1 .. a /\ r[i] = v[i]
              BY <2>3, <5>1, <5>2, <6>1, <6>2
            <7>2. QED
              BY <3>1, <5>1, <7>1 DEF Lacks
          <6>3. CASE i > a
            <7>1. i - a \in 1 .. l /\ r[i] = e[i - a]
              BY <1>1, <2>3, <5>1, <5>2, <6>1, <6>3
            <7>2. QED
              BY <1>1, <7>1 DEF Lacks
          <6>4. QED
            BY <5>1, <6>1, <6>2, <6>3
        <5>4. QED
          BY <5>3 DEF Lacks
      <4>2. RuboutFirst(r) = r
        BY <2>4, <4>1, RuboutNone
      <4>3. Good(v, k + 1)
        BY <2>3, <3>1
      <4>4. QED
        BY <2>3, <4>2, <4>3
    <3>2. CASE ~Lacks(v, BS)
      <4>1. PICK x \in Bytes : /\ RuboutFirst(v \o e) = x \o e
                               /\ Lacks(x, LF) /\ Len(x) < Len(v)
                               /\ Keyed(Fresh, x) = Keyed(Fresh, v)
        BY <2>3, <2>4, <3>2, RuboutTyped
      <4>2. Len(x) \in Nat /\ Len(v) \in Nat /\ Len(v) <= n - k
        BY <2>3, <2>4, <3>2 DEF Bytes
      <4>3. Len(x) <= n - (k + 1)
        BY <1>1, <2>1, <4>1, <4>2
      <4>4. Good(x, k + 1)
        BY <2>3, <4>1, <4>3
      <4>5. QED
        BY <2>3, <4>1, <4>4
    <3>3. QED
      BY <3>1, <3>2
  <2>7. QED
    BY <1>5, <2>1, <2>5, <2>6, Zenon
<1>8. n + l \in T
  <2>1. n + l \in Nat
    OBVIOUS
  <2>2. QED
    BY <1>6, <1>7, <2>1, Upward
<1>9. PICK r : r = Rounds(rub, u, n + l)
  OBVIOUS
<1>10. PICK v : r = v \o e /\ Good(v, n + l)
  BY <1>5, <1>8, <1>9
<1>11. ProcessBackspaces(u) = r
  BY <1>3, <1>4, <1>9 DEF ProcessBackspaces
<1>12. Lacks(v, BS)
  <2>1. SUFFICES ASSUME Len(v) <= n - (n + l) PROVE Lacks(v, BS)
    BY <1>10
  <2>2. Len(v) \in Nat
    BY <1>10 DEF Bytes
  <2>3. Len(v) = 0
    BY <2>1, <2>2
  <2>4. QED
    BY <2>3 DEF Lacks
<1>13. Keyed(Fresh, v).done = <<>> /\ Keyed(Fresh, v).line = v
  BY <1>10, <1>12, KeyedOpen
<1>14. QED
  BY <1>2, <1>10, <1>11, <1>13


-----------------------------------------------------------------------------
(* In a text of lines that end in CR LF, read_line finds each of them.      *)
LEMMA CrLfOf ==
  ASSUME NEW b, LinesEndInCrLf(b), Len(b) \in Nat
  PROVE  /\ \A i \in 1 .. Len(b) - 1 : b[i] = CR => b[i + 1] = LF
         /\ \A i \in 1 .. Len(b) : b[i] = LF => i # 1 /\ b[i - 1] = CR
<1>1. PICK n \in Nat : n = Len(b)
  OBVIOUS
<1>2. \A i \in 1 .. n - 1 : b[i] = CR <=> b[i + 1] = LF
  BY <1>1 DEF LinesEndInCrLf
<1>3. ASSUME NEW i \in 1 .. n, b[i] = LF PROVE i # 1 /\ b[i - 1] = CR
  <2>1. n # 0 => b # <<>>
    BY <1>1
  <2>2. i # 1
    BY <1>3, <2>1 DEF LinesEndInCrLf
  <2>3. PICK j \in 1 .. n - 1 : j = i - 1 /\ j + 1 = i
    BY <2>2
  <2>4. QED
    BY <1>2, <1>3, <2>2, <2>3
<1>4. QED
  BY <1>1, <1>2, <1>3

LEMMA CrFound ==
  ASSUME NEW b \in Bytes, LinesEndInCrLf(b), NEW j \in 1 .. Len(b) - 1, b[j] = CR
  PROVE  Found(b, j)
<1>1. PICK n \in Nat : n = Len(b)
  BY DEF Bytes
<1>2. PICK I : I = {i \in 1 .. j : b[i] # CR}
  OBVIOUS
<1>3. PICK x : x = IF I # {} THEN Max(I) ELSE 0
  OBVIOUS
<1>4. SelectLastInSubSeq(b, 1, j, LAMBDA y : y # CR) = x
  BY <1>2, <1>3 DEF SelectLastInSubSeq
<1>5. x = j - 1
  <2>1. CASE j = 1
    <3>1. I = {}
      BY <1>2, <2>1
    <3>2. QED
      BY <1>3, <2>1, <3>1
  <2>2. CASE j # 1
    <3>1. PICK i \in 1 .. n - 1 : i = j - 1 /\ i + 1 = j /\ i \in 1 .. j
      BY <1>1, <2>2
    <3>2. b[i] # CR
      <4>1. SUFFICES ASSUME b[i] = CR PROVE FALSE
        OBVIOUS
      <4>2. b[i + 1] = LF
        BY <1>1, <3>1, <4>1, CrLfOf
      <4>3. QED
        BY <3>1, <4>2 DEF CR, LF
    <3>3. i \in I /\ j \notin I
      BY <1>2, <3>1, <3>2
    <3>4. I \subseteq 0 .. n /\ \A k \in I : k <= i
      BY <1>1, <1>2, <3>1, <3>3
    <3>5. PICK m \in I : m = Max(I) /\ \A k \in I : m >= k
      BY <3>3, <3>4, MaxOf
    <3>6. Max(I) = i
      <4>1. m <= i /\ m >= i /\ m \in Nat
        BY <3>3, <3>4, <3>5
      <4>2. QED
        BY <3>1, <3>5, <4>1
    <3>7. QED
      BY <1>3, <3>1, <3>3, <3>6
  <2>3. QED
    BY <2>1, <2>2
<1>6. (j - x) % 2 = 1
  <2>1. j - x = 1
    BY <1>5
  <2>2. QED
    BY <2>1
<1>7. QED
  BY <1>4, <1>6 DEF Found

LEMMA NoLine ==
  ASSUME NEW b \in Bytes, LinesEndInCrLf(b), LineEnd(b) = 0
  PROVE  Lacks(b, LF)
<1>1. PICK n \in Nat : n = Len(b)
  BY DEF Bytes
<1>2. SUFFICES ASSUME NEW i \in 1 .. n, b[i] = LF PROVE FALSE
  BY <1>1 DEF Lacks
<1>3. PICK j \in 1 .. n - 1 : j + 1 = i /\ b[j] = CR
  <2>1. i # 1 /\ b[i - 1] = CR
    BY <1>1, <1>2, CrLfOf
  <2>2. i - 1 \in 1 .. n - 1 /\ i - 1 + 1 = i
    BY <2>1
  <2>3. QED
    BY <2>1, <2>2
<1>4. Found(b, j)
  BY <1>1, <1>3, CrFound
<1>5. ~ \E e \in 1 .. Len(b) - 1, x \in Nat : EndsAt(b, e, x)
  <2>1. ASSUME NEW e \in 1 .. n - 1, NEW x \in Nat, EndsAt(b, e, x) PROVE FALSE
    <3>1. LineEnd(b) = e - x + 1 /\ x <= e
      BY <2>1 DEF EndsAt
    <3>2. QED
      BY <3>1
  <2>2. QED
    BY <1>1, <2>1
<1>6. \A k \in 1 .. Len(b) - 1 : ~(Found(b, k) /\ b[k + 1] = LF)
  BY <1>5, EndOf
<1>7. QED
  BY <1>1, <1>2, <1>3, <1>4, <1>6

LEMMA LineFound ==
  ASSUME NEW b \in Bytes, LinesEndInCrLf(b), LineEnd(b) # 0
  PROVE  \E e \in 1 .. Len(b) - 1 :
           /\ LineEnd(b) = e + 1 /\ b[e] = CR /\ b[e + 1] = LF
           /\ \A k \in 1 .. e - 1 : b[k] # LF
<1>1. PICK n \in Nat : n = Len(b)
  BY DEF Bytes
<1>2. PICK e \in 1 .. n - 1, x \in Nat : EndsAt(b, e, x)
  BY <1>1, EndOf
<1>3. b[e] = CR /\ b[e + 1] = LF
  BY <1>2 DEF EndsAt, Found
<1>4. ASSUME NEW k \in 1 .. e - 1 PROVE ~Found(b, k) /\ b[k] # CR
  <2>1. k \in 1 .. n - 1
    BY <1>1
  <2>2. b[k] # CR
    <3>1. SUFFICES ASSUME b[k] = CR PROVE FALSE
      OBVIOUS
    <3>2. Found(b, k) /\ b[k + 1] = LF
      BY <1>1, <2>1, <3>1, CrFound, CrLfOf
    <3>3. QED
      BY <1>2, <3>2 DEF EndsAt
  <2>3. QED
    BY <2>2 DEF Found
<1>5. x = 0
  <2>1. {j \in 1 .. e - 1 : Found(b, j)} = {}
    BY <1>4
  <2>2. {0} \cup {j + 1 : j \in {j \in 1 .. e - 1 : Found(b, j)}} = {0}
    BY <2>1
  <2>3. Max({0}) = 0
    BY DEF Max
  <2>4. QED
    BY <1>2, <2>2, <2>3 DEF EndsAt
<1>6. LineEnd(b) = e + 1
  BY <1>2, <1>5 DEF EndsAt
<1>7. ASSUME NEW k \in 1 .. e - 1, b[k] = LF PROVE FALSE
  <2>1. k \in 1 .. n
    BY <1>1
  <2>2. k # 1 /\ b[k - 1] = CR
    BY <1>1, <1>7, <2>1, CrLfOf
  <2>3. k - 1 \in 1 .. e - 1
    BY <2>2
  <2>4. QED
    BY <1>4, <2>2, <2>3
<1>8. QED
  BY <1>1, <1>3, <1>6, <1>7

LEMMA OneLine ==
  ASSUME NEW b \in Bytes, LinesEndInCrLf(b), LineEnd(b) # 0
  PROVE  \E w \in Bytes, r \in Bytes :
           /\ SubSeq(b, 1, LineEnd(b)) = w \o <<CR, LF>> /\ Lacks(w, LF)
           /\ From(b, LineEnd(b) + 1) = r /\ LinesEndInCrLf(r) /\ Len(r) < Len(b)
           /\ b = (w \o <<CR, LF>>) \o r
           /\ CR \in Byte /\ LF \in Byte
<1>1. PICK n \in Nat : n = Len(b) /\ b \in Seq(Byte)
  BY DEF Bytes
<1>2. PICK e \in 1 .. n - 1 : /\ LineEnd(b) = e + 1 /\ b[e] = CR /\ b[e + 1] = LF
                              /\ \A k \in 1 .. e - 1 : b[k] # LF
  BY <1>1, LineFound
<1>3. CR \in Byte /\ LF \in Byte
  <2>1. e \in 1 .. Len(b) /\ e + 1 \in 1 .. Len(b)
    BY <1>1
  <2>2. b[e] \in Byte /\ b[e + 1] \in Byte
    BY <1>1, <2>1
  <2>3. QED
    BY <1>2, <2>2
<1>4. PICK l \in 1 .. n : l = e + 1
  BY <1>1
<1>5. PICK p, r : p = SubSeq(b, 1, l) /\ r = From(b, l + 1)
  OBVIOUS
<1>6. /\ p \in Seq(Byte) /\ Len(p) = l /\ r \in Seq(Byte) /\ Len(r) = n - l
      /\ \A k \in 1 .. l : p[k] = b[k]
      /\ \A k \in 1 .. n - l : r[k] = b[l + k]
      /\ b = p \o r
  <2>1. l \in 0 .. Len(b)
    BY <1>1
  <2>2. /\ p \in Seq(Byte) /\ Len(p) = l /\ r \in Seq(Byte) /\ Len(r) = Len(b) - l
        /\ \A k \in 1 .. l : p[k] = b[k]
    BY <1>1, <1>5, <2>1, Halves
  <2>3. \A k \in 1 .. Len(b) - l : r[k] = b[l + k]
    BY <1>1, <1>5, <2>1, Halves
  <2>4. b = p \o r
    <3>1. b = SubSeq(b, 1, l) \o From(b, l + 1)
      BY <1>1, <2>1, Halves
    <3>2. QED
      BY <1>5, <3>1
  <2>5. QED
    BY <1>1, <2>2, <2>3, <2>4, Zenon
<1>7. PICK w : w = SubSeq(b, 1, e - 1)
  OBVIOUS
<1>8. w \in Seq(Byte) /\ Len(w) = e - 1 /\ \A k \in 1 .. e - 1 : w[k] = b[k]
  <2>1. e - 1 \in 0 .. Len(b)
    BY <1>1
  <2>2. QED
    BY <1>1, <1>7, <2>1, Halves
<1>9. p = w \o <<CR, LF>>
  <2>1. PICK z : z = w \o <<CR, LF>>
    OBVIOUS
  <2>2. z \in Seq(Byte) /\ Len(z) = l
    <3>1. <<CR, LF>> \in Seq(Byte) /\ Len(<<CR, LF>>) = 2
      BY <1>3
    <3>2. z \in Seq(Byte) /\ Len(z) = Len(w) + 2
      BY <1>8, <2>1, <3>1
    <3>3. QED
      BY <1>4, <1>8, <3>2
  <2>3. ASSUME NEW k \in 1 .. l PROVE p[k] = z[k]
    <3>1. CASE k <= e - 1
      BY <1>4, <1>6, <1>8, <2>1, <3>1
    <3>2. CASE k = e
      <4>1. z[e] = CR
        BY <1>8, <2>1
      <4>2. QED
        BY <1>2, <1>6, <3>2, <4>1
    <3>3. CASE k = e + 1
      <4>1. z[e + 1] = LF
        BY <1>8, <2>1
      <4>2. QED
        BY <1>2, <1>6, <3>3, <4>1
    <3>4. QED
      BY <1>4, <3>1, <3>2, <3>3
  <2>4. p = z
    BY <1>6, <2>2, <2>3
  <2>5. QED
    BY <2>1, <2>4
<1>10. Lacks(w, LF)
  BY <1>2, <1>8 DEF Lacks
<1>11. LinesEndInCrLf(r)
  <2>1. \A i \in 1 .. n - 1 : b[i] = CR <=> b[i + 1] = LF
    BY <1>1 DEF LinesEndInCrLf
  <2>2. ASSUME NEW i \in 1 .. n - l - 1 PROVE r[i] = CR <=> r[i + 1] = LF
    <3>1. i \in 1 .. n - l /\ i + 1 \in 1 .. n - l /\ l + i \in 1 .. n - 1 /\ l + (i + 1) = l + i + 1
      OBVIOUS
    <3>2. r[i] = b[l + i] /\ r[i + 1] = b[l + i + 1]
      BY <1>6, <3>1
    <3>3. QED
      BY <2>1, <3>1, <3>2
  <2>3. ASSUME r # <<>> PROVE r[1] # LF
    <3>1. Len(r) # 0
      BY <1>6, <2>3
    <3>2. 1 \in 1 .. n - l /\ l \in 1 .. n - 1
      BY <1>6, <3>1
    <3>3. r[1] = b[l + 1]
      BY <1>6, <3>2
    <3>4. b[l] # CR
      BY <1>2, <1>4 DEF CR, LF
    <3>5. QED
      BY <2>1, <3>2, <3>3, <3>4
  <2>4. QED
    BY <1>6, <2>2, <2>3 DEF LinesEndInCrLf
<1>12. /\ SubSeq(b, 1, LineEnd(b)) = w \o <<CR, LF>>
       /\ From(b, LineEnd(b) + 1) = r /\ b = (w \o <<CR, LF>>) \o r
  BY <1>2, <1>4, <1>5, <1>6, <1>9, Zenon
<1>13. w \in Bytes /\ r \in Bytes /\ Len(r) < Len(b)
  BY <1>1, <1>6, <1>8 DEF Bytes
<1>14. QED
  BY <1>3, <1>10, <1>11, <1>12, <1>13, Zenon


(* Such a line is delivered as it was typed.                                *)
LEMMA LineTyped ==
  ASSUME NEW b \in Bytes, LinesEndInCrLf(b), LineEnd(b) # 0
  PROVE  LET r == ReadLine(b)
         IN  /\ r.line # <<>> /\ r.rest \in Bytes /\ Stripped(r.line) \in Bytes
             /\ LinesEndInCrLf(r.rest) /\ Len(r.rest) < Len(b)
             /\ Typed(b) = <<Stripped(r.line)>> \o Typed(r.rest)
<1>1. PICK w \in Bytes, r \in Bytes :
         /\ SubSeq(b, 1, LineEnd(b)) = w \o <<CR, LF>> /\ Lacks(w, LF)
         /\ From(b, LineEnd(b) + 1) = r /\ LinesEndInCrLf(r) /\ Len(r) < Len(b)
         /\ b = (w \o <<CR, LF>>) \o r
         /\ CR \in Byte /\ LF \in Byte
  BY OneLine
<1>2. PICK c : c = <<CR, LF>>
  OBVIOUS
<1>3. c \in Seq(Byte) /\ Len(c) = 2 /\ Lacks(c, BS)
  <2>1. c \in Seq(Byte) /\ Len(c) = 2 /\ c[1] = CR /\ c[2] = LF
    BY <1>1, <1>2
  <2>2. \A i \in 1 .. 2 : c[i] # BS
    BY <2>1 DEF BS, CR, LF
  <2>3. QED
    BY <2>1, <2>2 DEF Lacks
<1>4. PICK f \in Bytes : /\ ProcessBackspaces(w \o c) = f \o c
                         /\ Keyed(Fresh, w).done = <<>> /\ Keyed(Fresh, w).line = f
  BY <1>1, <1>3, BackspacesTyped DEF Bytes
<1>5. PICK l : l = f \o c
  OBVIOUS
<1>6. ReadLine(b).line = l /\ ReadLine(b).rest = r
  BY <1>1, <1>2, <1>4, <1>5 DEF ReadLine
<1>7. l # <<>> /\ Stripped(l) = f
  <2>1. PICK n \in Nat : n = Len(f) /\ f \in Seq(Byte)
    BY DEF Bytes
  <2>2. l \in Seq(Byte) /\ Len(l) = n + 2
    <3>1. f \in Seq(Byte) /\ c \in Seq(Byte)
      BY <1>3, <2>1
    <3>2. l \in Seq(Byte) /\ Len(l) = Len(f) + Len(c)
      BY <1>5, <3>1
    <3>3. QED
      BY <1>3, <2>1, <3>2
  <2>3. SubSeq(l, 1, n) = SubSeq(f, 1, n)
    <3>1. n \in 0 .. Len(f)
      BY <2>1
    <3>2. QED
      BY <1>3, <1>5, <2>1, <3>1, SplitSame
  <2>4. SubSeq(f, 1, n) = f
    BY <2>1
  <2>5. Stripped(l) = SubSeq(l, 1, n)
    BY <2>1, <2>2 DEF Stripped
  <2>6. l # <<>>
    BY <2>1, <2>2
  <2>7. QED
    BY <2>3, <2>4, <2>5, <2>6
<1>8. PICK t \in TypedState : t = Keyed(Fresh, w) /\ t = [done |-> <<>>, line |-> f]
  BY <1>4, FreshType, KeyedType DEF TypedState
<1>9. Keyed(t, c) = [done |-> <<f>>, line |-> <<>>]
  <2>1. <<CR>> \in Bytes /\ c = Append(<<CR>>, LF)
    BY <1>1, <1>2 DEF Bytes
  <2>2. Keyed(t, c) = Key(Keyed(t, <<CR>>), LF)
    BY <1>1, <2>1, KeyedNext
  <2>3. PICK g : g = Append(f, CR)
    OBVIOUS
  <2>4. Keyed(t, <<CR>>) = Key(t, CR)
    BY <1>1, KeyedOne
  <2>5. Key(t, CR) = [done |-> <<>>, line |-> g]
    <3>1. PICK o : o = [done |-> <<>>, line |-> f]
      OBVIOUS
    <3>2. Key(o, CR) = [done |-> <<>>, line |-> Append(f, CR)]
      BY <3>1 DEF Key, BS, CR, LF
    <3>3. t = o
      BY <1>8, <3>1, Zenon
    <3>4. QED
      BY <2>3, <3>2, <3>3, Zenon
  <2>6. Key([done |-> <<>>, line |-> g], LF) = [done |-> Append(<<>>, Front(g)), line |-> <<>>]
    BY DEF Key, BS, LF
  <2>7. Front(g) = f
    BY <1>1, <2>3, FrontOf
  <2>8. Append(<<>>, f) = <<f>>
    OBVIOUS
  <2>9. QED
    BY <2>2, <2>4, <2>5, <2>6, <2>7, <2>8, Zenon
<1>10. <<f>> \in Seq(Bytes) /\ <<f>> \o <<>> = <<f>>
  OBVIOUS
<1>11. Keyed(t, c) = Earlier(<<f>>, Fresh)
  BY <1>9, <1>10 DEF Earlier, Fresh
<1>12. Keyed(Fresh, b) = Keyed(Keyed(t, c), r)
  <2>1. c \in Bytes /\ w \o c \in Bytes
    BY <1>3 DEF Bytes
  <2>2. Keyed(Fresh, (w \o c) \o r) = Keyed(Keyed(Fresh, w \o c), r)
    BY <2>1, KeyedBoth
  <2>3. Keyed(Fresh, w \o c) = Keyed(t, c)
    <3>1. Keyed(Fresh, w \o c) = Keyed(Keyed(Fresh, w), c)
      BY <2>1, KeyedBoth
    <3>2. QED
      BY <1>8, <3>1
  <2>4. QED
    BY <1>1, <1>2, <2>2, <2>3
<1>13. Keyed(Fresh, b) = Earlier(<<f>>, Keyed(Fresh, r))
  BY <1>10, <1>11, <1>12, FreshType, KeyedAfter
<1>14. Typed(b) = <<f>> \o Typed(r)
  BY <1>13, TypedAll DEF Earlier
<1>15. QED
  BY <1>1, <1>6, <1>7, <1>14

(* And so is every line that comes of such a text.                          *)
LEMMA ComesTyped ==
  ASSUME NEW s \in Bytes, LinesEndInCrLf(s), NEW ls, NEW b, Comes(s, ls, b)
  PROVE  LinesEndInCrLf(b) /\ Typed(s) = ls \o Typed(b)
<1>1. PICK m \in Nat : After(s, m).lines = ls /\ After(s, m).rest = b
  BY DEF Comes
<1> DEFINE Good(t) == LinesEndInCrLf(t.rest) /\ Typed(s) = t.lines \o Typed(t.rest)
<1>2. PICK T : T = {k \in 0 .. m : Good(After(s, k))}
  OBVIOUS
<1>3. \A x \in Bytes : Typed(x) \in Seq(Bytes)
  BY TypedAll, FreshType, KeyedType DEF TypedState
<1>4. 0 \in T
  <2>1. After(s, 0).lines = <<>> /\ After(s, 0).rest = s
    BY AfterNone DEF Begin
  <2>2. <<>> \o Typed(s) = Typed(s)
    BY <1>3
  <2>3. Good(After(s, 0))
    BY <2>1, <2>2, Zenon
  <2>4. 0 \in 0 .. m
    OBVIOUS
  <2>5. QED
    BY <1>2, <2>3, <2>4, Zenon
<1>5. ASSUME NEW k \in 0 .. m - 1, k \in T PROVE k + 1 \in T
  <2>1. k \in Nat /\ k + 1 \in 0 .. m
    OBVIOUS
  <2>2. PICK t, d : t = After(s, k) /\ d = After(s, k + 1)
    OBVIOUS
  <2>3. t \in Progress /\ d = Deliver(t)
    BY <2>1, <2>2, AfterType, AfterNext
  <2>4. t.lines \in Seq(Bytes) /\ t.rest \in Bytes /\ Good(t)
    BY <1>2, <1>5, <2>2, <2>3 DEF Progress
  <2>5. PICK l, q : l = ReadLine(t.rest).line /\ q = ReadLine(t.rest).rest
    OBVIOUS
  <2>6. d.lines = (IF l = <<>> THEN t.lines ELSE Append(t.lines, Stripped(l))) /\ d.rest = q
    BY <2>3, <2>5, DeliverOf
  <2>7. Good(d)
    <3>1. CASE LineEnd(t.rest) = 0
      <4>1. l = <<>> /\ q = t.rest
        BY <2>4, <2>5, <3>1, ReadLineType
      <4>2. QED
        BY <2>4, <2>6, <4>1
    <3>2. CASE LineEnd(t.rest) # 0
      <4>1. PICK f : f = Stripped(l)
        OBVIOUS
      <4>2. /\ l # <<>> /\ q \in Bytes /\ f \in Bytes /\ LinesEndInCrLf(q)
            /\ Typed(t.rest) = <<f>> \o Typed(q)
        BY <2>4, <2>5, <3>2, <4>1, LineTyped
      <4>3. PICK y \in Seq(Bytes) : y = Typed(q)
        BY <1>3, <4>2
      <4>4. t.lines \o (<<f>> \o y) = Append(t.lines, f) \o y
        <5>1. PICK a \in Seq(Bytes), h \in Bytes : a = t.lines /\ h = f
          BY <2>4, <4>2
        <5>2. <<h>> \in Seq(Bytes) /\ a \o <<h>> = Append(a, h)
          OBVIOUS
        <5>3. PICK g \in Seq(Bytes) : g = <<h>>
          BY <5>2
        <5>4. a \o (g \o y) = (a \o g) \o y
          OBVIOUS
        <5>5. QED
          BY <5>1, <5>2, <5>3, <5>4
      <4>5. d.lines = Append(t.lines, f) /\ d.rest = q
        BY <2>6, <4>1, <4>2
      <4>6. Typed(s) = d.lines \o Typed(q)
        BY <2>4, <4>2, <4>3, <4>4, <4>5
      <4>7. QED
        BY <4>2, <4>5, <4>6
    <3>3. QED
      BY <3>1, <3>2
  <2>8. QED
    BY <1>2, <2>1, <2>2, <2>7
<1>6. m \in T
  BY <1>4, <1>5, Upward
<1>7. QED
  BY <1>1, <1>2, <1>6

(* None of them is empty, so the loop ends when there is none left.         *)
LEMMA LoopEnds ==
  ASSUME NEW b \in Bytes, LinesEndInCrLf(b)
  PROVE  LineEnd(Looped(b, Len(b) + 1).rest) = 0
<1>1. PICK n \in Nat : n = Len(b)
  BY DEF Bytes
<1> DEFINE Good(t, k) == /\ LinesEndInCrLf(t.rest)
                         /\ \/ t.more /\ Len(t.rest) <= n - k
                            \/ LineEnd(t.rest) = 0
<1>2. PICK T : T = {k \in 0 .. n + 1 : Good(Looped(b, k), k)}
  OBVIOUS
<1>3. 0 \in T
  <2>1. Looped(b, 0).rest = b /\ Looped(b, 0).more
    BY LoopedNone DEF Begin
  <2>2. Good(Looped(b, 0), 0)
    BY <1>1, <2>1
  <2>3. 0 \in 0 .. n + 1
    OBVIOUS
  <2>4. QED
    BY <1>2, <2>2, <2>3, Zenon
<1>4. ASSUME NEW k \in 0 .. n + 1 - 1, k \in T PROVE k + 1 \in T
  <2>1. k \in Nat /\ k + 1 \in 0 .. n + 1
    OBVIOUS
  <2>2. PICK t, d : t = Looped(b, k) /\ d = Looped(b, k + 1)
    OBVIOUS
  <2>3. t \in Progress /\ d = IF t.more THEN Deliver(t) ELSE t
    BY <2>1, <2>2, LoopedType, LoopedNext
  <2>4. t.rest \in Bytes /\ Good(t, k)
    BY <1>2, <1>4, <2>2, <2>3 DEF Progress
  <2>5. Good(d, k + 1)
    <3>1. CASE LineEnd(t.rest) = 0
      <4>1. ReadLine(t.rest).rest = t.rest
        BY <2>4, <3>1, ReadLineType
      <4>2. d.rest = t.rest
        BY <2>3, <4>1, DeliverOf
      <4>3. QED
        BY <2>4, <3>1, <4>2
    <3>2. CASE LineEnd(t.rest) # 0
      <4>1. d = Deliver(t)
        BY <2>3, <2>4, <3>2
      <4>2. PICK l, q : l = ReadLine(t.rest).line /\ q = ReadLine(t.rest).rest
        OBVIOUS
      <4>3. l # <<>> /\ q \in Bytes /\ LinesEndInCrLf(q) /\ Len(q) < Len(t.rest)
        BY <2>4, <3>2, <4>2, LineTyped
      <4>4. d.rest = q /\ d.more
        BY <4>1, <4>2, <4>3, DeliverOf
      <4>5. Len(q) \in Nat /\ Len(t.rest) \in Nat /\ Len(t.rest) <= n - k
        BY <2>4, <3>2, <4>3 DEF Bytes
      <4>6. Len(q) <= n - (k + 1)
        BY <1>1, <2>1, <4>3, <4>5
      <4>7. QED
        BY <4>3, <4>4, <4>6
    <3>3. QED
      BY <3>1, <3>2
  <2>6. QED
    BY <1>2, <2>1, <2>2, <2>5
<1>5. n + 1 \in T
  <2>1. n + 1 \in Nat
    OBVIOUS
  <2>2. QED
    BY <1>3, <1>4, <2>1, Upward
<1>6. PICK t : t = Looped(b, n + 1)
  OBVIOUS
<1>7. t.rest \in Bytes /\ Good(t, n + 1)
  BY <1>2, <1>5, <1>6, LoopedType DEF Progress
<1>8. Len(t.rest) \in Nat
  BY <1>7 DEF Bytes
<1>9. LineEnd(t.rest) = 0
  BY <1>7, <1>8
<1>10. QED
  BY <1>1, <1>6, <1>9

-----------------------------------------------------------------------------
(* The invariant: as long as no chunk ended inside a command and no IAC was *)
(* escaped, what has been delivered and what is left are the work of the    *)
(* delivering loop on the text the client sent, and a chunk was cut inside  *)
(* a command only if there is one.                                          *)
Understood ==
  /\ ~cut /\ ~Escaped(sent) =>
       /\ rx = "run" /\ Telnet(sent).next = "data"
       /\ Comes(Telnet(sent).out, lines, buf)
       /\ LinesEndInCrLf(Telnet(sent).out) => LineEnd(buf) = 0
  /\ cut => ~Clean(sent)

LEMMA TelnetClean ==
  ASSUME NEW s \in Bytes, Clean(s)
  PROVE  Telnet(s).out = s /\ Telnet(s).next = "data"
<1>1. Heard(Quiet, s) = [out |-> <<>> \o s, next |-> "data"]
  BY QuietType, Plain DEF Clean, Quiet
<1>2. <<>> \o s = s
  BY DEF Bytes
<1>3. QED
  BY <1>1, <1>2, HeardAll

LEMMA PartsOf ==
  ASSUME NEW s \in Bytes, NEW c \in Bytes
  PROVE  /\ s \o c \in Bytes
         /\ ~Escaped(s \o c) => ~Escaped(s) /\ ~Escaped(c)
         /\ Clean(s \o c) => Clean(s)
<1>1. PICK n \in Nat, m \in Nat : n = Len(s) /\ m = Len(c)
  BY DEF Bytes
<1>2. PICK u : u = s \o c
  OBVIOUS
<1>3. u \in Bytes /\ Len(u) = n + m
  BY <1>1, <1>2 DEF Bytes
<1>4. \A i \in 1 .. n : u[i] = s[i]
  BY <1>1, <1>2 DEF Bytes
<1>5. \A i \in 1 .. m : u[n + i] = c[i]
  BY <1>1, <1>2 DEF Bytes
<1>6. ASSUME NEW i \in 1 .. n - 1, s[i] = IAC, s[i + 1] = IAC PROVE Escaped(u)
  <2>1. i \in 1 .. Len(u) - 1 /\ i \in 1 .. n /\ i + 1 \in 1 .. n
    BY <1>3
  <2>2. QED
    BY <1>4, <1>6, <2>1 DEF Escaped
<1>7. ASSUME NEW i \in 1 .. m - 1, c[i] = IAC, c[i + 1] = IAC PROVE Escaped(u)
  <2>1. PICK j \in 1 .. Len(u) - 1 : j = n + i /\ j + 1 = n + (i + 1)
    BY <1>3
  <2>2. i \in 1 .. m /\ i + 1 \in 1 .. m
    OBVIOUS
  <2>3. u[j] = IAC /\ u[j + 1] = IAC
    BY <1>5, <1>7, <2>1, <2>2
  <2>4. QED
    BY <2>3 DEF Escaped
<1>8. Clean(u) => Clean(s)
  <2>1. \A i \in 1 .. n : i \in 1 .. Len(u)
    BY <1>3
  <2>2. QED
    BY <1>1, <1>4, <2>1 DEF Clean
<1>9. ~Escaped(u) => ~Escaped(s) /\ ~Escaped(c)
  BY <1>1, <1>6, <1>7 DEF Escaped
<1>10. QED
  BY <1>2, <1>3, <1>8, <1>9

LEMMA UnderstoodInit == Init => Understood
<1>1. SUFFICES ASSUME Init PROVE Understood
  OBVIOUS
<1>2. sent = <<>> /\ <<>> \in Bytes /\ Clean(<<>>)
  <2>1. <<>> \in Seq(Byte)
    OBVIOUS
  <2>2. Clean(<<>>)
    BY DEF Clean
  <2>3. QED
    BY <1>1, <2>1, <2>2, Zenon DEF Init, Bytes
<1>3. Telnet(<<>>).out = <<>> /\ Telnet(<<>>).next = "data"
  BY <1>2, TelnetClean
<1>4. Comes(<<>>, <<>>, <<>>)
  BY <1>2, ComesFirst
<1>5. lines = <<>> /\ buf = <<>> /\ rx = "run" /\ cut = FALSE
  BY <1>1 DEF Init
<1>6. LineEnd(<<>>) = 0
  <2>1. LineEnd(<<>>) \in 0 .. Len(<<>>)
    BY <1>2, EndType
  <2>2. QED
    BY <2>1
<1>7. QED
  BY <1>2, <1>3, <1>4, <1>5, <1>6, Zenon DEF Understood

LEMMA UnderstoodReceive ==
  ASSUME TypeOK, Understood, NEW chunk \in Bytes, Receive(chunk)
  PROVE  Understood'
<1>1. sent \in Bytes /\ buf \in Bytes /\ lines \in Seq(Bytes) /\ cut \in BOOLEAN
  BY DEF TypeOK, Bytes
<1>2. sent' = sent \o chunk /\ cut' = (cut \/ Telnet(sent').next # "data")
  BY DEF Receive
<1>3. sent' \in Bytes
  BY <1>1, <1>2, PartsOf
<1>4. cut' => ~Clean(sent')
  <2>1. SUFFICES ASSUME Clean(sent') PROVE ~cut'
    OBVIOUS
  <2>2. Telnet(sent').next = "data"
    BY <1>3, <2>1, TelnetClean
  <2>3. Clean(sent)
    BY <1>1, <1>2, <2>1, PartsOf
  <2>4. QED
    BY <1>2, <2>2, <2>3 DEF Understood
<1>5. ASSUME ~cut', ~Escaped(sent')
      PROVE  /\ rx' = "run" /\ Telnet(sent').next = "data"
             /\ Comes(Telnet(sent').out, lines', buf')
             /\ LinesEndInCrLf(Telnet(sent').out) => LineEnd(buf') = 0
  <2>1. ~cut /\ Telnet(sent').next = "data" /\ ~Escaped(sent) /\ ~Escaped(chunk)
    BY <1>1, <1>2, <1>5, PartsOf
  <2>2. /\ rx = "run" /\ Telnet(sent).next = "data"
        /\ Comes(Telnet(sent).out, lines, buf)
    BY <2>1 DEF Understood
  <2>3. PICK s, c : s = Telnet(sent).out /\ c = Telnet(chunk).out
    OBVIOUS
  <2>4. /\ s \in Bytes /\ c \in Bytes
        /\ Telnet(sent').out = s \o c /\ Telnet(chunk).next = "data"
    BY <1>1, <1>2, <2>1, <2>2, <2>3, TelnetBoth
  <2>5. HandleTelnetCommands(chunk) = c
    BY <2>1, <2>3, <2>4, CommandsHeard DEF Single
  <2>6. c # Panicked
    BY <2>4, ByteAssumption DEF Bytes
  <2>7. PICK b, r : b = buf \o c /\ r = ReadLines(b)
    OBVIOUS
  <2>8. rx' = rx /\ buf' = r.rest /\ lines' = lines \o r.lines
    BY <2>5, <2>6, <2>7 DEF Receive, Collected
  <2>9. Comes(s \o c, lines, b)
    BY <2>2, <2>3, <2>4, <2>7, ComesMore
  <2>10. r = Looped(b, Len(b) + 1) /\ Len(b) + 1 \in Nat
    <3>1. b \in Bytes
      BY <1>1, <2>4, <2>7, PartsOf
    <3>2. Len(b) \in Nat
      BY <3>1 DEF Bytes
    <3>3. r = Looped(b, Len(b) + 1)
      BY <2>7, LoopedAll
    <3>4. QED
      BY <3>2, <3>3
  <2>11. s \o c \in Bytes
    BY <2>4, PartsOf
  <2>12. Comes(s \o c, lines \o r.lines, r.rest)
    BY <2>9, <2>10, <2>11, LoopComes
  <2>13. LinesEndInCrLf(s \o c) => LineEnd(r.rest) = 0
    <3>1. SUFFICES ASSUME LinesEndInCrLf(s \o c) PROVE LineEnd(r.rest) = 0
      OBVIOUS
    <3>2. b \in Bytes
      BY <1>1, <2>4, <2>7, PartsOf
    <3>3. LinesEndInCrLf(b)
      BY <2>9, <2>11, <3>1, ComesTyped
    <3>4. QED
      BY <2>10, <3>2, <3>3, LoopEnds
  <2>14. QED
    BY <2>1, <2>2, <2>4, <2>8, <2>12, <2>13
<1>6. QED
  BY <1>4, <1>5 DEF Understood

LEMMA UnderstoodAlways == Spec => [](TypeOK /\ Understood)
<1>1. TypeOK /\ Understood /\ [Next]_vars => Understood'
  <2>1. SUFFICES ASSUME TypeOK, Understood, [Next]_vars PROVE Understood'
    OBVIOUS
  <2>2. ASSUME NEW k \in 1 .. MaxSent - Len(sent), NEW chunk \in TupleOf(Byte, k), Receive(chunk)
        PROVE  Understood'
    <3>1. chunk \in Bytes
      BY ChunkType
    <3>2. QED
      BY <2>1, <2>2, <3>1, UnderstoodReceive
  <2>3. CASE UNCHANGED vars
    BY <2>1, <2>3 DEF vars, Understood
  <2>4. QED
    BY <2>1, <2>2, <2>3 DEF Next
<1>2. QED
  BY <1>1, UnderstoodInit, TypeCorrect, PTL DEF Spec

(* The Rx task dies only of a chunk that ends inside a telnet command:      *)
(* without one, and without an escaped IAC, the loop of                     *)
(* handle_telnet_commands drains within the chunk, round after round.       *)
THEOREM PanicNeedsCut == Spec => []PanicsOnlyOnCut
<1>1. TypeOK /\ Understood => PanicsOnlyOnCut
  BY DEF Understood, PanicsOnlyOnCut, TypeOK
<1>2. QED
  BY <1>1, UnderstoodAlways, PTL

(* Of the chunks without an escaped IAC it dies of exactly those that end   *)
(* after the second byte of an option command, where drain() of three bytes *)
(* reaches beyond the end of data_vec.  One that ends right after an IAC is *)
(* survived: handle_telnet_commands leaves that byte for the next chunk.    *)
DiesOfCutOption ==
  \A chunk \in Bytes :
    Receive(chunk) /\ ~Escaped(chunk) => (rx' = "dead" <=> Telnet(chunk).next = "option")

THEOREM PanicsWhenOptionCut == Spec => [][DiesOfCutOption]_vars
<1>1. ASSUME NEW chunk \in Bytes, Receive(chunk), ~Escaped(chunk)
      PROVE  rx' = "dead" <=> Telnet(chunk).next = "option"
  <2>1. HandleTelnetCommands(chunk) = Panicked <=> Telnet(chunk).next = "option"
    BY <1>1, CommandsHeard DEF Single
  <2>2. rx = "run" /\ (rx' = "dead" <=> HandleTelnetCommands(chunk) = Panicked)
    BY <1>1 DEF Receive
  <2>3. QED
    BY <2>1, <2>2
<1>2. DiesOfCutOption
  BY <1>1 DEF DiesOfCutOption
<1>3. QED
  BY <1>2, PTL

(* Without telnet commands it never matters how the input is cut into       *)
(* chunks: what was delivered, and what is still to come of the buffer, is  *)
(* what one chunk would have given.                                         *)
THEOREM OneChunkWouldDo == Spec => []ChunksDoNotMatter
<1>1. TypeOK /\ Understood => ChunksDoNotMatter
  <2>1. SUFFICES ASSUME TypeOK, Understood, \A i \in DOMAIN sent : sent[i] # IAC
                 PROVE  lines \o AllLines(buf) = AllLines(sent)
    BY DEF ChunksDoNotMatter
  <2>2. sent \in Bytes /\ buf \in Bytes /\ DOMAIN sent = 1 .. Len(sent) /\ cut \in BOOLEAN
    BY <2>1 DEF TypeOK, Bytes
  <2>3. Clean(sent)
    BY <2>1, <2>2 DEF Clean
  <2>4. ~cut /\ ~Escaped(sent)
    <3>1. \A i \in 1 .. Len(sent) - 1 : i \in 1 .. Len(sent)
      BY <2>2 DEF Bytes
    <3>2. QED
      BY <2>1, <2>3, <3>1 DEF Understood, Escaped, Clean
  <2>5. Comes(sent, lines, buf)
    BY <2>1, <2>2, <2>3, <2>4, TelnetClean DEF Understood
  <2>6. PICK n \in Nat : n = Len(buf)
    BY <2>2 DEF Bytes
  <2>7. Comes(sent, lines \o After(buf, n).lines, After(buf, n).rest)
    BY <2>2, <2>5, AllComes
  <2>8. LineEnd(After(buf, n).rest) = 0
    BY <2>2, <2>6, Settles
  <2>9. After(buf, n).lines = AllLines(buf)
    BY <2>6 DEF AllLines, After, Delivery
  <2>10. QED
    BY <2>2, <2>7, <2>8, <2>9, ComesOnce
<1>2. QED
  BY <1>1, UnderstoodAlways, PTL


(* Whatever the chunks, the user channel gets the lines as they were typed, *)
(* with every backspace taking back the byte before it; unless one of the   *)
(* chunks ends inside a telnet command, an IAC was escaped, or the lines do *)
(* not end in CR LF.                                                        *)
THEOREM TypedLinesArrive == Spec => []LinesAsTyped
<1>1. TypeOK /\ Understood => LinesAsTyped
  <2>1. SUFFICES ASSUME TypeOK, Understood, ~cut, ~Escaped(sent),
                        LinesEndInCrLf(Telnet(sent).out)
                 PROVE  lines = Typed(Telnet(sent).out)
    BY DEF LinesAsTyped
  <2>2. sent \in Bytes /\ buf \in Bytes /\ lines \in Seq(Bytes)
    BY <2>1 DEF TypeOK, Bytes
  <2>3. PICK s : s = Telnet(sent).out
    OBVIOUS
  <2>4. s \in Bytes
    BY <2>2, <2>3, QuietType, HeardType, HeardAll DEF TelnetState
  <2>5. Comes(s, lines, buf) /\ LinesEndInCrLf(s) /\ LineEnd(buf) = 0
    BY <2>1, <2>3 DEF Understood
  <2>6. LinesEndInCrLf(buf) /\ Typed(s) = lines \o Typed(buf)
    BY <2>4, <2>5, ComesTyped
  <2>7. Typed(buf) = <<>>
    <3>1. Lacks(buf, LF)
      BY <2>2, <2>5, <2>6, NoLine
    <3>2. QED
      BY <2>2, <3>1, KeyedOpen, TypedAll
  <2>8. lines \o <<>> = lines
    BY <2>2
  <2>9. QED
    BY <2>3, <2>6, <2>7, <2>8
<1>2. QED
  BY <1>1, UnderstoodAlways, PTL
=============================================================================
