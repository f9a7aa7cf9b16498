---------------------------- MODULE OutputProofs ----------------------------
(***************************************************************************)
(* Proofs about Output: type correctness; no text closes the socket; what   *)
(* a text says arrives, and in its own colours.  All but the first rest on   *)
(* what AnsiColors makes of a text of any length, which is worked out first: *)
(* how its parts follow each other, and what is sent of them.               *)
(***************************************************************************)
EXTENDS Output, Induction

-----------------------------------------------------------------------------
(* AnsiColors: texts, and what becomes of them.                             *)

Text == Seq(Token)

LEMMA SubText ==
  ASSUME NEW m \in Text, NEW i \in Nat \ {0}, NEW j \in Int, j <= Len(m)
  PROVE  SubSeq(m, i, j) \in Text
BY DEF Text

(* The first and the last of the positions looked for, as Min and Max of    *)
(* them with the bounds are.                                                *)
LEMMA FirstOf ==
  ASSUME NEW n \in Nat, NEW e \in 1 .. n + 1, NEW T, T \subseteq e .. n, NEW x,
         x = Min({n + 1} \cup T)
  PROVE  x \in e .. n + 1 /\ (x <= n => x \in T) /\ \A i \in T : x <= i
<1>1. n + 1 \in e .. n + 1
  OBVIOUS
<1>2. T \subseteq e .. n + 1 /\ {n + 1} \cup T # {}
  BY <1>1
<1>3. {n + 1} \cup T \subseteq Nat
  <2>1. \A i \in e .. n + 1 : i \in Nat
    OBVIOUS
  <2>2. QED
    BY <1>1, <1>2, <2>1
<1>4. x \in {n + 1} \cup T /\ \A i \in {n + 1} \cup T : x <= i
  BY <1>2, <1>3, MinOf
<1>5. QED
  BY <1>1, <1>2, <1>4

LEMMA LastOf ==
  ASSUME NEW n \in Nat, NEW I, I \subseteq 1 .. n, NEW x, x = IF I # {} THEN Max(I) ELSE 0
  PROVE  \/ x = 0 /\ I = {}
         \/ x \in I /\ x \in 1 .. n /\ \A i \in I : i <= x
<1>1. I \subseteq 0 .. n
  OBVIOUS
<1>2. CASE I # {}
  <2>1. x \in I /\ \A i \in I : x >= i
    BY <1>1, <1>2, MaxOf
  <2>2. \A i \in I : i \in 1 .. n
    OBVIOUS
  <2>3. \A i \in I : i <= x
    BY <2>1, <2>2
  <2>4. QED
    BY <2>1, <2>2, <2>3
<1>3. QED
  BY <1>2

-----------------------------------------------------------------------------
(* What is kept of a text: its characters, and their places.                *)

Shown(s) == [i \in DOMAIN s |-> IF IsChar(s[i]) THEN <<s[i]>> ELSE <<>>]
Places(s) == [i \in DOMAIN s |-> IF IsChar(s[i]) THEN <<i>> ELSE <<>>]

LEMMA ShownOf ==
  ASSUME NEW S, NEW n \in Nat, NEW s \in Seq(S), n = Len(s)
  PROVE  /\ Shown(s) \in [1 .. n -> Seq({t \in S : IsChar(t)})]
         /\ Places(s) \in [1 .. n -> Seq({i \in 1 .. n : IsChar(s[i])})]
<1>1. PICK C, D : C = {t \in S : IsChar(t)} /\ D = {i \in 1 .. n : IsChar(s[i])}
  OBVIOUS
<1>2. DOMAIN s = 1 .. n
  OBVIOUS
<1>3. ASSUME NEW i \in 1 .. n PROVE Shown(s)[i] \in Seq(C) /\ Places(s)[i] \in Seq(D)
  <2>1. IsChar(s[i]) => <<s[i]>> \in Seq(C) /\ <<i>> \in Seq(D)
    <3>1. IsChar(s[i]) => s[i] \in C /\ i \in D
      BY <1>1, <1>2
    <3>2. QED
      BY <3>1
  <2>2. <<>> \in Seq(C) /\ <<>> \in Seq(D)
    OBVIOUS
  <2>3. /\ Shown(s)[i] = IF IsChar(s[i]) THEN <<s[i]>> ELSE <<>>
        /\ Places(s)[i] = IF IsChar(s[i]) THEN <<i>> ELSE <<>>
    BY <1>2 DEF Shown, Places
  <2>4. QED
    BY <2>1, <2>2, <2>3, Zenon
<1>4. /\ Shown(s) = [i \in 1 .. n |-> Shown(s)[i]]
      /\ Places(s) = [i \in 1 .. n |-> Places(s)[i]]
  BY <1>2 DEF Shown, Places
<1>5. Shown(s) \in [1 .. n -> Seq(C)] /\ Places(s) \in [1 .. n -> Seq(D)]
  BY <1>3, <1>4
<1>6. QED
  BY <1>1, <1>5

LEMMA KeptOf ==
  ASSUME NEW S, NEW s \in Seq(S), NEW n \in Nat, n = Len(s)
  PROVE  /\ CharsOf(s) \in Seq({t \in S : IsChar(t)})
         /\ Positions(s) \in Seq({i \in 1 .. n : IsChar(s[i])})
<1>1. CharsOf(s) = FlattenSeq(Shown(s)) /\ Positions(s) = FlattenSeq(Places(s))
  BY DEF CharsOf, Positions, Shown, Places
<1>2. \A C : \A q \in [1 .. n -> Seq(C)] : q \in Seq(Seq(C))
  OBVIOUS
<1>3. ASSUME NEW C, NEW q \in [1 .. n -> Seq(C)] PROVE FlattenSeq(q) \in Seq(C)
  BY <1>2, FlattenOf
<1>4. /\ Shown(s) \in [1 .. n -> Seq({t \in S : IsChar(t)})]
      /\ Places(s) \in [1 .. n -> Seq({i \in 1 .. n : IsChar(s[i])})]
  BY ShownOf
<1>5. QED
  BY <1>1, <1>3, <1>4

LEMMA KeptNone == CharsOf(<<>>) = <<>> /\ Positions(<<>>) = <<>>
<1>1. DOMAIN <<>> = {}
  OBVIOUS
<1>2. Shown(<<>>) = <<>> /\ Places(<<>>) = <<>>
  BY <1>1 DEF Shown, Places
<1>3. QED
  BY <1>2, FlattenNone DEF CharsOf, Positions, Shown, Places

LEMMA KeptAppend ==
  ASSUME NEW S, NEW s \in Seq(S), NEW e \in S
  PROVE  /\ IsChar(e) => /\ CharsOf(Append(s, e)) = Append(CharsOf(s), e)
                         /\ Positions(Append(s, e)) = Append(Positions(s), Len(s) + 1)
         /\ ~IsChar(e) => /\ CharsOf(Append(s, e)) = CharsOf(s)
                          /\ Positions(Append(s, e)) = Positions(s)
<1>1. PICK u : u = Append(s, e)
  OBVIOUS
<1>2. PICK n \in Nat : n = Len(s)
  OBVIOUS
<1>3. /\ u \in Seq(S) /\ Len(u) = n + 1 /\ n + 1 \in Nat /\ u[n + 1] = e
      /\ DOMAIN s = 1 .. n /\ DOMAIN u = 1 .. n + 1
      /\ \A i \in 1 .. n : u[i] = s[i] /\ i \in 1 .. n + 1
  BY <1>1, <1>2
<1>4. PICK N : N = 1 .. n + 1
  OBVIOUS
<1>5. /\ Shown(s) \in [1 .. n -> Seq(S)] /\ Shown(u) \in [1 .. n + 1 -> Seq(S)]
      /\ Places(s) \in [1 .. n -> Seq(N)] /\ Places(u) \in [1 .. n + 1 -> Seq(N)]
  <2>1. \A C, B : C \subseteq B => \A k \in {n, n + 1} :
          \A q \in [1 .. k -> Seq(C)] : q \in [1 .. k -> Seq(B)]
    <3>1. \A C, B : C \subseteq B => \A q \in Seq(C) : q \in Seq(B)
      BY SeqMonotonic
    <3>2. QED
      BY <3>1
  <2>2. /\ {t \in S : IsChar(t)} \subseteq S
        /\ {i \in 1 .. n : IsChar(s[i])} \subseteq N
        /\ {i \in 1 .. n + 1 : IsChar(u[i])} \subseteq N
    BY <1>4
  <2>3. /\ Shown(s) \in [1 .. n -> Seq({t \in S : IsChar(t)})]
        /\ Places(s) \in [1 .. n -> Seq({i \in 1 .. n : IsChar(s[i])})]
    BY <1>2, ShownOf
  <2>4. /\ Shown(u) \in [1 .. n + 1 -> Seq({t \in S : IsChar(t)})]
        /\ Places(u) \in [1 .. n + 1 -> Seq({i \in 1 .. n + 1 : IsChar(u[i])})]
    <3>1. u \in Seq(S) /\ n + 1 \in Nat /\ n + 1 = Len(u)
      BY <1>3
    <3>2. QED
      BY <3>1, ShownOf, Zenon
  <2>5. QED
    BY <2>1, <2>2, <2>3, <2>4
<1>6. \A i \in 1 .. n : Shown(u)[i] = Shown(s)[i] /\ Places(u)[i] = Places(s)[i]
  BY <1>3 DEF Shown, Places
<1>7. PICK c, k : c = Shown(u)[n + 1] /\ k = Places(u)[n + 1]
  OBVIOUS
<1>8. /\ CharsOf(u) = CharsOf(s) \o c /\ CharsOf(s) \in Seq(S)
      /\ Positions(u) = Positions(s) \o k /\ Positions(s) \in Seq(N)
  <2>1. /\ FlattenSeq(Shown(u)) = FlattenSeq(Shown(s)) \o c /\ FlattenSeq(Shown(s)) \in Seq(S)
        /\ FlattenSeq(Places(u)) = FlattenSeq(Places(s)) \o k
        /\ FlattenSeq(Places(s)) \in Seq(N)
    BY <1>5, <1>6, <1>7, FlattenMore
  <2>2. QED
    BY <2>1 DEF CharsOf, Positions, Shown, Places
<1>9. /\ IsChar(e) => c = <<e>> /\ k = <<n + 1>>
      /\ ~IsChar(e) => c = <<>> /\ k = <<>>
  <2>1. n + 1 \in DOMAIN u
    BY <1>3
  <2>2. QED
    BY <1>3, <1>7, <2>1 DEF Shown, Places
<1>10. CASE IsChar(e)
  <2>1. n + 1 \in N
    BY <1>4
  <2>2. /\ CharsOf(s) \o <<e>> = Append(CharsOf(s), e)
        /\ Positions(s) \o <<n + 1>> = Append(Positions(s), n + 1)
    BY <1>8, <2>1, AppendIsConcat
  <2>3. QED
    BY <1>1, <1>2, <1>8, <1>9, <1>10, <2>2, Zenon
<1>11. CASE ~IsChar(e)
  <2>1. CharsOf(s) \o <<>> = CharsOf(s) /\ Positions(s) \o <<>> = Positions(s)
    BY <1>8, ConcatEmptySeq
  <2>2. QED
    BY <1>1, <1>8, <1>9, <1>11, <2>1, Zenon
<1>12. QED
  BY <1>10, <1>11

-----------------------------------------------------------------------------
(* Kinds of glyphs.                                                         *)

Letter == {t \in Token : IsChar(t)}

LEMMA Kinds ==
  /\ Letter \subseteq Glyph /\ Token \subseteq Glyph /\ Reset \in Glyph
  /\ \A c \in Style : ConvertCode(c) \in Glyph
  /\ \A t \in Token : IsChar(t) <=> ~IsCode(t)
  /\ \A t \in Token : IsCode(t) => t \in Style
  /\ \A t : IsLF(t) => IsLineEnd(t)
  /\ \A t : IsLineEnd(t) => IsChar(t) /\ ~IsCode(t)
  /\ \A c : ~IsChar(ConvertCode(c))
  /\ ~IsChar(Reset) /\ DefaultCode \in Style
<1>1. \A c : DOMAIN Char(c) = {"char"}
  BY DEF Char
<1>2. \A n : DOMAIN ColourCode(n) = {"style", "bg", "fg"}
  BY DEF ColourCode
<1>3. \A c : DOMAIN ConvertCode(c) = {"styles", "bg", "colour"}
  BY DEF ConvertCode
<1>4. DOMAIN Reset = {"off"}
  BY DEF Reset
<1>5. \A t \in Token : IsChar(t) <=> ~IsCode(t)
  BY <1>1, <1>2 DEF Token, IsChar, IsCode
<1>6. \A t : IsLineEnd(t) => IsChar(t) /\ ~IsCode(t)
  BY <1>1 DEF IsLineEnd, IsChar, IsCode
<1>7. (\A c : ~IsChar(ConvertCode(c))) /\ ~IsChar(Reset)
  BY <1>3, <1>4 DEF IsChar
<1>8. \A t : IsLF(t) => IsLineEnd(t)
  BY DEF IsLF, IsLineEnd
<1>9. Letter \subseteq Glyph /\ Token \subseteq Glyph /\ Reset \in Glyph
  BY DEF Letter, Glyph
<1>10. \A c \in Style : ConvertCode(c) \in Glyph
  BY DEF Glyph
<1>11. DefaultCode \in Style /\ \A t \in Token : IsCode(t) => t \in Style
  BY DEF Style
<1>12. QED
  BY <1>5, <1>6, <1>7, <1>8, <1>9, <1>10, <1>11

-----------------------------------------------------------------------------
(* The rendition of what has been sent, as glyphs are added to it.          *)

Current(h) == Rendition(h, Len(h) + 1)

LEMMA RenditionNone == Current(<<>>) = Reset
<1>1. Len(<<>>) = 0
  OBVIOUS
<1>2. {i \in 1 .. 1 - 1 : ~IsChar(<<>>[i])} = {}
  OBVIOUS
<1>3. SelectLastInSubSeq(<<>>, 1, 1 - 1, LAMBDA t : ~IsChar(t)) = 0
  BY <1>2 DEF SelectLastInSubSeq
<1>4. 0 + 1 - 1 = 1 - 1
  OBVIOUS
<1>5. QED
  BY <1>1, <1>3, <1>4 DEF Current, Rendition

LEMMA RenditionAppend ==
  ASSUME NEW S, NEW s \in Seq(S), NEW e \in S
  PROVE  /\ \A i \in 1 .. Len(s) + 1 : Rendition(Append(s, e), i) = Rendition(s, i)
         /\ IsChar(e) => Current(Append(s, e)) = Current(s)
         /\ ~IsChar(e) => Current(Append(s, e)) = e
<1>1. PICK u : u = Append(s, e)
  OBVIOUS
<1>2. PICK n \in Nat : n = Len(s)
  OBVIOUS
<1>3. /\ Len(u) = n + 1 /\ u[n + 1] = e /\ \A i \in 1 .. n : u[i] = s[i]
  BY <1>1, <1>2
<1> DEFINE Wide(v, k) == {j \in 1 .. k : ~IsChar(v[j])}
           Of(v, k) == LET r == IF Wide(v, k) # {} THEN Max(Wide(v, k)) ELSE 0
                       IN  IF r = 0 THEN Reset ELSE v[r]
<1>4. \A v : \A k \in Int : Rendition(v, k + 1) = Of(v, k)
  <2> SUFFICES ASSUME NEW v, NEW k \in Int PROVE Rendition(v, k + 1) = Of(v, k)
    OBVIOUS
  <2>1. k + 1 - 1 = k
    OBVIOUS
  <2>2. QED
    BY <2>1 DEF Rendition, SelectLastInSubSeq
<1>5. ASSUME NEW k \in 0 .. n PROVE Of(u, k) = Of(s, k)
  <2>1. \A j \in 1 .. k : u[j] = s[j]
    BY <1>3
  <2>2. PICK W : W = Wide(u, k) /\ W = Wide(s, k)
    BY <2>1
  <2>3. PICK r : r = (IF W # {} THEN Max(W) ELSE 0)
    OBVIOUS
  <2>4. W \subseteq 1 .. k
    BY <2>2
  <2>5. r \in {0} \cup W
    <3>1. k \in Nat
      OBVIOUS
    <3>2. QED
      BY <2>3, <2>4, <3>1, LastOf
  <2>6. r # 0 => u[r] = s[r]
    BY <2>1, <2>4, <2>5
  <2>7. Of(u, k) = (IF r = 0 THEN Reset ELSE u[r]) /\ Of(s, k) = IF r = 0 THEN Reset ELSE s[r]
    BY <2>2, <2>3, Zenon
  <2>8. QED
    BY <2>6, <2>7
<1>6. ASSUME NEW i \in 1 .. n + 1 PROVE Rendition(u, i) = Rendition(s, i)
  <2>1. PICK k \in 0 .. n : i = k + 1
    <3>1. i - 1 \in 0 .. n /\ i = (i - 1) + 1
      OBVIOUS
    <3>2. QED
      BY <3>1
  <2>2. Rendition(u, k + 1) = Of(u, k) /\ Rendition(s, k + 1) = Of(s, k) /\ Of(u, k) = Of(s, k)
    <3>1. k \in Int
      OBVIOUS
    <3>2. QED
      BY <1>4, <1>5, <3>1, Zenon
  <2>3. QED
    BY <2>1, <2>2, Zenon
<1>7. Current(u) = Of(u, n + 1) /\ Current(s) = Of(s, n)
  <2>1. n + 1 \in Int /\ n \in Int
    OBVIOUS
  <2>2. Current(u) = Rendition(u, (n + 1) + 1) /\ Current(s) = Rendition(s, n + 1)
    BY <1>2, <1>3 DEF Current
  <2>3. QED
    BY <1>4, <2>1, <2>2, Zenon
<1>8. CASE IsChar(e)
  <2>1. \A j \in 1 .. n + 1 : j \in 1 .. n \/ j = n + 1
    OBVIOUS
  <2>2. \A j : j \in 1 .. n => j \in 1 .. n + 1
    OBVIOUS
  <2>3. Wide(u, n + 1) = Wide(u, n)
    BY <1>3, <1>8, <2>1, <2>2
  <2>4. Of(u, n + 1) = Of(u, n)
    BY <2>3, Zenon
  <2>5. Of(u, n) = Of(s, n)
    <3>1. n \in 0 .. n
      OBVIOUS
    <3>2. QED
      BY <1>5, <3>1, Zenon
  <2>6. QED
    BY <1>1, <1>2, <1>6, <1>7, <1>8, <2>4, <2>5
<1>9. CASE ~IsChar(e)
  <2>1. PICK W : W = Wide(u, n + 1)
    OBVIOUS
  <2>2. n + 1 \in W /\ W \subseteq 0 .. n + 1 /\ n + 1 \in Nat /\ W # {}
    BY <1>3, <1>9, <2>1
  <2>3. Max(W) \in W /\ Max(W) >= n + 1
    BY <2>2, MaxOf
  <2>4. Max(W) = n + 1 /\ n + 1 # 0
    <3>1. PICK r : r = Max(W)
      OBVIOUS
    <3>2. r \in 0 .. n + 1 /\ r >= n + 1
      BY <2>2, <2>3, <3>1, Zenon
    <3>3. QED
      BY <3>1, <3>2
  <2>5. Of(u, n + 1) = u[n + 1]
    BY <2>1, <2>2, <2>4, Zenon
  <2>6. QED
    BY <1>1, <1>2, <1>3, <1>6, <1>7, <1>9, <2>5
<1>10. QED
  BY <1>8, <1>9

-----------------------------------------------------------------------------
(* What has been sent follows the text up to position a.                    *)

Fits(m, i, r) ==
  \/ IsLineEnd(m[i])
  \/ r = ColourAt(m, i)
  \/ r = Reset /\ Repeats(m, i)

Matched(m, h, from, to) ==
  Len(to) = Len(from) /\ \A k \in DOMAIN from : Fits(m, from[k], Rendition(h, to[k]))

Follows(m, a, h) ==
  LET u == SubSeq(m, 1, a - 1)
  IN  CharsOf(h) = CharsOf(u) /\ Matched(m, h, Positions(u), Positions(h))

(* The beginning of a text, one token longer.                               *)
LEMMA Longer ==
  ASSUME NEW m \in Text, NEW a \in 1 .. Len(m)
  PROVE  /\ SubSeq(m, 1, a - 1) \in Seq(Token) /\ Len(SubSeq(m, 1, a - 1)) = a - 1
         /\ SubSeq(m, 1, a + 1 - 1) = Append(SubSeq(m, 1, a - 1), m[a]) /\ m[a] \in Token
<1>1. m \in Seq(Token) /\ m[a] \in Token /\ a - 1 \in Int /\ 1 \in Int
  BY DEF Text
<1>2. \A i \in 1 .. a - 1 : m[i] \in Token
  BY <1>1
<1>3. SubSeq(m, 1, a - 1) \in Seq(Token) /\ Len(SubSeq(m, 1, a - 1)) = a - 1
  <2>1. /\ SubSeq(m, 1, a - 1) \in Seq(Token)
        /\ Len(SubSeq(m, 1, a - 1)) = IF 1 <= a - 1 THEN a - 1 - 1 + 1 ELSE 0
    BY <1>1, <1>2, SubSeqProperties
  <2>2. QED
    BY <2>1
<1>4. SubSeq(m, 1, a) = SubSeq(m, 1, a - 1) \o <<m[a]>>
  <2>1. 1 \in 1 .. Len(m) /\ a \in 1 .. Len(m)
    BY <1>1
  <2>2. QED
    BY <1>1, <2>1, SubSeqRecursiveSecond
<1>5. SubSeq(m, 1, a - 1) \o <<m[a]>> = Append(SubSeq(m, 1, a - 1), m[a])
  BY <1>1, <1>3, AppendIsConcat
<1>6. a + 1 - 1 = a
  OBVIOUS
<1>7. QED
  BY <1>1, <1>3, <1>4, <1>5, <1>6, Zenon

(* An escape sequence disturbs nothing.                                     *)
LEMMA FollowsWide ==
  ASSUME NEW m \in Text, NEW a \in 1 .. Len(m) + 1, NEW h \in Seq(Glyph), Follows(m, a, h),
         NEW e \in Glyph, ~IsChar(e)
  PROVE  Follows(m, a, Append(h, e))
<1>1. PICK u : u = SubSeq(m, 1, a - 1)
  OBVIOUS
<1>2. PICK g : g = Append(h, e)
  OBVIOUS
<1>3. CharsOf(g) = CharsOf(h) /\ Positions(g) = Positions(h)
  BY <1>2, KeptAppend
<1>4. PICK from, to : from = Positions(u) /\ to = Positions(h)
  OBVIOUS
<1>5. to \in Seq(1 .. Len(h))
  <2>1. PICK n \in Nat : n = Len(h)
    OBVIOUS
  <2>2. to \in Seq({i \in 1 .. n : IsChar(h[i])})
    BY <1>4, <2>1, KeptOf
  <2>3. {i \in 1 .. n : IsChar(h[i])} \subseteq 1 .. n
    OBVIOUS
  <2>4. QED
    BY <2>1, <2>2, <2>3, SeqMonotonic
<1>6. /\ CharsOf(h) = CharsOf(u) /\ Len(to) = Len(from)
      /\ \A k \in DOMAIN from : Fits(m, from[k], Rendition(h, to[k]))
  BY <1>1, <1>4 DEF Follows, Matched
<1>7. from \in Seq(Nat)
  <2>1. u \in Seq(Token)
    <3>1. a - 1 \in Int /\ 1 \in Nat \ {0} /\ a - 1 <= Len(m)
      BY DEF Text
    <3>2. QED
      BY <1>1, <3>1, SubText DEF Text
  <2>2. PICK n \in Nat : n = Len(u)
    BY <2>1
  <2>3. from \in Seq({i \in 1 .. n : IsChar(u[i])})
    BY <1>4, <2>1, <2>2, KeptOf
  <2>4. {i \in 1 .. n : IsChar(u[i])} \subseteq Nat
    OBVIOUS
  <2>5. QED
    BY <2>3, <2>4, SeqMonotonic
<1>8. ASSUME NEW k \in DOMAIN from PROVE Fits(m, from[k], Rendition(g, to[k]))
  <2>1. to[k] \in 1 .. Len(h) + 1
    <3>1. k \in 1 .. Len(to)
      BY <1>6, <1>7
    <3>2. to[k] \in 1 .. Len(h) /\ Len(h) \in Nat
      BY <1>5, <3>1
    <3>3. QED
      BY <3>2
  <2>2. Rendition(g, to[k]) = Rendition(h, to[k])
    BY <1>2, <2>1, RenditionAppend
  <2>3. QED
    BY <1>6, <1>8, <2>2
<1>9. Matched(m, g, from, to)
  BY <1>6, <1>8 DEF Matched
<1>10. QED
  BY <1>1, <1>2, <1>3, <1>4, <1>6, <1>9, Zenon DEF Follows

(* Nor does a code that is not shown.                                       *)
LEMMA FollowsLead ==
  ASSUME NEW m \in Text, NEW a \in 1 .. Len(m), NEW h, Follows(m, a, h), IsCode(m[a])
  PROVE  Follows(m, a + 1, h)
<1>1. PICK u, v : u = SubSeq(m, 1, a - 1) /\ v = SubSeq(m, 1, a + 1 - 1)
  OBVIOUS
<1>2. u \in Seq(Token) /\ v = Append(u, m[a]) /\ m[a] \in Token
  BY <1>1, Longer, Zenon
<1>3. ~IsChar(m[a])
  BY <1>2, Kinds
<1>4. CharsOf(v) = CharsOf(u) /\ Positions(v) = Positions(u)
  BY <1>2, <1>3, KeptAppend
<1>5. CharsOf(h) = CharsOf(u) /\ Matched(m, h, Positions(u), Positions(h))
  BY <1>1, Zenon DEF Follows
<1>6. CharsOf(h) = CharsOf(v) /\ Matched(m, h, Positions(v), Positions(h))
  BY <1>4, <1>5, Zenon
<1>7. QED
  BY <1>1, <1>6 DEF Follows

(* A character that is shown as it should be.                               *)
LEMMA FollowsChar ==
  ASSUME NEW m \in Text, NEW a \in 1 .. Len(m), NEW h \in Seq(Glyph), Follows(m, a, h),
         IsChar(m[a]), Fits(m, a, Current(h))
  PROVE  /\ Follows(m, a + 1, Append(h, m[a])) /\ Current(Append(h, m[a])) = Current(h)
         /\ Append(h, m[a]) \in Seq(Glyph)
<1>1. PICK u, v : u = SubSeq(m, 1, a - 1) /\ v = SubSeq(m, 1, a + 1 - 1)
  OBVIOUS
<1>2. u \in Seq(Token) /\ v = Append(u, m[a]) /\ m[a] \in Token /\ Len(u) = a - 1
  BY <1>1, Longer, Zenon
<1>3. PICK e \in Glyph : e = m[a] /\ e \in Token
  BY <1>2, Kinds
<1>4. PICK g : g = Append(h, e)
  OBVIOUS
<1>5. g \in Seq(Glyph) /\ Current(g) = Current(h)
  BY <1>3, <1>4, RenditionAppend
<1>6. PICK from, to : from = Positions(u) /\ to = Positions(h)
  OBVIOUS
<1>7. PICK l \in Nat : l = Len(h)
  OBVIOUS
<1>8. to \in Seq(1 .. l)
  <2>1. to \in Seq({i \in 1 .. l : IsChar(h[i])})
    BY <1>6, <1>7, KeptOf
  <2>2. {i \in 1 .. l : IsChar(h[i])} \subseteq 1 .. l
    OBVIOUS
  <2>3. QED
    BY <2>1, <2>2, SeqMonotonic
<1>9. from \in Seq(Nat)
  <2>1. PICK n \in Nat : n = Len(u)
    BY <1>2
  <2>2. from \in Seq({i \in 1 .. n : IsChar(u[i])})
    BY <1>2, <1>6, <2>1, KeptOf
  <2>3. {i \in 1 .. n : IsChar(u[i])} \subseteq Nat
    OBVIOUS
  <2>4. QED
    BY <2>2, <2>3, SeqMonotonic
<1>10. /\ CharsOf(h) = CharsOf(u) /\ Len(to) = Len(from)
       /\ \A k \in DOMAIN from : Fits(m, from[k], Rendition(h, to[k]))
  BY <1>1, <1>6 DEF Follows, Matched
<1>11. PICK n \in Nat : n = Len(from) /\ n = Len(to)
  BY <1>9, <1>10
<1>12. /\ CharsOf(g) = Append(CharsOf(h), e) /\ Positions(g) = Append(to, l + 1)
       /\ CharsOf(v) = Append(CharsOf(u), e) /\ Positions(v) = Append(from, a)
  <2>1. CharsOf(g) = Append(CharsOf(h), e) /\ Positions(g) = Append(to, l + 1)
    BY <1>3, <1>4, <1>6, <1>7, KeptAppend
  <2>2. CharsOf(v) = Append(CharsOf(u), e) /\ Positions(v) = Append(from, a - 1 + 1)
    BY <1>2, <1>3, <1>6, KeptAppend
  <2>3. a - 1 + 1 = a
    OBVIOUS
  <2>4. QED
    BY <2>1, <2>2, <2>3
<1>13. PICK fr, tr : fr = Append(from, a) /\ tr = Append(to, l + 1)
  OBVIOUS
<1>14. /\ Len(tr) = n + 1 /\ tr[n + 1] = l + 1 /\ \A k \in 1 .. n : tr[k] = to[k] /\ to[k] \in 1 .. l
  BY <1>8, <1>11, <1>13
<1>15. /\ Len(fr) = n + 1 /\ fr[n + 1] = a /\ DOMAIN fr = 1 .. n + 1
       /\ \A k \in 1 .. n : fr[k] = from[k]
  <2>1. a \in Nat
    BY DEF Text
  <2>2. fr \in Seq(Nat) /\ Len(fr) = Len(from) + 1 /\ fr[Len(from) + 1] = a
    BY <1>9, <1>13, <2>1, AppendProperties
  <2>3. \A k \in 1 .. Len(from) : fr[k] = from[k]
    BY <1>9, <1>13, <2>1, AppendProperties
  <2>4. DOMAIN fr = 1 .. Len(fr)
    BY <2>2, LenProperties
  <2>5. QED
    BY <1>11, <2>2, <2>3, <2>4
<1>16. ASSUME NEW k \in DOMAIN fr PROVE Fits(m, fr[k], Rendition(g, tr[k]))
  <2>1. CASE k = n + 1
    <3>1. Rendition(g, tr[k]) = Current(h)
      <4>1. Rendition(g, l + 1) = Rendition(h, l + 1)
        <5>1. l + 1 \in 1 .. Len(h) + 1
          BY <1>7
        <5>2. QED
          BY <1>3, <1>4, <5>1, RenditionAppend
      <4>2. QED
        BY <1>7, <1>14, <2>1, <4>1 DEF Current
    <3>2. QED
      BY <1>15, <2>1, <3>1
  <2>2. CASE k \in 1 .. n
    <3>1. tr[k] = to[k] /\ to[k] \in 1 .. Len(h) + 1
      BY <1>7, <1>14, <2>2
    <3>2. Rendition(g, tr[k]) = Rendition(h, to[k])
      BY <1>3, <1>4, <3>1, RenditionAppend
    <3>3. fr[k] = from[k] /\ k \in DOMAIN from
      <4>1. DOMAIN from = 1 .. n
        BY <1>9, <1>11, LenProperties
      <4>2. QED
        BY <1>15, <2>2, <4>1
    <3>4. QED
      BY <1>10, <3>2, <3>3
  <2>3. QED
    BY <1>15, <2>1, <2>2
<1>17. Follows(m, a + 1, g)
  <2>1. CharsOf(g) = CharsOf(v) /\ Len(tr) = Len(fr)
    BY <1>10, <1>12, <1>14, <1>15
  <2>2. Matched(m, g, fr, tr)
    BY <1>16, <2>1 DEF Matched
  <2>3. Matched(m, g, Positions(v), Positions(g))
    BY <1>12, <1>13, <2>2, Zenon
  <2>4. QED
    BY <1>1, <2>1, <2>3 DEF Follows
<1>18. QED
  BY <1>3, <1>4, <1>5, <1>17

LEMMA OneMore ==
  ASSUME NEW S, NEW m \in Seq(S), NEW a \in 1 .. Len(m), NEW j \in a .. Len(m), NEW h \in Seq(S)
  PROVE  /\ h \o SubSeq(m, a, j - 1) \in Seq(S) /\ m[j] \in S
         /\ h \o SubSeq(m, a, j) = Append(h \o SubSeq(m, a, j - 1), m[j])
<1>1. m[j] \in S /\ a \in Int /\ j - 1 \in Int /\ j - 1 <= Len(m)
  OBVIOUS
<1>2. PICK v : v = SubSeq(m, a, j - 1)
  OBVIOUS
<1>3. v \in Seq(S)
  <2>1. \A i \in a .. j - 1 : m[i] \in S
    OBVIOUS
  <2>2. QED
    BY <1>1, <1>2, <2>1, SubSeqProperties
<1>4. SubSeq(m, a, j) = v \o <<m[j]>>
  BY <1>2, SubSeqRecursiveSecond
<1>5. PICK e \in Seq(S) : e = <<m[j]>>
  <2>1. <<m[j]>> \in Seq(S)
    BY <1>1
  <2>2. QED
    BY <2>1, Zenon
<1>6. (h \o v) \o e = h \o (v \o e)
  BY <1>3, SMTT(20)
<1>7. h \o v \in Seq(S)
  BY <1>3
<1>8. (h \o v) \o <<m[j]>> = Append(h \o v, m[j])
  BY <1>1, <1>7, AppendIsConcat
<1>9. QED
  BY <1>1, <1>2, <1>4, <1>5, <1>6, <1>7, <1>8, Zenon

(* A run of characters.                                                     *)
LEMMA FollowsBlock ==
  ASSUME NEW m \in Text, NEW a \in 1 .. Len(m) + 1, NEW b \in a .. Len(m) + 1,
         NEW h \in Seq(Glyph), Follows(m, a, h),
         \A i \in a .. b - 1 : IsChar(m[i]) /\ Fits(m, i, Current(h))
  PROVE  /\ h \o SubSeq(m, a, b - 1) \in Seq(Glyph)
         /\ Follows(m, b, h \o SubSeq(m, a, b - 1))
         /\ Current(h \o SubSeq(m, a, b - 1)) = Current(h)
<1>1. PICK n \in Nat : n = Len(m) /\ a \in 1 .. n + 1 /\ b \in a .. n + 1 /\ m \in Seq(Glyph)
  <2>1. m \in Seq(Token)
    BY DEF Text
  <2>2. m \in Seq(Glyph)
    BY <2>1, Kinds, SeqMonotonic
  <2>3. QED
    BY <2>1, <2>2
<1>2. PICK l \in Nat : l = b - a
  BY <1>1
<1>3. PICK s : s = [k \in 0 .. l |-> h \o SubSeq(m, a, a + k - 1)]
  OBVIOUS
<1>4. PICK T : T = {k \in 0 .. l : /\ s[k] \in Seq(Glyph) /\ Follows(m, a + k, s[k])
                                   /\ Current(s[k]) = Current(h)}
  OBVIOUS
<1>5. 0 \in T
  <2>1. SubSeq(m, a, a - 1) = <<>>
    BY <1>1, SubSeqEmpty
  <2>2. h \o <<>> = h
    OBVIOUS
  <2>3. a + 0 = a /\ a + 0 - 1 = a - 1 /\ 0 \in 0 .. l
    BY <1>1, <1>2
  <2>4. s[0] = h
    BY <1>3, <2>1, <2>2, <2>3
  <2>5. QED
    BY <1>4, <2>3, <2>4
<1>6. ASSUME NEW k \in 0 .. l - 1, k \in T PROVE k + 1 \in T
  <2>1. PICK j \in 1 .. n : j = a + k /\ j \in a .. b - 1
    BY <1>1, <1>2
  <2>2. PICK g, f : g = s[k] /\ f = s[k + 1]
    OBVIOUS
  <2>3. g \in Seq(Glyph) /\ Follows(m, j, g) /\ Current(g) = Current(h)
    BY <1>4, <1>6, <2>1, <2>2
  <2>4. k \in 0 .. l /\ k + 1 \in 0 .. l /\ a + (k + 1) - 1 = j /\ a + (k + 1) = j + 1
    BY <1>1, <2>1
  <2>5. g = h \o SubSeq(m, a, j - 1) /\ f = h \o SubSeq(m, a, j)
    BY <1>3, <2>1, <2>2, <2>4
  <2>6. f = Append(g, m[j])
    <3>1. a \in 1 .. Len(m) /\ j \in a .. Len(m)
      BY <1>1, <2>1
    <3>2. QED
      BY <1>1, <2>5, <3>1, OneMore
  <2>7. IsChar(m[j]) /\ Fits(m, j, Current(g))
    BY <2>1, <2>3
  <2>8. Follows(m, j + 1, f) /\ Current(f) = Current(g) /\ f \in Seq(Glyph)
    BY <1>1, <2>1, <2>3, <2>6, <2>7, FollowsChar
  <2>9. QED
    BY <1>4, <2>2, <2>3, <2>4, <2>8
<1>7. l \in T
  BY <1>5, <1>6, Upward
<1>8. PICK f : f = s[l]
  OBVIOUS
<1>9. a + l = b /\ l \in 0 .. l /\ a + l - 1 = b - 1
  BY <1>1, <1>2
<1>10. f = h \o SubSeq(m, a, b - 1)
  BY <1>3, <1>8, <1>9
<1>11. f \in Seq(Glyph) /\ Follows(m, b, f) /\ Current(f) = Current(h)
  BY <1>4, <1>7, <1>8, <1>9
<1>12. QED
  BY <1>10, <1>11

-----------------------------------------------------------------------------
(* Where things are in a text.                                              *)

LEMMA TextEndOf ==
  ASSUME NEW m \in Text, NEW n \in Nat, n = Len(m), NEW c \in 1 .. n,
         NEW e, e = TextEnd(m, c)
  PROVE  /\ e \in c + 1 .. n + 1
         /\ \A i \in c + 1 .. e - 1 : ~IsLineEnd(m[i]) /\ ~IsCode(m[i])
         /\ e <= n => IsLineEnd(m[e]) \/ IsCode(m[e])
<1>1. PICK T : T = {i \in c + 1 .. n : IsLineEnd(m[i]) \/ IsCode(m[i])}
  OBVIOUS
<1>2. e = Min({n + 1} \cup T)
  BY <1>1 DEF TextEnd
<1>3. c + 1 \in 1 .. n + 1 /\ T \subseteq c + 1 .. n
  BY <1>1
<1>4. e \in c + 1 .. n + 1 /\ (e <= n => e \in T) /\ \A i \in T : e <= i
  BY <1>2, <1>3, FirstOf
<1>5. ASSUME NEW i \in c + 1 .. e - 1 PROVE ~IsLineEnd(m[i]) /\ ~IsCode(m[i])
  BY <1>1, <1>4
<1>6. QED
  BY <1>1, <1>4, <1>5

LEMMA EolEndOf ==
  ASSUME NEW m \in Text, NEW n \in Nat, n = Len(m), NEW e \in 1 .. n + 1,
         NEW g, g = EolEnd(m, e)
  PROVE  /\ g \in e .. n + 1 /\ \A i \in e .. g - 1 : IsLineEnd(m[i])
         /\ g <= n => ~IsLineEnd(m[g])
<1>1. PICK T : T = {i \in e .. n : ~IsLineEnd(m[i])}
  OBVIOUS
<1>2. g = Min({n + 1} \cup T)
  BY <1>1 DEF EolEnd
<1>3. T \subseteq e .. n
  BY <1>1
<1>4. g \in e .. n + 1 /\ (g <= n => g \in T) /\ \A i \in T : g <= i
  BY <1>2, <1>3, FirstOf
<1>5. ASSUME NEW i \in e .. g - 1 PROVE IsLineEnd(m[i])
  BY <1>1, <1>4
<1>6. QED
  BY <1>1, <1>4, <1>5

(* A search goes on behind the codes that have been found, and behind no    *)
(* other.                                                                   *)
LEMMA SearchedOf ==
  ASSUME NEW m \in Text, NEW n \in Nat, n = Len(m), NEW k \in 0 .. n,
         NEW p, p = SearchedFrom(m, k + 1)
  PROVE  /\ p \in 1 .. n + 1
         /\ \A j \in 1 .. n : IsCode(m[j]) => (j <= k <=> j < p)
         /\ k = 0 => p = 1
         /\ k # 0 /\ IsCode(m[k]) => p = TextEnd(m, k)
         /\ k # 0 /\ ~IsCode(m[k]) => p = SearchedFrom(m, k)
<1>1. PICK I : I = {i \in 1 .. k : IsCode(m[i])}
  OBVIOUS
<1>2. I \subseteq 1 .. n
  BY <1>1
<1>3. PICK b : b = IF I # {} THEN Max(I) ELSE 0
  OBVIOUS
<1>4. \/ b = 0 /\ I = {}
      \/ b \in I /\ b \in 1 .. n /\ \A i \in I : i <= b
  BY <1>2, <1>3, LastOf
<1>5. k + 1 - 1 = k
  OBVIOUS
<1>6. p = IF b = 0 THEN 1 ELSE TextEnd(m, b)
  BY <1>1, <1>3, <1>5 DEF SearchedFrom, SelectLastInSubSeq
<1>7. /\ p \in 1 .. n + 1
      /\ \A j \in 1 .. n : IsCode(m[j]) => (j <= k <=> j < p)
  <2>1. CASE b = 0
    <3>1. I = {} /\ p = 1 /\ 1 \in 1 .. n + 1
      BY <1>4, <1>6, <2>1
    <3>2. ASSUME NEW j \in 1 .. n, IsCode(m[j]) PROVE j <= k <=> j < p
      BY <1>1, <3>1, <3>2
    <3>3. QED
      BY <3>1, <3>2
  <2>2. CASE b # 0
    <3>1. b \in 1 .. n /\ b \in I /\ p = TextEnd(m, b)
      BY <1>4, <1>6, <2>2
    <3>2. p \in b + 1 .. n + 1 /\ \A i \in b + 1 .. p - 1 : ~IsCode(m[i])
      BY <3>1, TextEndOf
    <3>3. ASSUME NEW j \in 1 .. n, IsCode(m[j]) PROVE j <= k <=> j < p
      <4>1. j <= k => j <= b
        BY <1>1, <1>4, <2>2, <3>3
      <4>2. j < p => j <= b
        BY <3>1, <3>2, <3>3
      <4>3. b <= k
        BY <1>1, <3>1
      <4>4. QED
        BY <3>1, <3>2, <4>1, <4>2, <4>3
    <3>4. QED
      BY <3>1, <3>2, <3>3
  <2>3. QED
    BY <2>1, <2>2
<1>8. k = 0 => p = 1
  BY <1>1, <1>4, <1>6
<1>9. k # 0 /\ IsCode(m[k]) => p = TextEnd(m, k)
  <2> SUFFICES ASSUME k # 0, IsCode(m[k]) PROVE p = TextEnd(m, k)
    OBVIOUS
  <2>1. k \in I /\ b # 0
    BY <1>1, <1>4
  <2>2. b = k
    BY <1>1, <1>4, <2>1
  <2>3. QED
    BY <1>6, <2>1, <2>2
<1>10. k # 0 /\ ~IsCode(m[k]) => p = SearchedFrom(m, k)
  <2> SUFFICES ASSUME k # 0, ~IsCode(m[k]) PROVE p = SearchedFrom(m, k)
    OBVIOUS
  <2>1. \A i : i \in 1 .. k /\ IsCode(m[i]) <=> i \in 1 .. k - 1 /\ IsCode(m[i])
    OBVIOUS
  <2>2. I = {i \in 1 .. k - 1 : IsCode(m[i])}
    BY <1>1, <2>1
  <2>3. SearchedFrom(m, k) = IF b = 0 THEN 1 ELSE TextEnd(m, b)
    BY <1>3, <2>2 DEF SearchedFrom, SelectLastInSubSeq
  <2>4. QED
    BY <1>6, <2>3
<1>11. QED
  BY <1>7, <1>8, <1>9, <1>10

LEMMA Lettered ==
  ASSUME NEW m \in Text, NEW i \in Nat \ {0}, NEW j \in Int, j <= Len(m),
         \A k \in i .. j : ~IsCode(m[k])
  PROVE  SubSeq(m, i, j) \in Seq(Letter)
<1>1. m \in Seq(Token) /\ Len(m) \in Nat
  BY DEF Text
<1>2. \A k \in i .. j : m[k] \in Letter
  <2>1. \A k \in i .. j : k \in 1 .. Len(m)
    BY <1>1
  <2>2. \A k \in i .. j : m[k] \in Token
    BY <1>1, <2>1
  <2>3. QED
    BY <2>2, Kinds DEF Letter
<1>3. QED
  BY <1>2, SubSeqProperties

(* The match of the code at c: its preamble begins at start, its text ends  *)
(* at e, and the line ends behind it at g.                                  *)
Match(m, start, c, e, g) ==
  [preamble |-> SubSeq(m, start, c - 1), code |-> m[c],
   text |-> SubSeq(m, c + 1, e - 1), eol |-> SubSeq(m, e, g - 1)]

(* A match searched from p begins at start: there is no LF from there on.   *)
StartsAt(m, p, c, start) ==
  /\ start \in p .. c /\ \A i \in start .. c - 1 : ~IsLF(m[i])
  /\ start = p \/ IsLF(m[start - 1])

LEMMA MatchOf ==
  ASSUME NEW m \in Text, NEW n \in Nat, n = Len(m), NEW c \in 1 .. n, IsCode(m[c]),
         NEW p, p = SearchedFrom(m, c), NEW e, e = TextEnd(m, c), NEW g, g = EolEnd(m, e)
  PROVE  /\ p \in 1 .. c /\ e \in c + 1 .. n + 1 /\ g \in e .. n + 1
         /\ \E start \in p .. c :
              StartsAt(m, p, c, start) /\ Capture(m, p, c) = Match(m, start, c, e, g)
<1>1. p \in 1 .. c
  <2>1. PICK k \in 0 .. n : k = c - 1 /\ k + 1 = c
    OBVIOUS
  <2>2. p = SearchedFrom(m, k + 1)
    BY <2>1
  <2>3. p \in 1 .. n + 1 /\ (c <= k <=> c < p)
    BY <2>2, SearchedOf
  <2>4. QED
    BY <2>1, <2>3
<1>2. e \in c + 1 .. n + 1
  BY TextEndOf
<1>3. g \in e .. n + 1
  <2>1. e \in 1 .. n + 1
    BY <1>2
  <2>2. QED
    BY <2>1, EolEndOf
<1>4. PICK I : I = {i \in p .. c - 1 : IsLF(m[i])}
  OBVIOUS
<1>5. PICK b : b = IF I # {} THEN Max(I) ELSE 0
  OBVIOUS
<1>6. \/ b = 0 /\ I = {}
      \/ b \in I /\ b \in 1 .. n /\ \A i \in I : i <= b
  <2>1. I \subseteq 1 .. n
    BY <1>1, <1>4
  <2>2. QED
    BY <1>5, <2>1, LastOf
<1>7. PICK start : start = Max({p, 1 + b})
  OBVIOUS
<1>8. start = (IF b = 0 THEN p ELSE 1 + b) /\ b \in 0 .. n
  <2>1. b \in 0 .. n
    BY <1>6
  <2>2. {p, 1 + b} \subseteq 0 .. n + 1 /\ {p, 1 + b} # {} /\ n + 1 \in Nat
    BY <1>1, <2>1
  <2>3. start \in {p, 1 + b} /\ \A y \in {p, 1 + b} : start >= y
    BY <1>7, <2>2, MaxOf
  <2>4. b = 0 \/ b >= p
    BY <1>4, <1>6
  <2>5. start >= p /\ start >= 1 + b
    BY <2>3
  <2>6. QED
    BY <1>1, <2>1, <2>3, <2>4, <2>5
<1>9. start \in p .. c
  BY <1>1, <1>4, <1>6, <1>8
<1>10. start = p \/ IsLF(m[start - 1])
  <2>1. CASE b # 0
    <3>1. start - 1 = b /\ b \in I
      BY <1>6, <1>8, <2>1
    <3>2. QED
      BY <1>4, <3>1
  <2>2. QED
    BY <1>8, <2>1
<1>11. ASSUME NEW i \in start .. c - 1 PROVE ~IsLF(m[i])
  <2>1. i \in p .. c - 1 /\ (b # 0 => i > b)
    BY <1>1, <1>8, <1>9
  <2>2. i \notin I
    BY <1>6, <1>8, <2>1
  <2>3. QED
    BY <1>4, <2>1, <2>2
<1>12. Capture(m, p, c) = Match(m, start, c, e, g)
  BY <1>4, <1>5, <1>7 DEF Capture, Match, SelectLastInSubSeq
<1>13. StartsAt(m, p, c, start)
  BY <1>9, <1>10, <1>11 DEF StartsAt
<1>14. QED
  BY <1>1, <1>2, <1>3, <1>9, <1>12, <1>13

(* Parts hold no codes but their own.                                       *)
PurePart == [code : Style, text : Seq(Letter), eol : Seq(Letter)]

LEMMA MatchPure ==
  ASSUME NEW m \in Text, NEW n \in Nat, n = Len(m), NEW c \in 1 .. n, IsCode(m[c]),
         NEW p, p = SearchedFrom(m, c), NEW e, e = TextEnd(m, c), NEW g, g = EolEnd(m, e),
         NEW start \in p .. c
  PROVE  /\ SubSeq(m, start, c - 1) \in Seq(Letter)
         /\ SubSeq(m, c + 1, e - 1) \in Seq(Letter)
         /\ SubSeq(m, e, g - 1) \in Seq(Letter)
         /\ m[c] \in Style
<1>1. p \in 1 .. c /\ e \in c + 1 .. n + 1 /\ g \in e .. n + 1
  BY MatchOf
<1>2. \A i \in p .. c - 1 : ~IsCode(m[i])
  <2>1. PICK k \in 0 .. n : k = c - 1 /\ k + 1 = c
    OBVIOUS
  <2>2. p = SearchedFrom(m, k + 1)
    BY <2>1
  <2>3. \A j \in 1 .. n : IsCode(m[j]) => (j <= k <=> j < p)
    BY <2>2, SearchedOf
  <2>4. QED
    BY <1>1, <2>1, <2>3
<1>3. \A i \in c + 1 .. e - 1 : ~IsCode(m[i])
  BY TextEndOf
<1>4. \A i \in e .. g - 1 : ~IsCode(m[i])
  <2>1. e \in 1 .. n + 1
    BY <1>1
  <2>2. \A i \in e .. g - 1 : IsLineEnd(m[i])
    BY <2>1, EolEndOf
  <2>3. QED
    BY <2>2, Kinds
<1>5. m[c] \in Style
  BY DEF Text, Style
<1>6. SubSeq(m, start, c - 1) \in Seq(Letter)
  <2>1. start \in Nat \ {0} /\ c - 1 \in Int /\ c - 1 <= Len(m)
    BY <1>1
  <2>2. \A i \in start .. c - 1 : ~IsCode(m[i])
    BY <1>1, <1>2
  <2>3. QED
    BY <2>1, <2>2, Lettered
<1>7. SubSeq(m, c + 1, e - 1) \in Seq(Letter)
  <2>1. c + 1 \in Nat \ {0} /\ e - 1 \in Int /\ e - 1 <= Len(m)
    BY <1>1
  <2>2. QED
    BY <1>3, <2>1, Lettered
<1>8. SubSeq(m, e, g - 1) \in Seq(Letter)
  <2>1. e \in Nat \ {0} /\ g - 1 \in Int /\ g - 1 <= Len(m)
    BY <1>1
  <2>2. QED
    BY <1>4, <2>1, Lettered
<1>9. QED
  BY <1>5, <1>6, <1>7, <1>8

-----------------------------------------------------------------------------
(* The parts of a text, as its codes are found.                             *)

Found(m, i) ==
  IF IsCode(m[i]) THEN Split(Capture(m, SearchedFrom(m, i), i)) ELSE <<>>
PartsTo(m, k) == FlattenSeq([i \in 1 .. k |-> Found(m, i)])

Preamble(m, start, c) == Part(DefaultCode, SubSeq(m, start, c - 1), <<>>)

(* Prefaced with the preamble, if there is one.                             *)
Prefaced(parts, m, start, c) ==
  IF start = c THEN parts
  ELSE Append(parts, Preamble(m, start, c))
CodePart(m, c, e, g) == Part(m[c], SubSeq(m, c + 1, e - 1), SubSeq(m, e, g - 1))

FoundAs(m, p, c, e, g, start) ==
  /\ StartsAt(m, p, c, start)
  /\ CodePart(m, c, e, g) \in PurePart /\ Preamble(m, start, c) \in PurePart
  /\ Found(m, c) = Prefaced(<<>>, m, start, c) \o <<CodePart(m, c, e, g)>>

LEMMA FoundOf ==
  ASSUME NEW m \in Text, NEW n \in Nat, n = Len(m), NEW c \in 1 .. n, IsCode(m[c]),
         NEW p, p = SearchedFrom(m, c), NEW e, e = TextEnd(m, c), NEW g, g = EolEnd(m, e)
  PROVE  \E start \in p .. c : FoundAs(m, p, c, e, g, start)
<1>1. p \in 1 .. c
  BY MatchOf
<1>2. PICK start \in p .. c :
        StartsAt(m, p, c, start) /\ Capture(m, p, c) = Match(m, start, c, e, g)
  BY MatchOf
<1>3. PICK pre, text, eol \in Seq(Letter) :
        /\ pre = SubSeq(m, start, c - 1) /\ text = SubSeq(m, c + 1, e - 1)
        /\ eol = SubSeq(m, e, g - 1)
  BY MatchPure
<1>4. m[c] \in Style /\ DefaultCode \in Style /\ <<>> \in Seq(Letter)
  <2>1. m[c] \in Style
    BY MatchPure
  <2>2. QED
    BY <2>1, Kinds
<1>5. CodePart(m, c, e, g) = Part(m[c], text, eol)
  BY <1>3 DEF CodePart
<1>6. CodePart(m, c, e, g) \in PurePart /\ Part(DefaultCode, pre, <<>>) \in PurePart
  BY <1>4, <1>5 DEF PurePart, Part
<1>7. pre = <<>> <=> start = c
  <2>1. CASE start = c
    <3>1. c - 1 < c /\ c \in Int /\ c - 1 \in Int
      OBVIOUS
    <3>2. SubSeq(m, c, c - 1) = <<>>
      BY <3>1, SubSeqEmpty
    <3>3. QED
      BY <1>3, <2>1, <3>2
  <2>2. CASE start # c
    <3>1. \A i \in start .. c - 1 : m[i] \in Token
      BY <1>1 DEF Text
    <3>2. start \in Int /\ c - 1 \in Int /\ start <= c - 1
      BY <1>1, <2>2
    <3>3. Len(pre) = c - 1 - start + 1
      BY <1>3, <3>1, <3>2, SubSeqProperties
    <3>4. pre # <<>>
      BY <1>1, <3>2, <3>3
    <3>5. QED
      BY <2>2, <3>4
  <2>3. QED
    BY <2>1, <2>2
<1>8. Found(m, c) = Split(Match(m, start, c, e, g))
  BY <1>2 DEF Found
<1>9. Split(Match(m, start, c, e, g)) =
        (IF pre = <<>> THEN <<>> ELSE <<Part(DefaultCode, pre, <<>>)>>)
        \o <<CodePart(m, c, e, g)>>
  BY <1>3, <1>5 DEF Split, Match
<1>10. Prefaced(<<>>, m, start, c) =
         IF pre = <<>> THEN <<>> ELSE <<Part(DefaultCode, pre, <<>>)>>
  <2>1. PICK x \in PurePart : x = Part(DefaultCode, pre, <<>>)
    BY <1>6
  <2>2. Append(<<>>, x) = <<x>>
    OBVIOUS
  <2>3. QED
    BY <1>3, <1>7, <2>1, <2>2 DEF Prefaced, Preamble
<1>11. Found(m, c) = Prefaced(<<>>, m, start, c) \o <<CodePart(m, c, e, g)>>
  BY <1>8, <1>9, <1>10
<1>12. FoundAs(m, p, c, e, g, start)
  BY <1>2, <1>3, <1>6, <1>11 DEF FoundAs, Preamble
<1>13. QED
  BY <1>12

LEMMA FoundPure ==
  ASSUME NEW m \in Text, NEW i \in 1 .. Len(m)
  PROVE  Found(m, i) \in Seq(PurePart)
<1>1. PICK n \in Nat : n = Len(m) /\ i \in 1 .. n
  BY DEF Text
<1>2. CASE IsCode(m[i])
  <2>1. PICK p, e : p = SearchedFrom(m, i) /\ e = TextEnd(m, i)
    OBVIOUS
  <2>2. PICK g : g = EolEnd(m, e)
    OBVIOUS
  <2>3. PICK start \in p .. i : FoundAs(m, p, i, e, g, start)
    BY <1>1, <1>2, <2>1, <2>2, FoundOf
  <2>4. Prefaced(<<>>, m, start, i) \in Seq(PurePart)
    BY <2>3 DEF FoundAs, Prefaced, Preamble
  <2>5. <<CodePart(m, i, e, g)>> \in Seq(PurePart)
    BY <2>3 DEF FoundAs
  <2>6. QED
    BY <2>3, <2>4, <2>5 DEF FoundAs
<1>3. CASE ~IsCode(m[i])
  <2>1. Found(m, i) = <<>>
    BY <1>3 DEF Found
  <2>2. QED
    BY <2>1
<1>4. QED
  BY <1>2, <1>3

LEMMA PartsToOf ==
  ASSUME NEW m \in Text, NEW n \in Nat, n = Len(m)
  PROVE  /\ PartsTo(m, 0) = <<>>
         /\ \A k \in 0 .. n : PartsTo(m, k) \in Seq(PurePart)
         /\ \A k \in 0 .. n - 1 : PartsTo(m, k + 1) = PartsTo(m, k) \o Found(m, k + 1)
         /\ (\E i \in 1 .. n : IsCode(m[i])) => Parts(m) = PartsTo(m, n)
<1> DEFINE upTo(k) == [i \in 1 .. k |-> Found(m, i)]
<1>1. \A k \in 0 .. n : upTo(k) \in [1 .. k -> Seq(PurePart)]
  <2>1. \A i \in 1 .. n : Found(m, i) \in Seq(PurePart)
    BY FoundPure
  <2>2. QED
    BY <2>1
<1>2. PartsTo(m, 0) = <<>>
  <2>1. upTo(0) = <<>>
    OBVIOUS
  <2>2. QED
    BY <2>1, FlattenNone DEF PartsTo
<1>3. ASSUME NEW k \in 0 .. n PROVE PartsTo(m, k) \in Seq(PurePart)
  <2>1. PICK u : u = upTo(k)
    OBVIOUS
  <2>2. u \in Seq(Seq(PurePart))
    BY <1>1, <2>1
  <2>3. QED
    BY <2>1, <2>2, FlattenOf DEF PartsTo
<1>4. ASSUME NEW k \in 0 .. n - 1
      PROVE  PartsTo(m, k + 1) = PartsTo(m, k) \o Found(m, k + 1)
  <2>1. PICK u, v : u = upTo(k) /\ v = upTo(k + 1)
    OBVIOUS
  <2>2. /\ u \in [1 .. k -> Seq(PurePart)] /\ v \in [1 .. k + 1 -> Seq(PurePart)]
        /\ k \in Nat
    <3>1. k \in 0 .. n /\ k + 1 \in 0 .. n
      OBVIOUS
    <3>2. QED
      BY <1>1, <2>1, <3>1
  <2>3. (\A i \in 1 .. k : v[i] = u[i]) /\ v[k + 1] = Found(m, k + 1)
    BY <2>1
  <2>4. FlattenSeq(v) = FlattenSeq(u) \o v[k + 1]
    BY <2>2, <2>3, FlattenMore
  <2>5. QED
    BY <2>1, <2>3, <2>4 DEF PartsTo
<1>5. (\E i \in 1 .. n : IsCode(m[i])) => Parts(m) = PartsTo(m, n)
  <2> SUFFICES ASSUME \E i \in 1 .. n : IsCode(m[i]) PROVE Parts(m) = PartsTo(m, n)
    OBVIOUS
  <2>1. DOMAIN m = 1 .. n
    BY DEF Text
  <2>2. \E i \in DOMAIN m : IsCode(m[i])
    BY <2>1
  <2>3. QED
    BY <2>1, <2>2 DEF Parts, PartsTo, Found
<1>6. QED
  BY <1>2, <1>3, <1>4, <1>5

(* One code more makes one part or two.                                     *)
LEMMA NextParts ==
  ASSUME NEW m \in Text, NEW n \in Nat, n = Len(m), NEW c \in 1 .. n, NEW p, NEW e, NEW g,
         NEW start, FoundAs(m, p, c, e, g, start)
  PROVE  PartsTo(m, c) =
           Append(Prefaced(PartsTo(m, c - 1), m, start, c), CodePart(m, c, e, g))
<1>1. PICK x, y \in PurePart : x = Preamble(m, start, c) /\ y = CodePart(m, c, e, g)
  BY DEF FoundAs
<1>2. PICK parts \in Seq(PurePart) : parts = PartsTo(m, c - 1)
  <2>1. c - 1 \in 0 .. n
    OBVIOUS
  <2>2. QED
    BY <2>1, PartsToOf
<1>3. PartsTo(m, c) = parts \o Found(m, c)
  <2>1. c - 1 \in 0 .. n - 1 /\ c - 1 + 1 = c
    OBVIOUS
  <2>2. PartsTo(m, c - 1 + 1) = PartsTo(m, c - 1) \o Found(m, c - 1 + 1)
    BY <2>1, PartsToOf
  <2>3. QED
    BY <1>2, <2>1, <2>2
<1>4. Found(m, c) = Prefaced(<<>>, m, start, c) \o <<y>>
  BY <1>1 DEF FoundAs
<1>5. PartsTo(m, c) = Append(Prefaced(parts, m, start, c), y)
  <2>1. CASE start = c
    <3>1. Found(m, c) = <<>> \o <<y>>
      BY <1>4, <2>1 DEF Prefaced
    <3>2. parts \o (<<>> \o <<y>>) = Append(parts, y)
      OBVIOUS
    <3>3. QED
      BY <1>3, <2>1, <3>1, <3>2 DEF Prefaced
  <2>2. CASE start # c
    <3>1. Found(m, c) = Append(<<>>, x) \o <<y>>
      BY <1>1, <1>4, <2>2 DEF Prefaced
    <3>2. parts \o (Append(<<>>, x) \o <<y>>) = Append(Append(parts, x), y)
      OBVIOUS
    <3>3. QED
      BY <1>1, <1>3, <2>2, <3>1, <3>2 DEF Prefaced
  <2>3. QED
    BY <2>1, <2>2
<1>6. QED
  BY <1>1, <1>2, <1>5

-----------------------------------------------------------------------------
(* What is sent of parts, as they are added.                                *)

Repeated(p, i) == i > 1 /\ SameParams(ConvertCode(p[i].code), ConvertCode(p[i - 1].code))
Piece(p, mode, i) ==
  (IF ~mode \/ Repeated(p, i)
   THEN p[i].text ELSE Paint(ConvertCode(p[i].code), p[i].text)) \o p[i].eol
Rendered(p, mode) == FlattenSeq([i \in DOMAIN p |-> Piece(p, mode, i)])

(* The next part is not painted if it is to look like the last.             *)
AsLast(p, x) == p # <<>> /\ ConvertCode(x.code) = ConvertCode(p[Len(p)].code)
Painted(x) == <<ConvertCode(x.code)>> \o x.text \o <<Reset>>
Drawn(p, mode, x) == (IF ~mode \/ AsLast(p, x) THEN x.text ELSE Painted(x)) \o x.eol

LEMMA PartOf ==
  ASSUME NEW x \in PurePart
  PROVE  /\ x.text \in Seq(Glyph) /\ x.eol \in Seq(Glyph) /\ x.code \in Style
         /\ <<ConvertCode(x.code)>> \in Seq(Glyph) /\ <<Reset>> \in Seq(Glyph)
         /\ Painted(x) \in Seq(Glyph) /\ x.text \in Seq(Letter) /\ x.eol \in Seq(Letter)
<1>1. x.text \in Seq(Letter) /\ x.eol \in Seq(Letter) /\ x.code \in Style
  BY DEF PurePart
<1>2. PICK text \in Seq(Glyph) : text = x.text
  BY <1>1, Kinds, SeqMonotonic
<1>3. x.eol \in Seq(Glyph)
  BY <1>1, Kinds, SeqMonotonic
<1>4. PICK c \in Glyph : c = ConvertCode(x.code)
  BY <1>1, Kinds
<1>5. PICK r \in Glyph : r = Reset
  BY Kinds
<1>6. <<c>> \o text \o <<r>> \in Seq(Glyph) /\ <<c>> \in Seq(Glyph) /\ <<r>> \in Seq(Glyph)
  OBVIOUS
<1>7. QED
  BY <1>1, <1>2, <1>3, <1>4, <1>5, <1>6 DEF Painted

LEMMA PieceOf ==
  ASSUME NEW p \in Seq(PurePart), NEW mode \in BOOLEAN, NEW i \in 1 .. Len(p)
  PROVE  Piece(p, mode, i) \in Seq(Glyph)
<1>1. PICK x \in PurePart : x = p[i]
  OBVIOUS
<1>2. PICK y \in Seq(Glyph) : y = x.text \/ y = Painted(x)
  BY PartOf
<1>3. Piece(p, mode, i) = x.text \o x.eol \/ Piece(p, mode, i) = Painted(x) \o x.eol
  BY <1>1 DEF Piece, Paint, Painted
<1>4. /\ x.text \in Seq(Glyph) /\ x.eol \in Seq(Glyph) /\ Painted(x) \in Seq(Glyph)
  BY PartOf
<1>5. \A s, t \in Seq(Glyph) : s \o t \in Seq(Glyph)
  OBVIOUS
<1>6. x.text \o x.eol \in Seq(Glyph) /\ Painted(x) \o x.eol \in Seq(Glyph)
  BY <1>4, <1>5
<1>7. QED
  BY <1>3, <1>6

LEMMA RenderedAppend ==
  ASSUME NEW p \in Seq(PurePart), NEW mode \in BOOLEAN, NEW x \in PurePart
  PROVE  /\ Rendered(p, mode) \in Seq(Glyph)
         /\ Rendered(Append(p, x), mode) = Rendered(p, mode) \o Drawn(p, mode, x)
<1>1. PICK n \in Nat : n = Len(p) /\ DOMAIN p = 1 .. n
  OBVIOUS
<1>2. PICK u : u = Append(p, x)
  OBVIOUS
<1>3. /\ u \in Seq(PurePart) /\ Len(u) = n + 1 /\ DOMAIN u = 1 .. n + 1 /\ u[n + 1] = x
      /\ \A i \in 1 .. n : u[i] = p[i]
  BY <1>1, <1>2
<1>4. PICK q, r : /\ q = [i \in DOMAIN p |-> Piece(p, mode, i)]
                  /\ r = [i \in DOMAIN u |-> Piece(u, mode, i)]
  OBVIOUS
<1>5. q \in [1 .. n -> Seq(Glyph)] /\ r \in [1 .. n + 1 -> Seq(Glyph)]
  <2>1. \A i \in 1 .. n : Piece(p, mode, i) \in Seq(Glyph)
    BY <1>1, PieceOf
  <2>2. \A i \in 1 .. n + 1 : Piece(u, mode, i) \in Seq(Glyph)
    BY <1>3, PieceOf
  <2>3. QED
    BY <1>1, <1>3, <1>4, <2>1, <2>2
<1>6. ASSUME NEW i \in 1 .. n PROVE r[i] = q[i]
  <2>1. u[i] = p[i] /\ (i > 1 => u[i - 1] = p[i - 1])
    BY <1>3
  <2>2. Piece(u, mode, i) = Piece(p, mode, i)
    BY <2>1 DEF Piece, Repeated
  <2>3. i \in 1 .. n + 1
    OBVIOUS
  <2>4. QED
    BY <1>1, <1>3, <1>4, <2>2, <2>3
<1>7. FlattenSeq(q) \in Seq(Glyph) /\ FlattenSeq(r) = FlattenSeq(q) \o r[n + 1]
  BY <1>5, <1>6, FlattenMore
<1>8. r[n + 1] = Drawn(p, mode, x)
  <2>1. n + 1 \in DOMAIN u /\ (n + 1 > 1 <=> p # <<>>) /\ n + 1 - 1 = n
    BY <1>1, <1>3
  <2>2. p # <<>> => u[n] = p[n]
    BY <1>1, <1>3
  <2>3. r[n + 1] = Piece(u, mode, n + 1)
    BY <1>4, <2>1
  <2>4. Piece(u, mode, n + 1) =
          (IF ~mode \/ (p # <<>> /\ ConvertCode(x.code) = ConvertCode(u[n].code))
           THEN x.text ELSE Painted(x)) \o x.eol
    <3>1. Repeated(u, n + 1) <=> (p # <<>> /\ ConvertCode(x.code) = ConvertCode(u[n].code))
      BY <1>3, <2>1 DEF Repeated, SameParams
    <3>2. Paint(ConvertCode(u[n + 1].code), u[n + 1].text) = Painted(x)
      BY <1>3 DEF Paint, Painted
    <3>3. CASE ~mode \/ (p # <<>> /\ ConvertCode(x.code) = ConvertCode(u[n].code))
      <4>1. Piece(u, mode, n + 1) = u[n + 1].text \o u[n + 1].eol
        BY <3>1, <3>3 DEF Piece
      <4>2. QED
        BY <1>3, <3>3, <4>1
    <3>4. CASE ~(~mode \/ (p # <<>> /\ ConvertCode(x.code) = ConvertCode(u[n].code)))
      <4>1. Piece(u, mode, n + 1) =
              Paint(ConvertCode(u[n + 1].code), u[n + 1].text) \o u[n + 1].eol
        BY <3>1, <3>4 DEF Piece
      <4>2. QED
        BY <1>3, <3>2, <3>4, <4>1
    <3>5. QED
      BY <3>3, <3>4
  <2>5. QED
    BY <1>1, <2>2, <2>3, <2>4 DEF Drawn, AsLast
<1>9. QED
  BY <1>2, <1>4, <1>7, <1>8 DEF Rendered

LEMMA RenderedNone == ASSUME NEW mode PROVE Rendered(<<>>, mode) = <<>>
<1>1. DOMAIN <<>> = {}
  OBVIOUS
<1>2. [i \in DOMAIN <<>> |-> Piece(<<>>, mode, i)] = <<>>
  BY <1>1
<1>3. QED
  BY <1>2, FlattenNone DEF Rendered

LEMMA ConvertedIs ==
  ASSUME NEW m, NEW mode PROVE ConvertString(m, mode) = Rendered(Parts(m), mode)
BY DEF ConvertString, Rendered, Piece, Repeated

(* Parts hold only letters, and every text has one.                         *)
LEMMA PartsPure ==
  ASSUME NEW m \in Text, NEW n \in Nat, n = Len(m)
  PROVE  /\ Parts(m) \in Seq(PurePart)
         /\ (\A i \in 1 .. n : ~IsCode(m[i])) =>
              /\ Parts(m) = <<Part(DefaultCode, m, <<>>)>>
              /\ Part(DefaultCode, m, <<>>) \in PurePart
<1>1. DOMAIN m = 1 .. n /\ m \in Seq(Token)
  BY DEF Text
<1>2. CASE \A i \in 1 .. n : ~IsCode(m[i])
  <2>1. m \in Seq(Letter)
    <3>1. 1 \in Nat \ {0} /\ n \in Int /\ n <= Len(m)
      OBVIOUS
    <3>2. SubSeq(m, 1, n) \in Seq(Letter)
      BY <1>2, <3>1, Lettered
    <3>3. SubSeq(m, 1, n) = m
      BY <1>1, SubSeqFull
    <3>4. QED
      BY <3>2, <3>3
  <2>2. DefaultCode \in Style /\ <<>> \in Seq(Letter)
    BY Kinds
  <2>3. Part(DefaultCode, m, <<>>) \in PurePart
    BY <2>1, <2>2 DEF Part, PurePart
  <2>4. Parts(m) = <<Part(DefaultCode, m, <<>>)>>
    BY <1>1, <1>2 DEF Parts
  <2>5. QED
    BY <2>3, <2>4
<1>3. CASE \E i \in 1 .. n : IsCode(m[i])
  <2>1. Parts(m) = PartsTo(m, n)
    BY <1>3, PartsToOf
  <2>2. n \in 0 .. n
    OBVIOUS
  <2>3. QED
    BY <1>3, <2>1, <2>2, PartsToOf
<1>4. QED
  BY <1>2, <1>3

-----------------------------------------------------------------------------
(* The characters of what is sent, and how often one of them is there.      *)

LEMMA CountOf ==
  ASSUME NEW S, NEW s \in Seq(S), NEW e \in S, NEW c
  PROVE  /\ Count(s, c) \in Nat /\ Count(<<>>, c) = 0
         /\ Count(Append(s, e), c) = Count(s, c) + (IF e = Char(c) THEN 1 ELSE 0)
<1>1. PICK n \in Nat : n = Len(s) /\ DOMAIN s = 1 .. n
  OBVIOUS
<1>2. PICK u : u = Append(s, e)
  OBVIOUS
<1>3. DOMAIN u = 1 .. n + 1 /\ u[n + 1] = e /\ \A i \in 1 .. n : u[i] = s[i]
  BY <1>1, <1>2
<1>4. PICK I, J : /\ I = {i \in DOMAIN s : s[i] = Char(c)}
                  /\ J = {i \in DOMAIN u : u[i] = Char(c)}
  OBVIOUS
<1>5. IsFiniteSet(I)
  <2>1. IsFiniteSet(1 .. n)
    BY FS_Interval
  <2>2. I \subseteq 1 .. n
    BY <1>1, <1>4
  <2>3. QED
    BY <2>1, <2>2, FS_Subset
<1>6. Cardinality(I) \in Nat
  BY <1>5, FS_CardinalityType
<1>7. n + 1 \notin I
  BY <1>1, <1>4
<1>8. Cardinality(J) = Cardinality(I) + (IF e = Char(c) THEN 1 ELSE 0)
  <2>1. CASE e = Char(c)
    <3>1. J = I \cup {n + 1}
      BY <1>1, <1>3, <1>4, <2>1
    <3>2. Cardinality(I \cup {n + 1}) = Cardinality(I) + 1
      BY <1>5, <1>7, FS_AddElement
    <3>3. QED
      BY <2>1, <3>1, <3>2
  <2>2. CASE e # Char(c)
    <3>1. J = I
      BY <1>1, <1>3, <1>4, <2>2
    <3>2. QED
      BY <1>6, <2>2, <3>1
  <2>3. QED
    BY <2>1, <2>2
<1>9. Count(<<>>, c) = 0
  <2>1. {i \in DOMAIN <<>> : <<>>[i] = Char(c)} = {}
    OBVIOUS
  <2>2. QED
    BY <2>1, FS_EmptySet DEF Count
<1>10. QED
  BY <1>2, <1>4, <1>6, <1>8, <1>9 DEF Count

LEMMA ConcatAppend ==
  ASSUME NEW S, NEW s \in Seq(S), NEW v \in Seq(S), NEW e \in S
  PROVE  s \o Append(v, e) = Append(s \o v, e)
<1>1. PICK k \in Seq(S) : k = <<e>>
  <2>1. <<e>> \in Seq(S)
    OBVIOUS
  <2>2. QED
    BY <2>1
<1>2. (s \o v) \o k = s \o (v \o k)
  OBVIOUS
<1>3. Append(v, e) = v \o k
  BY <1>1, AppendIsConcat
<1>4. s \o v \in Seq(S)
  OBVIOUS
<1>5. Append(s \o v, e) = (s \o v) \o k
  BY <1>1, <1>4, AppendIsConcat
<1>6. QED
  BY <1>2, <1>3, <1>5

LEMMA CharsGlyph == ASSUME NEW s \in Seq(Glyph) PROVE CharsOf(s) \in Seq(Glyph)
<1>1. PICK n \in Nat : n = Len(s)
  OBVIOUS
<1>2. CharsOf(s) \in Seq({g \in Glyph : IsChar(g)})
  BY <1>1, KeptOf
<1>3. {g \in Glyph : IsChar(g)} \subseteq Glyph
  OBVIOUS
<1>4. QED
  BY <1>2, <1>3, SeqMonotonic

LEMMA KeptConcat ==
  ASSUME NEW s \in Seq(Glyph), NEW t \in Seq(Glyph), NEW c
  PROVE  /\ CharsOf(s \o t) = CharsOf(s) \o CharsOf(t)
         /\ Count(s \o t, c) = Count(s, c) + Count(t, c)
<1>1. PICK T : T = {v \in Seq(Glyph) : /\ CharsOf(s \o v) = CharsOf(s) \o CharsOf(v)
                                       /\ Count(s \o v, c) = Count(s, c) + Count(v, c)}
  OBVIOUS
<1>2. PICK cs \in Seq(Glyph) : cs = CharsOf(s)
  BY CharsGlyph
<1>3. Count(s, c) \in Nat
  BY Kinds, CountOf
<1>4. <<>> \in T
  <2>1. s \o <<>> = s /\ cs \o <<>> = cs /\ <<>> \in Seq(Glyph)
    OBVIOUS
  <2>2. Count(<<>>, c) = 0
    BY Kinds, CountOf
  <2>3. CharsOf(<<>>) = <<>>
    BY KeptNone
  <2>4. CharsOf(s \o <<>>) = CharsOf(s) \o CharsOf(<<>>)
    BY <1>2, <2>1, <2>3
  <2>5. Count(s \o <<>>, c) = Count(s, c) + Count(<<>>, c)
    BY <1>3, <2>1, <2>2
  <2>6. QED
    BY <1>1, <2>1, <2>4, <2>5
<1>5. ASSUME NEW v \in Seq(Glyph), NEW e \in Glyph, v \in T PROVE Append(v, e) \in T
  <2>1. PICK sv \in Seq(Glyph) : sv = s \o v
    <3>1. s \o v \in Seq(Glyph)
      OBVIOUS
    <3>2. QED
      BY <3>1
  <2>2. s \o Append(v, e) = Append(sv, e) /\ Append(v, e) \in Seq(Glyph)
    BY <2>1, ConcatAppend
  <2>3. PICK cv \in Seq(Glyph) : cv = CharsOf(v)
    BY CharsGlyph
  <2>4. CharsOf(sv) = cs \o cv /\ Count(sv, c) = Count(s, c) + Count(v, c)
    BY <1>1, <1>2, <1>5, <2>1, <2>3
  <2>5. CharsOf(Append(sv, e)) = cs \o CharsOf(Append(v, e))
    <3>1. CASE IsChar(e)
      <4>1. CharsOf(Append(sv, e)) = Append(CharsOf(sv), e) /\ CharsOf(Append(v, e)) = Append(cv, e)
        BY <2>3, <3>1, KeptAppend
      <4>2. cs \o Append(cv, e) = Append(cs \o cv, e)
        BY ConcatAppend
      <4>3. QED
        BY <2>4, <4>1, <4>2
    <3>2. CASE ~IsChar(e)
      <4>1. CharsOf(Append(sv, e)) = CharsOf(sv) /\ CharsOf(Append(v, e)) = cv
        BY <2>3, <3>2, KeptAppend
      <4>2. QED
        BY <2>4, <4>1
    <3>3. QED
      BY <3>1, <3>2
  <2>6. Count(Append(sv, e), c) = Count(s, c) + Count(Append(v, e), c)
    <3>1. PICK d \in Nat : d = (IF e = Char(c) THEN 1 ELSE 0)
      OBVIOUS
    <3>2. Count(Append(sv, e), c) = Count(sv, c) + d
      BY <3>1, CountOf
    <3>3. Count(Append(v, e), c) = Count(v, c) + d /\ Count(v, c) \in Nat
      BY <3>1, CountOf
    <3>4. QED
      BY <1>3, <2>4, <3>2, <3>3
  <2>7. QED
    BY <1>1, <1>2, <2>2, <2>5, <2>6
<1>6. t \in T
  BY <1>4, <1>5, SeqUpward
<1>7. QED
  BY <1>1, <1>6

LEMMA LettersStay == ASSUME NEW t \in Seq(Letter) PROVE CharsOf(t) = t
<1>1. PICK T : T = {v \in Seq(Letter) : CharsOf(v) = v}
  OBVIOUS
<1>2. <<>> \in T
  BY <1>1, KeptNone
<1>3. ASSUME NEW v \in Seq(Letter), NEW e \in Letter, v \in T PROVE Append(v, e) \in T
  <2>1. IsChar(e) /\ CharsOf(v) = v
    BY <1>1, <1>3 DEF Letter
  <2>2. CharsOf(Append(v, e)) = Append(v, e)
    BY <2>1, KeptAppend
  <2>3. Append(v, e) \in Seq(Letter)
    OBVIOUS
  <2>4. QED
    BY <1>1, <2>2, <2>3
<1>4. t \in T
  BY <1>2, <1>3, SeqUpward
<1>5. QED
  BY <1>1, <1>4

(* Paint adds no character.                                                 *)
LEMMA WideOne ==
  ASSUME NEW e \in Glyph, ~IsChar(e), NEW c
  PROVE  CharsOf(<<e>>) = <<>> /\ Count(<<e>>, c) = 0
<1>1. <<e>> = Append(<<>>, e) /\ <<>> \in Seq(Glyph)
  OBVIOUS
<1>2. CharsOf(Append(<<>>, e)) = CharsOf(<<>>)
  BY <1>1, KeptAppend
<1>3. e # Char(c)
  BY DEF IsChar, Char
<1>4. Count(Append(<<>>, e), c) = Count(<<>>, c) + (IF e = Char(c) THEN 1 ELSE 0)
  <2>1. PICK n \in Seq(Glyph) : n = <<>>
    BY <1>1
  <2>2. Count(Append(n, e), c) = Count(n, c) + (IF e = Char(c) THEN 1 ELSE 0)
    BY CountOf
  <2>3. QED
    BY <2>1, <2>2
<1>5. Count(<<>>, c) = 0
  BY <1>1, CountOf
<1>6. QED
  BY <1>1, <1>2, <1>3, <1>4, <1>5, KeptNone

LEMMA DrawnOf ==
  ASSUME NEW p \in Seq(PurePart), NEW x \in PurePart, NEW c
  PROVE  /\ Drawn(p, TRUE, x) \in Seq(Glyph) /\ Drawn(p, FALSE, x) = x.text \o x.eol
         /\ CharsOf(Drawn(p, TRUE, x)) = x.text \o x.eol
         /\ Count(Drawn(p, TRUE, x), c) = Count(x.text, c) + Count(x.eol, c)
<1>1. PICK text, eol, a, r \in Seq(Glyph) :
        /\ text = x.text /\ eol = x.eol
        /\ a = <<ConvertCode(x.code)>> /\ r = <<Reset>>
  BY PartOf
<1>2. CharsOf(text) = text /\ CharsOf(eol) = eol
  <2>1. x.text \in Seq(Letter) /\ x.eol \in Seq(Letter)
    BY PartOf
  <2>2. QED
    BY <1>1, <2>1, LettersStay
<1>3. CharsOf(a) = <<>> /\ CharsOf(r) = <<>> /\ Count(a, c) = 0 /\ Count(r, c) = 0
  <2>1. x.code \in Style
    BY PartOf
  <2>2. /\ ConvertCode(x.code) \in Glyph /\ ~IsChar(ConvertCode(x.code))
        /\ Reset \in Glyph /\ ~IsChar(Reset)
    BY <2>1, Kinds
  <2>3. QED
    BY <1>1, <2>2, WideOne
<1>4. Count(text, c) \in Nat /\ Count(eol, c) \in Nat
  BY Kinds, CountOf
<1>5. text \o eol \in Seq(Glyph) /\ (a \o text) \o r \in Seq(Glyph) /\ a \o text \in Seq(Glyph)
  OBVIOUS
<1>6. CharsOf(text \o eol) = text \o eol /\ Count(text \o eol, c) = Count(text, c) + Count(eol, c)
  <2>1. CharsOf(text \o eol) = CharsOf(text) \o CharsOf(eol)
    BY KeptConcat
  <2>2. Count(text \o eol, c) = Count(text, c) + Count(eol, c)
    BY KeptConcat
  <2>3. QED
    BY <1>2, <2>1, <2>2
<1>7. CharsOf(a \o text) = text /\ Count(a \o text, c) = Count(text, c)
  <2>1. CharsOf(a \o text) = CharsOf(a) \o CharsOf(text)
        /\ Count(a \o text, c) = Count(a, c) + Count(text, c)
    BY KeptConcat, ZenonT(40)
  <2>2. <<>> \o text = text
    OBVIOUS
  <2>3. QED
    BY <1>2, <1>3, <1>4, <2>1, <2>2
<1>8. CharsOf((a \o text) \o r) = text /\ Count((a \o text) \o r, c) = Count(text, c)
  <2>1. PICK v \in Seq(Glyph) : v = a \o text
    BY <1>5
  <2>2. CharsOf(v \o r) = CharsOf(v) \o CharsOf(r) /\ Count(v \o r, c) = Count(v, c) + Count(r, c)
    BY KeptConcat, ZenonT(40)
  <2>3. text \o <<>> = text
    OBVIOUS
  <2>4. QED
    BY <1>3, <1>4, <1>7, <2>1, <2>2, <2>3
<1>9. PICK w \in Seq(Glyph) : w = (a \o text) \o r
  BY <1>5
<1>10. /\ w \o eol \in Seq(Glyph) /\ CharsOf(w \o eol) = text \o eol
       /\ Count(w \o eol, c) = Count(text, c) + Count(eol, c)
  <2>1. CharsOf(w \o eol) = CharsOf(w) \o CharsOf(eol)
        /\ Count(w \o eol, c) = Count(w, c) + Count(eol, c)
    BY KeptConcat, ZenonT(40)
  <2>2. w \o eol \in Seq(Glyph)
    OBVIOUS
  <2>3. QED
    BY <1>2, <1>8, <1>9, <2>1, <2>2
<1>11. Drawn(p, TRUE, x) = text \o eol \/ Drawn(p, TRUE, x) = w \o eol
  BY <1>1, <1>9 DEF Drawn, Painted
<1>12. Drawn(p, FALSE, x) = x.text \o x.eol
  BY DEF Drawn
<1>13. QED
  BY <1>1, <1>5, <1>6, <1>10, <1>11, <1>12

(* With or without ANSI, the same characters.                               *)
LEMMA SameChars ==
  ASSUME NEW p \in Seq(PurePart)
  PROVE  CharsOf(Rendered(p, TRUE)) = Rendered(p, FALSE)
<1>1. PICK T : T = {q \in Seq(PurePart) : CharsOf(Rendered(q, TRUE)) = Rendered(q, FALSE)}
  OBVIOUS
<1>2. <<>> \in T
  <2>1. <<>> \in Seq(PurePart)
    OBVIOUS
  <2>2. Rendered(<<>>, TRUE) = <<>> /\ Rendered(<<>>, FALSE) = <<>>
    BY RenderedNone
  <2>3. QED
    BY <1>1, <2>1, <2>2, KeptNone
<1>3. ASSUME NEW q \in Seq(PurePart), NEW x \in PurePart, q \in T PROVE Append(q, x) \in T
  <2>1. PICK r \in Seq(Glyph) : r = Rendered(q, TRUE)
    BY RenderedAppend
  <2>2. PICK d \in Seq(Glyph) : d = Drawn(q, TRUE, x) /\ CharsOf(d) = Drawn(q, FALSE, x)
    BY DrawnOf
  <2>3. Rendered(Append(q, x), TRUE) = r \o d
    BY <2>1, <2>2, RenderedAppend
  <2>4. Rendered(Append(q, x), FALSE) = Rendered(q, FALSE) \o CharsOf(d)
    BY <2>2, RenderedAppend
  <2>5. CharsOf(r \o d) = CharsOf(r) \o CharsOf(d)
    BY KeptConcat
  <2>6. CharsOf(r) = Rendered(q, FALSE)
    BY <1>1, <1>3, <2>1
  <2>7. Append(q, x) \in Seq(PurePart)
    OBVIOUS
  <2>8. QED
    BY <1>1, <2>3, <2>4, <2>5, <2>6, <2>7
<1>4. p \in T
  BY <1>2, <1>3, SeqUpward
<1>5. QED
  BY <1>1, <1>4

-----------------------------------------------------------------------------
(* No letter is sent more often than it was written.                        *)

In(m, c, a, b) == Count(SubSeq(m, a, b - 1), c)

LEMMA InNat ==
  ASSUME NEW m \in Text, NEW n \in Nat, n = Len(m), NEW c,
         NEW a \in 1 .. n + 1, NEW b \in a .. n + 1
  PROVE  SubSeq(m, a, b - 1) \in Seq(Glyph) /\ In(m, c, a, b) \in Nat /\ In(m, c, a, a) = 0
<1>1. PICK s : s = SubSeq(m, a, b - 1)
  OBVIOUS
<1>2. s \in Seq(Glyph)
  <2>1. a \in Nat \ {0} /\ b - 1 \in Int /\ b - 1 <= Len(m)
    OBVIOUS
  <2>2. s \in Seq(Token)
    BY <1>1, <2>1, SubText DEF Text
  <2>3. QED
    BY <2>2, Kinds, SeqMonotonic
<1>3. Count(s, c) \in Nat
  BY <1>2, Kinds, CountOf
<1>4. SubSeq(m, a, a - 1) = <<>>
  BY SubSeqEmpty
<1>5. Count(<<>>, c) = 0
  <2>1. <<>> \in Seq(Glyph)
    OBVIOUS
  <2>2. QED
    BY <2>1, Kinds, CountOf
<1>6. QED
  BY <1>1, <1>2, <1>3, <1>4, <1>5 DEF In

LEMMA InSplit ==
  ASSUME NEW m \in Text, NEW n \in Nat, n = Len(m), NEW c,
         NEW a \in 1 .. n + 1, NEW b \in a .. n + 1, NEW d \in b .. n + 1
  PROVE  In(m, c, a, d) = In(m, c, a, b) + In(m, c, b, d)
<1>1. PICK s, t \in Seq(Glyph) : s = SubSeq(m, a, b - 1) /\ t = SubSeq(m, b, d - 1)
  <2>1. b \in 1 .. n + 1
    OBVIOUS
  <2>2. SubSeq(m, a, b - 1) \in Seq(Glyph) /\ SubSeq(m, b, d - 1) \in Seq(Glyph)
    BY <2>1, InNat
  <2>3. QED
    BY <2>2
<1>2. s \o t = SubSeq(m, a, d - 1)
  <2>1. m \in Seq(Token) /\ a \in 1 .. Len(m) + 1
    BY DEF Text
  <2>2. PICK k \in a - 1 .. Len(m) : k = b - 1 /\ k + 1 = b
    OBVIOUS
  <2>3. PICK l \in k .. Len(m) : l = d - 1
    BY <2>2
  <2>4. SubSeq(m, a, k) \o SubSeq(m, k + 1, l) = SubSeq(m, a, l)
    BY <2>1, ConcatAdjacentSubSeq
  <2>5. QED
    BY <1>1, <2>2, <2>3, <2>4
<1>3. Count(s \o t, c) = Count(s, c) + Count(t, c)
  BY KeptConcat
<1>4. QED
  BY <1>1, <1>2, <1>3 DEF In

LEMMA NoneInEol ==
  ASSUME NEW m \in Text, NEW n \in Nat, n = Len(m), NEW c, ~IsLineEnd(Char(c)),
         NEW e \in 1 .. n + 1, NEW g, g = EolEnd(m, e)
  PROVE  In(m, c, e, g) = 0
<1>1. g \in e .. n + 1 /\ \A i \in e .. g - 1 : IsLineEnd(m[i])
  BY EolEndOf
<1>2. PICK s : s = SubSeq(m, e, g - 1)
  OBVIOUS
<1>3. /\ \A i \in 1 .. g - 1 - e + 1 : s[i] = m[e + i - 1] /\ e + i - 1 \in e .. g - 1
      /\ DOMAIN s = 1 .. g - 1 - e + 1
  <2>1. e \in Int /\ g - 1 \in Int /\ \A i \in e .. g - 1 : m[i] \in Token
    BY <1>1 DEF Text
  <2>2. /\ s \in Seq(Token) /\ Len(s) = IF e <= g - 1 THEN g - 1 - e + 1 ELSE 0
        /\ \A i \in 1 .. g - 1 - e + 1 : s[i] = m[e + i - 1]
    BY <1>2, <2>1, SubSeqProperties
  <2>3. \A i \in 1 .. g - 1 - e + 1 : e + i - 1 \in e .. g - 1
    BY <1>1
  <2>4. DOMAIN s = 1 .. g - 1 - e + 1
    BY <1>1, <2>2
  <2>5. QED
    BY <2>2, <2>3, <2>4
<1>4. {i \in DOMAIN s : s[i] = Char(c)} = {}
  BY <1>1, <1>3
<1>5. QED
  BY <1>2, <1>4, FS_EmptySet DEF In, Count

(* How often a letter is there in what is sent of some parts.               *)
Sent(p, c) == Count(Rendered(p, TRUE), c)

LEMMA SentMore ==
  ASSUME NEW p \in Seq(PurePart), NEW x \in PurePart, NEW c
  PROVE  /\ Sent(p, c) \in Nat
         /\ Sent(Append(p, x), c) = Sent(p, c) + Count(x.text, c) + Count(x.eol, c)
<1>1. PICK r \in Seq(Glyph) : r = Rendered(p, TRUE)
  BY RenderedAppend
<1>2. PICK d \in Seq(Glyph) : /\ d = Drawn(p, TRUE, x)
                              /\ Count(d, c) = Count(x.text, c) + Count(x.eol, c)
  BY DrawnOf
<1>3. Rendered(Append(p, x), TRUE) = r \o d
  BY <1>1, <1>2, RenderedAppend
<1>4. Count(r \o d, c) = Count(r, c) + Count(d, c)
  BY KeptConcat
<1>5. Count(r, c) \in Nat
  BY Kinds, CountOf
<1>6. x.text \in Seq(Glyph) /\ x.eol \in Seq(Glyph)
  BY PartOf
<1>7. Count(x.text, c) \in Nat /\ Count(x.eol, c) \in Nat
  BY <1>6, Kinds, CountOf
<1>8. Sent(p, c) = Count(r, c)
  BY <1>1 DEF Sent
<1>9. Sent(Append(p, x), c) = Count(r, c) + Count(d, c)
  BY <1>3, <1>4 DEF Sent
<1>10. QED
  BY <1>2, <1>5, <1>7, <1>8, <1>9

LEMMA NoneSent == ASSUME NEW c PROVE Sent(<<>>, c) = 0 /\ Count(<<>>, c) = 0
<1>1. <<>> \in Seq(Glyph)
  OBVIOUS
<1>2. Count(<<>>, c) = 0
  BY <1>1, Kinds, CountOf
<1>3. QED
  BY <1>2, RenderedNone DEF Sent

LEMMA NoMoreOf ==
  ASSUME NEW m \in Text, NEW n \in Nat, n = Len(m), NEW c, ~IsLineEnd(Char(c))
  PROVE  \A k \in 0 .. n :
           Sent(PartsTo(m, k), c) <= In(m, c, 1, SearchedFrom(m, k + 1))
<1>1. PICK T : T = {k \in 0 .. n : Sent(PartsTo(m, k), c) <= In(m, c, 1, SearchedFrom(m, k + 1))}
  OBVIOUS
<1>2. 0 \in T
  <2>1. 0 \in 0 .. n
    OBVIOUS
  <2>2. SearchedFrom(m, 0 + 1) = 1
    BY <2>1, SearchedOf
  <2>3. In(m, c, 1, 1) = 0
    <3>1. 1 \in 1 .. n + 1
      OBVIOUS
    <3>2. QED
      BY <3>1, InNat
  <2>4. PartsTo(m, 0) = <<>>
    BY PartsToOf
  <2>5. QED
    BY <1>1, <2>1, <2>2, <2>3, <2>4, NoneSent
<1>3. ASSUME NEW k \in 0 .. n - 1, k \in T PROVE k + 1 \in T
  <2>1. PICK d \in 1 .. n : d = k + 1 /\ d - 1 = k /\ d \in 0 .. n /\ k \in 0 .. n /\ d # 0
    OBVIOUS
  <2>2. PICK p, q : p = SearchedFrom(m, d) /\ q = SearchedFrom(m, d + 1)
    OBVIOUS
  <2>3. PICK parts \in Seq(PurePart) : parts = PartsTo(m, k)
    BY <2>1, PartsToOf
  <2>4. Sent(parts, c) <= In(m, c, 1, p)
    BY <1>1, <1>3, <2>1, <2>2, <2>3
  <2>5. CASE ~IsCode(m[d])
    <3>1. d # 0 /\ ~IsCode(m[d]) => q = SearchedFrom(m, d)
      <4>1. d \in 0 .. n /\ q = SearchedFrom(m, d + 1)
        BY <2>1, <2>2
      <4>2. QED
        BY <4>1, SearchedOf, Zenon
    <3>2. PartsTo(m, d) = parts \o Found(m, d)
      BY <2>1, <2>3, PartsToOf
    <3>3. Found(m, d) = <<>>
      BY <2>5 DEF Found
    <3>4. PartsTo(m, d) = parts
      BY <3>2, <3>3
    <3>5. QED
      BY <1>1, <2>1, <2>2, <2>4, <2>5, <3>1, <3>4
  <2>6. CASE IsCode(m[d])
    <3>1. PICK e : e = TextEnd(m, d)
      OBVIOUS
    <3>2. PICK g : g = EolEnd(m, e)
      OBVIOUS
    <3>3. p \in 1 .. d /\ e \in d + 1 .. n + 1 /\ g \in e .. n + 1
      BY <2>2, <2>6, <3>1, <3>2, MatchOf
    <3>4. q = e
      <4>1. d # 0 /\ IsCode(m[d]) => q = TextEnd(m, d)
        BY <2>1, <2>2, SearchedOf
      <4>2. QED
        BY <2>1, <2>6, <3>1, <4>1
    <3>5. PICK start \in p .. d : FoundAs(m, p, d, e, g, start)
      BY <2>2, <2>6, <3>1, <3>2, FoundOf
    <3>6. PICK x, y \in PurePart : x = Preamble(m, start, d) /\ y = CodePart(m, d, e, g)
      BY <3>5 DEF FoundAs
    <3>7. PICK pre : pre = Prefaced(parts, m, start, d)
      OBVIOUS
    <3>8. PartsTo(m, d) = Append(pre, y)
      BY <2>1, <2>3, <3>5, <3>6, <3>7, NextParts
    <3>9. pre \in Seq(PurePart) /\ Sent(pre, c) = Sent(parts, c) + In(m, c, start, d)
      <4>1. CASE start = d
        <5>1. pre = parts
          BY <3>7, <4>1 DEF Prefaced
        <5>2. In(m, c, d, d) = 0
          BY <2>1, InNat
        <5>3. Sent(parts, c) \in Nat
          BY <3>6, SentMore
        <5>4. QED
          BY <4>1, <5>1, <5>2, <5>3
      <4>2. CASE start # d
        <5>1. pre = Append(parts, x)
          BY <3>6, <3>7, <4>2 DEF Prefaced
        <5>2. Sent(Append(parts, x), c) = Sent(parts, c) + Count(x.text, c) + Count(x.eol, c)
          BY SentMore
        <5>3. Count(x.text, c) = In(m, c, start, d) /\ Count(x.eol, c) = 0
          BY <3>6, NoneSent DEF Preamble, Part, In
        <5>4. Sent(parts, c) \in Nat
          BY SentMore
        <5>5. In(m, c, start, d) \in Nat
          <6>1. start \in 1 .. n + 1 /\ d \in start .. n + 1
            BY <3>3
          <6>2. QED
            BY <6>1, InNat
        <5>6. pre \in Seq(PurePart)
          BY <5>1
        <5>7. QED
          BY <5>1, <5>2, <5>3, <5>4, <5>5, <5>6
      <4>3. QED
        BY <4>1, <4>2
    <3>10. Sent(Append(pre, y), c) = Sent(pre, c) + In(m, c, d + 1, e)
      <4>1. Sent(Append(pre, y), c) = Sent(pre, c) + Count(y.text, c) + Count(y.eol, c)
        BY <3>9, SentMore
      <4>2. Count(y.text, c) = In(m, c, d + 1, e) /\ Count(y.eol, c) = In(m, c, e, g)
        BY <3>6 DEF CodePart, Part, In
      <4>3. In(m, c, e, g) = 0
        <5>1. e \in 1 .. n + 1
          BY <3>3
        <5>2. QED
          BY <3>2, <5>1, NoneInEol
      <4>4. In(m, c, d + 1, e) \in Nat
        <5>1. d + 1 \in 1 .. n + 1
          OBVIOUS
        <5>2. QED
          BY <3>3, <5>1, InNat
      <4>5. Sent(pre, c) \in Nat
        BY <3>9, SentMore
      <4>6. QED
        BY <4>1, <4>2, <4>3, <4>4, <4>5
    <3>11. /\ In(m, c, 1, e) = In(m, c, 1, p) + In(m, c, p, e)
           /\ In(m, c, p, e) = In(m, c, p, start) + In(m, c, start, e)
           /\ In(m, c, start, e) = In(m, c, start, d) + In(m, c, d, e)
           /\ In(m, c, d, e) = In(m, c, d, d + 1) + In(m, c, d + 1, e)
      <4>1. /\ 1 \in 1 .. n + 1 /\ p \in 1 .. n + 1 /\ e \in p .. n + 1
            /\ start \in 1 .. n + 1 /\ start \in p .. n + 1 /\ e \in start .. n + 1
            /\ d \in 1 .. n + 1 /\ d \in start .. n + 1 /\ e \in d .. n + 1
            /\ d + 1 \in d .. n + 1
        BY <3>3
      <4>2. In(m, c, 1, e) = In(m, c, 1, p) + In(m, c, p, e)
        BY <4>1, InSplit
      <4>3. In(m, c, p, e) = In(m, c, p, start) + In(m, c, start, e)
        BY <4>1, InSplit
      <4>4. In(m, c, start, e) = In(m, c, start, d) + In(m, c, d, e)
        BY <4>1, InSplit
      <4>5. In(m, c, d, e) = In(m, c, d, d + 1) + In(m, c, d + 1, e)
        BY <3>3, <4>1, InSplit
      <4>6. QED
        BY <4>2, <4>3, <4>4, <4>5
    <3>12. /\ In(m, c, 1, p) \in Nat /\ In(m, c, p, start) \in Nat /\ In(m, c, start, d) \in Nat
           /\ In(m, c, d, d + 1) \in Nat /\ In(m, c, d + 1, e) \in Nat
      <4>1. /\ 1 \in 1 .. n + 1 /\ p \in 1 .. n + 1 /\ start \in 1 .. n + 1
            /\ d \in 1 .. n + 1 /\ d + 1 \in 1 .. n + 1 /\ d + 1 \in d .. n + 1
            /\ start \in p .. n + 1 /\ d \in start .. n + 1 /\ e \in d + 1 .. n + 1
        BY <3>3
      <4>2. QED
        BY <4>1, InNat
    <3>13. Sent(parts, c) \in Nat
      BY <3>6, SentMore
    <3>14. Sent(PartsTo(m, d), c) <= In(m, c, 1, q)
      <4>1. PICK s1, i1, i2, i3, i4, i5 \in Nat :
              /\ s1 = Sent(parts, c) /\ i1 = In(m, c, 1, p) /\ i2 = In(m, c, p, start)
              /\ i3 = In(m, c, start, d) /\ i4 = In(m, c, d, d + 1) /\ i5 = In(m, c, d + 1, e)
        BY <3>12, <3>13
      <4>2. In(m, c, 1, e) = i1 + (i2 + (i3 + (i4 + i5)))
        BY <3>11, <4>1
      <4>3. Sent(PartsTo(m, d), c) = s1 + i3 + i5 /\ s1 <= i1
        BY <2>4, <3>8, <3>9, <3>10, <4>1
      <4>4. QED
        BY <3>4, <4>2, <4>3
    <3>15. QED
      BY <1>1, <2>1, <2>2, <3>14
  <2>7. QED
    BY <2>5, <2>6
<1>4. 0 .. n \subseteq T
  BY <1>2, <1>3, Upward
<1>5. QED
  BY <1>1, <1>4

LEMMA SentAtMost ==
  ASSUME NEW m \in Text, NEW c, ~IsLineEnd(Char(c))
  PROVE  Count(ConvertString(m, TRUE), c) <= Count(m, c)
<1>1. PICK n \in Nat : n = Len(m) /\ SubSeq(m, 1, n) = m
  <2>1. m \in Seq(Token)
    BY DEF Text
  <2>2. QED
    BY <2>1, SubSeqFull
<1>2. Count(ConvertString(m, TRUE), c) = Sent(Parts(m), c)
  BY ConvertedIs DEF Sent
<1>3. Count(m, c) = In(m, c, 1, n + 1)
  <2>1. PICK l : l = n + 1 /\ l - 1 = n
    OBVIOUS
  <2>2. In(m, c, 1, l) = Count(m, c)
    BY <1>1, <2>1 DEF In
  <2>3. QED
    BY <2>1, <2>2
<1>4. CASE \A i \in 1 .. n : ~IsCode(m[i])
  <2>1. PICK x \in PurePart : x = Part(DefaultCode, m, <<>>) /\ Parts(m) = <<x>>
    BY <1>1, <1>4, PartsPure
  <2>2. <<x>> = Append(<<>>, x) /\ <<>> \in Seq(PurePart)
    OBVIOUS
  <2>3. Sent(Append(<<>>, x), c) = Sent(<<>>, c) + Count(x.text, c) + Count(x.eol, c)
    BY <2>2, SentMore
  <2>4. x.text = m /\ x.eol = <<>>
    BY <2>1 DEF Part
  <2>5. In(m, c, 1, n + 1) \in Nat
    <3>1. 1 \in 1 .. n + 1 /\ n + 1 \in 1 .. n + 1
      OBVIOUS
    <3>2. QED
      BY <1>1, <3>1, InNat
  <2>6. Sent(Parts(m), c) = 0 + Count(m, c) + 0
    BY <2>1, <2>2, <2>3, <2>4, NoneSent
  <2>7. PICK z \in Nat : z = Count(m, c)
    BY <1>3, <2>5
  <2>8. Sent(Parts(m), c) = z
    BY <2>6, <2>7
  <2>9. z <= z
    OBVIOUS
  <2>10. QED
    BY <1>2, <2>7, <2>8, <2>9, Zenon
<1>5. CASE \E i \in 1 .. n : IsCode(m[i])
  <2>1. Parts(m) = PartsTo(m, n)
    BY <1>1, <1>5, PartsToOf
  <2>2. n \in 0 .. n
    OBVIOUS
  <2>3. PICK p \in 1 .. n + 1 : p = SearchedFrom(m, n + 1)
    BY <1>1, <2>2, SearchedOf
  <2>4. Sent(PartsTo(m, n), c) <= In(m, c, 1, p)
    BY <1>1, <2>2, <2>3, NoMoreOf
  <2>5. /\ 1 \in 1 .. n + 1 /\ p \in 1 .. n + 1 /\ n + 1 \in p .. n + 1 /\ n + 1 \in 1 .. n + 1
    OBVIOUS
  <2>6. In(m, c, 1, n + 1) = In(m, c, 1, p) + In(m, c, p, n + 1)
    BY <1>1, <2>5, InSplit
  <2>7. In(m, c, 1, p) \in Nat /\ In(m, c, p, n + 1) \in Nat
    BY <1>1, <2>5, InNat
  <2>8. Sent(PartsTo(m, n), c) \in Nat
    <3>1. PartsTo(m, n) \in Seq(PurePart)
      BY <1>1, <2>2, PartsToOf
    <3>2. PICK r \in Seq(Glyph) : r = Rendered(PartsTo(m, n), TRUE)
      <4>1. PICK x \in PurePart : x = Part(DefaultCode, <<>>, <<>>)
        <5>1. DefaultCode \in Style /\ <<>> \in Seq(Letter)
          BY Kinds
        <5>2. QED
          BY <5>1 DEF Part, PurePart
      <4>2. QED
        BY <3>1, <4>1, RenderedAppend
    <3>3. QED
      BY <3>2, Kinds, CountOf DEF Sent
  <2>9. PICK s, i, j \in Nat : /\ s = Sent(PartsTo(m, n), c) /\ i = In(m, c, 1, p)
                               /\ j = In(m, c, p, n + 1)
    BY <2>7, <2>8
  <2>10. s <= i + j
    BY <2>4, <2>9
  <2>11. QED
    BY <1>2, <1>3, <2>1, <2>6, <2>9, <2>10
<1>6. QED
  BY <1>4, <1>5

-----------------------------------------------------------------------------
(* The colour of a position, and what is painted there.                     *)

(* A stretch of text of one colour begins at l: with a code, or a line.     *)
Fresh(m, l) == l = 1 \/ IsLF(m[l - 1]) \/ IsCode(m[l])
CodeAt(m, l) == IF IsCode(m[l]) THEN m[l] ELSE DefaultCode

LEMMA LineStartOf ==
  ASSUME NEW m \in Text, NEW n \in Nat, n = Len(m), NEW i \in 1 .. n, NEW s, s = LineStart(m, i)
  PROVE  /\ s \in 1 .. i /\ (s = 1 \/ IsLF(m[s - 1]))
         /\ \A j \in s .. i - 1 : ~IsLF(m[j])
<1>1. PICK I : I = {j \in 1 .. i - 1 : IsLF(m[j])}
  OBVIOUS
<1>2. PICK b : b = IF I # {} THEN Max(I) ELSE 0
  OBVIOUS
<1>3. \/ b = 0 /\ I = {}
      \/ b \in I /\ b \in 1 .. n /\ \A j \in I : j <= b
  <2>1. I \subseteq 1 .. n
    BY <1>1
  <2>2. QED
    BY <1>2, <2>1, LastOf
<1>4. s = 1 + b
  BY <1>1, <1>2 DEF LineStart, SelectLastInSubSeq
<1>5. b \in 0 .. i - 1
  BY <1>1, <1>3
<1>6. ASSUME NEW j \in s .. i - 1 PROVE ~IsLF(m[j])
  <2>1. j \in 1 .. i - 1 /\ j > b
    BY <1>4, <1>5
  <2>2. j \notin I
    BY <1>3, <1>5, <2>1
  <2>3. QED
    BY <1>1, <2>1, <2>2
<1>7. s \in 1 .. i
  BY <1>4, <1>5
<1>8. s = 1 \/ IsLF(m[s - 1])
  <2>1. CASE b = 0
    BY <1>4, <2>1
  <2>2. CASE b # 0
    <3>1. s - 1 = b /\ b \in I
      BY <1>3, <1>4, <1>5, <2>2
    <3>2. QED
      BY <1>1, <3>1
  <2>3. QED
    BY <2>1, <2>2
<1>9. QED
  BY <1>6, <1>7, <1>8

(* The stretch goes up to i: its colour is that of the code at l, if any.   *)
LEMMA MarkOf ==
  ASSUME NEW m \in Text, NEW n \in Nat, n = Len(m), NEW l \in 1 .. n, NEW i \in l .. n,
         Fresh(m, l),
         \A j \in l .. i - 1 : ~IsLF(m[j]), \A j \in l + 1 .. i : ~IsCode(m[j])
  PROVE  Mark(m, i) = l /\ ColourAt(m, i) = ConvertCode(CodeAt(m, l))
<1>1. i \in 1 .. n
  OBVIOUS
<1>2. PICK s : s = LineStart(m, i)
  OBVIOUS
<1>3. s \in 1 .. i /\ (s = 1 \/ IsLF(m[s - 1])) /\ \A j \in s .. i - 1 : ~IsLF(m[j])
  BY <1>1, <1>2, LineStartOf
<1>4. s <= l
  <2>1. SUFFICES ASSUME s > l PROVE FALSE
    BY <1>3
  <2>2. s # 1 /\ s - 1 \in l .. i - 1
    BY <1>3, <2>1
  <2>3. QED
    BY <1>3, <2>2
<1>5. s = l \/ IsCode(m[l])
  <2>1. SUFFICES ASSUME s # l, ~IsCode(m[l]) PROVE FALSE
    OBVIOUS
  <2>2. l # 1 /\ IsLF(m[l - 1])
    BY <1>3, <1>4, <2>1 DEF Fresh
  <2>3. l - 1 \in s .. i - 1
    BY <1>3, <1>4, <2>1
  <2>4. QED
    BY <1>3, <2>2, <2>3
<1>6. PICK C : C = {s} \cup {j \in s .. i : IsCode(m[j])}
  OBVIOUS
<1>7. C \subseteq 0 .. n /\ C # {}
  BY <1>3, <1>6
<1>8. l \in C
  BY <1>3, <1>4, <1>5, <1>6
<1>9. \A j \in C : j <= l
  <2>1. ASSUME NEW j \in s .. i, IsCode(m[j]) PROVE j <= l
    BY <1>3, <2>1
  <2>2. QED
    BY <1>4, <1>6, <2>1
<1>10. Max(C) \in C /\ Max(C) >= l
  BY <1>7, <1>8, MaxOf
<1>11. Max(C) = l
  <2>1. PICK x : x = Max(C)
    OBVIOUS
  <2>2. x \in 0 .. n /\ x <= l /\ x >= l
    BY <1>7, <1>9, <1>10, <2>1
  <2>3. QED
    BY <2>1, <2>2
<1>12. Mark(m, i) = l
  BY <1>2, <1>6, <1>11 DEF Mark
<1>13. QED
  BY <1>12 DEF ColourAt, CodeAt

(* Text between a code or the beginning of a line and what ends it.         *)
Region(m, l, b, r) ==
  /\ Fresh(m, l)
  /\ \A i \in l .. b - 1 : ~IsLineEnd(m[i])
  /\ \A i \in l + 1 .. b - 1 : ~IsCode(m[i])
  /\ \A i \in b .. r - 1 : IsLineEnd(m[i])

LEMMA RegionColour ==
  ASSUME NEW m \in Text, NEW n \in Nat, n = Len(m), NEW l \in 1 .. n,
         NEW b \in l + 1 .. n + 1, NEW r \in b .. n + 1, Region(m, l, b, r),
         NEW i \in l .. b - 1
  PROVE  Mark(m, i) = l /\ ColourAt(m, i) = ConvertCode(CodeAt(m, l))
<1>1. Fresh(m, l) /\ i \in l .. n
  BY DEF Region
<1>2. \A j \in l .. i - 1 : ~IsLF(m[j])
  <2>1. \A j \in l .. i - 1 : ~IsLineEnd(m[j])
    BY DEF Region
  <2>2. QED
    BY <2>1, Kinds
<1>3. \A j \in l + 1 .. i : ~IsCode(m[j])
  BY DEF Region
<1>4. QED
  BY <1>1, <1>2, <1>3, MarkOf

FourFromLeft(s, t, u, w) == ((s \o t) \o u) \o w
FirstAndThree(s, t, u, w) == s \o ((t \o u) \o w)

LEMMA ConcatFour ==
  ASSUME NEW S, NEW s \in Seq(S), NEW t \in Seq(S), NEW u \in Seq(S), NEW w \in Seq(S)
  PROVE  FourFromLeft(s, t, u, w) = FirstAndThree(s, t, u, w)
  BY DEF FourFromLeft, FirstAndThree

(* A text between the escape sequences c and z, and it after h, both as a   *)
(* whole and step by step.                                                  *)
Inked(c, v, z) == <<c>> \o v \o <<z>>
InkAfter(h, c, v, z) == h \o Inked(c, v, z)
InkStepwise(h, c, v, z) == Append(Append(h, c) \o v, z)

LEMMA InkIs ==
  ASSUME NEW S, NEW h \in Seq(S), NEW v \in Seq(S), NEW c \in S, NEW z \in S
  PROVE  InkStepwise(h, c, v, z) = InkAfter(h, c, v, z)
<1>1. PICK k \in Seq(S), y \in Seq(S) : k = <<c>> /\ y = <<z>>
  <2>1. <<c>> \in Seq(S) /\ <<z>> \in Seq(S)
    OBVIOUS
  <2>2. QED
    BY <2>1
<1>2. FourFromLeft(h, k, v, y) = FirstAndThree(h, k, v, y)
  <2>1. h \in Seq(S) /\ k \in Seq(S) /\ v \in Seq(S) /\ y \in Seq(S)
    BY <1>1
  <2>2. QED
    BY ConcatFour, <2>1, ZenonT(30)
<1>3. InkStepwise(h, c, v, z) = FourFromLeft(h, k, v, y)
  <2>1. Append(h, c) = h \o k
    BY <1>1, AppendIsConcat
  <2>2. PICK g \in Seq(S) : g = (h \o k) \o v
    <3>1. (h \o k) \o v \in Seq(S)
      BY <1>1
    <3>2. QED
      BY <3>1
  <2>3. Append(g, z) = g \o y
    BY <1>1, <2>2, AppendIsConcat
  <2>4. QED
    BY <2>1, <2>2, <2>3 DEF InkStepwise, FourFromLeft
<1>4. InkAfter(h, c, v, z) = FirstAndThree(h, k, v, y)
  BY <1>1 DEF FirstAndThree, InkAfter, Inked
<1>5. QED
  BY <1>2, <1>3, <1>4, Zenon

(* What is painted leaves no colour behind.                                 *)
LEMMA PaintRun ==
  ASSUME NEW m \in Text, NEW a \in 1 .. Len(m) + 1, NEW b \in a .. Len(m) + 1,
         NEW h \in Seq(Glyph), Follows(m, a, h), NEW c \in Glyph, ~IsChar(c),
         \A i \in a .. b - 1 : IsChar(m[i]) /\ Fits(m, i, c)
  PROVE  \E g \in Seq(Glyph) : /\ g = InkAfter(h, c, SubSeq(m, a, b - 1), Reset)
                               /\ Follows(m, b, g) /\ Current(g) = Reset
<1>1. PICK n \in Nat : n = Len(m) /\ a \in 1 .. n + 1 /\ b \in a .. n + 1
  BY DEF Text
<1>2. PICK v \in Seq(Glyph) : v = SubSeq(m, a, b - 1)
  <2>1. a \in 1 .. n + 1 /\ b \in a .. n + 1
    BY <1>1
  <2>2. QED
    BY <1>1, <2>1, InNat
<1>3. PICK h1 \in Seq(Glyph) : h1 = Append(h, c)
  <2>1. Append(h, c) \in Seq(Glyph)
    OBVIOUS
  <2>2. QED
    BY <2>1
<1>4. Follows(m, a, h1) /\ Current(h1) = c
  BY <1>3, FollowsWide, RenditionAppend
<1>5. PICK h2 \in Seq(Glyph) : h2 = h1 \o v /\ Follows(m, b, h2)
  <2>1. \A i \in a .. b - 1 : IsChar(m[i]) /\ Fits(m, i, Current(h1))
    BY <1>4
  <2>2. h1 \o v \in Seq(Glyph) /\ Follows(m, b, h1 \o v)
    BY <1>2, <1>4, <2>1, FollowsBlock
  <2>3. QED
    BY <2>2
<1>6. PICK z \in Glyph : z = Reset /\ ~IsChar(z)
  BY Kinds
<1>7. PICK h3 \in Seq(Glyph) : h3 = Append(h2, z)
  <2>1. Append(h2, z) \in Seq(Glyph)
    OBVIOUS
  <2>2. QED
    BY <2>1
<1>8. Follows(m, b, h3) /\ Current(h3) = z
  <2>1. b \in 1 .. Len(m) + 1
    BY <1>1
  <2>2. QED
    BY <1>5, <1>6, <1>7, <2>1, FollowsWide, RenditionAppend
<1>9. h3 = InkAfter(h, c, v, z)
  <2>1. h3 = InkStepwise(h, c, v, z)
    BY <1>3, <1>5, <1>7 DEF InkStepwise
  <2>2. h \in Seq(Glyph) /\ v \in Seq(Glyph) /\ c \in Glyph /\ z \in Glyph
    OBVIOUS
  <2>3. InkStepwise(h, c, v, z) = InkAfter(h, c, v, z)
    BY <2>2, InkIs, SMTT(20)
  <2>4. QED
    BY <2>1, <2>3
<1>10. QED
  BY <1>2, <1>6, <1>8, <1>9

(* The part before l ended in the colour c.                                 *)
EndedIn(m, l, c) ==
  \E j \in 1 .. l - 1 : /\ ~IsLineEnd(m[j]) /\ \A i \in j + 1 .. l - 1 : IsLineEnd(m[i])
                        /\ ColourAt(m, j) = c

LEMMA RepeatsAt ==
  ASSUME NEW m \in Text, NEW n \in Nat, n = Len(m), NEW l \in 1 .. n, NEW i \in l .. n,
         Mark(m, i) = l, EndedIn(m, l, ColourAt(m, i))
  PROVE  Repeats(m, i)
<1>1. PICK j \in 1 .. l - 1 : /\ ~IsLineEnd(m[j])
                              /\ \A k \in j + 1 .. l - 1 : IsLineEnd(m[k])
                              /\ ColourAt(m, j) = ColourAt(m, i)
  BY DEF EndedIn
<1>2. PICK I : I = {k \in 1 .. l - 1 : ~IsLineEnd(m[k])}
  OBVIOUS
<1>3. PICK x : x = IF I # {} THEN Max(I) ELSE 0
  OBVIOUS
<1>4. x = SelectLastInSubSeq(m, 1, Mark(m, i) - 1, LAMBDA t : ~IsLineEnd(t))
  BY <1>2, <1>3 DEF SelectLastInSubSeq
<1>5. I \subseteq 1 .. n /\ j \in I
  BY <1>1, <1>2
<1>6. x \in I /\ \A k \in I : k <= x
  BY <1>3, <1>5, LastOf
<1>7. x = j
  <2>1. x \in 1 .. l - 1 /\ ~IsLineEnd(m[x]) /\ j <= x
    BY <1>2, <1>5, <1>6
  <2>2. QED
    BY <1>1, <2>1
<1>8. QED
  BY <1>1, <1>4, <1>7 DEF Repeats

TwoAndLast(s, t, u) == (s \o t) \o u
FirstAndTwo(s, t, u) == s \o (t \o u)

LEMMA ConcatThree ==
  ASSUME NEW S, NEW s \in Seq(S), NEW t \in Seq(S), NEW u \in Seq(S)
  PROVE  TwoAndLast(s, t, u) = FirstAndTwo(s, t, u)
  BY DEF TwoAndLast, FirstAndTwo

(* What the parts P are shown as is all that precedes l.                    *)
Reached(m, l, P) ==
  /\ Follows(m, l, Rendered(P, TRUE)) /\ Current(Rendered(P, TRUE)) = Reset
  /\ P # <<>> => EndedIn(m, l, ConvertCode(P[Len(P)].code))

(* A part that is a region's, as it is added to those before it.            *)
Regional(m, l, b, r, x) ==
  /\ Region(m, l, b, r)
  /\ x \in PurePart /\ x.code = CodeAt(m, l)
  /\ x.text = SubSeq(m, IF IsCode(m[l]) THEN l + 1 ELSE l, b - 1)
  /\ x.eol = SubSeq(m, b, r - 1)

LEMMA RegionFits ==
  ASSUME NEW m \in Text, NEW n \in Nat, n = Len(m), NEW l \in 1 .. n,
         NEW b \in l + 1 .. n + 1, NEW r \in b .. n + 1, NEW x, Regional(m, l, b, r, x),
         NEW P \in Seq(PurePart), Reached(m, l, P),
         NEW a, a = IF IsCode(m[l]) THEN l + 1 ELSE l
  PROVE  /\ a \in 1 .. n + 1 /\ b \in a .. n + 1 /\ Follows(m, a, Rendered(P, TRUE))
         /\ \A i \in a .. b - 1 : /\ IsChar(m[i]) /\ Fits(m, i, ConvertCode(x.code))
                                  /\ AsLast(P, x) => Fits(m, i, Reset)
<1>1. Region(m, l, b, r) /\ x.code = CodeAt(m, l)
  BY DEF Regional
<1>2. Follows(m, l, Rendered(P, TRUE))
  BY DEF Reached
<1>3. a \in 1 .. n + 1 /\ b \in a .. n + 1
  OBVIOUS
<1>4. Follows(m, a, Rendered(P, TRUE))
  <2>1. CASE IsCode(m[l])
    BY <1>2, <2>1, FollowsLead
  <2>2. CASE ~IsCode(m[l])
    BY <1>2, <2>2
  <2>3. QED
    BY <2>1, <2>2
<1>5. ASSUME NEW i \in a .. b - 1
      PROVE  /\ IsChar(m[i]) /\ Fits(m, i, ConvertCode(x.code))
             /\ AsLast(P, x) => Fits(m, i, Reset)
  <2>1. i \in l .. b - 1 /\ i \in l .. n /\ i \in 1 .. n
    OBVIOUS
  <2>2. m[i] \in Token
    BY <2>1 DEF Text
  <2>3. ~IsCode(m[i])
    <3>1. CASE i = l
      BY <3>1
    <3>2. CASE i # l
      <4>1. i \in l + 1 .. b - 1
        BY <2>1, <3>2
      <4>2. QED
        BY <1>1, <4>1 DEF Region
    <3>3. QED
      BY <3>1, <3>2
  <2>4. Mark(m, i) = l /\ ColourAt(m, i) = ConvertCode(x.code)
    BY <1>1, <2>1, RegionColour
  <2>5. ASSUME AsLast(P, x) PROVE Repeats(m, i)
    <3>1. P # <<>> /\ ConvertCode(x.code) = ConvertCode(P[Len(P)].code)
      BY <2>5 DEF AsLast
    <3>2. EndedIn(m, l, ColourAt(m, i))
      BY <2>4, <3>1 DEF Reached
    <3>3. QED
      BY <2>1, <2>4, <3>2, RepeatsAt
  <2>6. IsChar(m[i])
    BY <2>2, <2>3, Kinds
  <2>7. QED
    BY <2>4, <2>5, <2>6 DEF Fits
<1>6. QED
  BY <1>3, <1>4, <1>5

(* What is shown ends in v, after g.                                        *)
ShownAs(p, g, v) == Rendered(p, TRUE) = g \o v

LEMMA DrawnPlain ==
  ASSUME NEW P \in Seq(PurePart), NEW x \in PurePart, AsLast(P, x),
         NEW g \in Seq(Glyph), g = Rendered(P, TRUE) \o x.text
  PROVE  ShownAs(Append(P, x), g, x.eol)
<1>1. PICK h \in Seq(Glyph), t \in Seq(Glyph), v \in Seq(Glyph) :
        h = Rendered(P, TRUE) /\ t = x.text /\ v = x.eol
  BY RenderedAppend, PartOf
<1>2. Rendered(Append(P, x), TRUE) = h \o Drawn(P, TRUE, x)
  BY <1>1, RenderedAppend
<1>3. Rendered(Append(P, x), TRUE) = FirstAndTwo(h, t, v)
  BY <1>1, <1>2 DEF FirstAndTwo, Drawn
<1>4. TwoAndLast(h, t, v) = FirstAndTwo(h, t, v)
  <2>1. h \in Seq(Glyph) /\ t \in Seq(Glyph) /\ v \in Seq(Glyph)
    OBVIOUS
  <2>2. QED
    BY <2>1, ConcatThree, ZenonT(30)
<1>5. QED
  BY <1>1, <1>3, <1>4 DEF ShownAs, TwoAndLast

LEMMA DrawnPainted ==
  ASSUME NEW P \in Seq(PurePart), NEW x \in PurePart, ~AsLast(P, x),
         NEW g \in Seq(Glyph),
         g = InkAfter(Rendered(P, TRUE), ConvertCode(x.code), x.text, Reset)
  PROVE  ShownAs(Append(P, x), g, x.eol)
<1>1. PICK h \in Seq(Glyph), t \in Seq(Glyph), v \in Seq(Glyph) :
        h = Rendered(P, TRUE) /\ t = Painted(x) /\ v = x.eol
  BY RenderedAppend, PartOf
<1>2. Rendered(Append(P, x), TRUE) = h \o Drawn(P, TRUE, x)
  BY <1>1, RenderedAppend
<1>3. Rendered(Append(P, x), TRUE) = FirstAndTwo(h, t, v)
  BY <1>1, <1>2 DEF FirstAndTwo, Drawn
<1>4. TwoAndLast(h, t, v) = FirstAndTwo(h, t, v)
  <2>1. h \in Seq(Glyph) /\ t \in Seq(Glyph) /\ v \in Seq(Glyph)
    OBVIOUS
  <2>2. QED
    BY <2>1, ConcatThree, ZenonT(30)
<1>5. Inked(ConvertCode(x.code), x.text, Reset) = t
  BY <1>1 DEF Inked, Painted
<1>6. g = h \o t
  BY <1>1, <1>5 DEF InkAfter
<1>7. QED
  BY <1>1, <1>3, <1>4, <1>6 DEF ShownAs, TwoAndLast

LEMMA RegionText ==
  ASSUME NEW m \in Text, NEW n \in Nat, n = Len(m), NEW l \in 1 .. n,
         NEW b \in l + 1 .. n + 1, NEW r \in b .. n + 1, NEW x, Regional(m, l, b, r, x),
         NEW P \in Seq(PurePart), Reached(m, l, P)
  PROVE  \E g \in Seq(Glyph) : /\ Follows(m, b, g) /\ Current(g) = Reset
                               /\ ShownAs(Append(P, x), g, x.eol)
<1>1. PICK a : a = IF IsCode(m[l]) THEN l + 1 ELSE l
  OBVIOUS
<1>2. /\ a \in 1 .. n + 1 /\ b \in a .. n + 1 /\ Follows(m, a, Rendered(P, TRUE))
      /\ \A i \in a .. b - 1 : /\ IsChar(m[i]) /\ Fits(m, i, ConvertCode(x.code))
                               /\ AsLast(P, x) => Fits(m, i, Reset)
  BY <1>1, RegionFits
<1>3. PICK h \in Seq(Glyph) : h = Rendered(P, TRUE) /\ Follows(m, a, h) /\ Current(h) = Reset
  BY <1>2, RenderedAppend DEF Reached, Regional
<1>4. x \in PurePart /\ x.text = SubSeq(m, a, b - 1)
  BY <1>1 DEF Regional
<1>5. a \in 1 .. Len(m) + 1 /\ b \in a .. Len(m) + 1
  BY <1>2
<1>6. CASE AsLast(P, x)
  <2>1. \A i \in a .. b - 1 : IsChar(m[i]) /\ Fits(m, i, Current(h))
    BY <1>2, <1>3, <1>6
  <2>2. PICK g \in Seq(Glyph) : /\ g = h \o SubSeq(m, a, b - 1)
                                /\ Follows(m, b, g) /\ Current(g) = Reset
    <3>1. /\ h \o SubSeq(m, a, b - 1) \in Seq(Glyph)
          /\ Follows(m, b, h \o SubSeq(m, a, b - 1))
          /\ Current(h \o SubSeq(m, a, b - 1)) = Current(h)
      BY <1>3, <1>5, <2>1, FollowsBlock
    <3>2. QED
      BY <1>3, <3>1
  <2>3. ShownAs(Append(P, x), g, x.eol)
    BY <1>3, <1>4, <1>6, <2>2, DrawnPlain
  <2>4. QED
    BY <2>2, <2>3
<1>7. CASE ~AsLast(P, x)
  <2>1. PICK c \in Glyph : c = ConvertCode(x.code) /\ ~IsChar(c)
    BY <1>4, PartOf, Kinds
  <2>2. \A i \in a .. b - 1 : IsChar(m[i]) /\ Fits(m, i, c)
    BY <1>2, <2>1
  <2>3. PICK g \in Seq(Glyph) : /\ g = InkAfter(h, c, SubSeq(m, a, b - 1), Reset)
                                /\ Follows(m, b, g) /\ Current(g) = Reset
    <3>1. /\ a \in 1 .. Len(m) + 1 /\ b \in a .. Len(m) + 1
          /\ h \in Seq(Glyph) /\ Follows(m, a, h) /\ c \in Glyph /\ ~IsChar(c)
      BY <1>3, <1>5, <2>1
    <3>2. QED
      BY <2>2, <3>1, PaintRun, SMTT(20)
  <2>4. ShownAs(Append(P, x), g, x.eol)
    BY <1>3, <1>4, <1>7, <2>1, <2>3, DrawnPainted
  <2>5. QED
    BY <2>3, <2>4
<1>8. QED
  BY <1>6, <1>7

LEMMA RegionReached ==
  ASSUME NEW m \in Text, NEW n \in Nat, n = Len(m), NEW l \in 1 .. n,
         NEW b \in l + 1 .. n + 1, NEW r \in b .. n + 1, NEW x, Regional(m, l, b, r, x),
         NEW P \in Seq(PurePart), Reached(m, l, P)
  PROVE  Append(P, x) \in Seq(PurePart) /\ Reached(m, r, Append(P, x))
<1>1. PICK g \in Seq(Glyph) : /\ Follows(m, b, g) /\ Current(g) = Reset
                              /\ ShownAs(Append(P, x), g, x.eol)
  BY RegionText
<1>2. Region(m, l, b, r) /\ x.code = CodeAt(m, l) /\ x.eol = SubSeq(m, b, r - 1)
  BY DEF Regional
<1>3. \A i \in b .. r - 1 : IsChar(m[i]) /\ Fits(m, i, Current(g))
  BY <1>2, Kinds DEF Region, Fits
<1>4. b \in 1 .. Len(m) + 1 /\ r \in b .. Len(m) + 1 /\ g \in Seq(Glyph)
  BY <1>1
<1>5. PICK h : /\ h = g \o SubSeq(m, b, r - 1)
               /\ Follows(m, r, h) /\ Current(h) = Reset
  <2>1. /\ g \o SubSeq(m, b, r - 1) \in Seq(Glyph)
        /\ Follows(m, r, g \o SubSeq(m, b, r - 1))
        /\ Current(g \o SubSeq(m, b, r - 1)) = Current(g)
    BY <1>1, <1>3, <1>4, FollowsBlock
  <2>2. QED
    BY <1>1, <2>1
<1>6. Rendered(Append(P, x), TRUE) = h
  BY <1>1, <1>2, <1>5 DEF ShownAs
<1>7. EndedIn(m, r, ConvertCode(x.code))
  <2>1. b - 1 \in l .. b - 1 /\ b - 1 \in 1 .. r - 1
    OBVIOUS
  <2>2. ColourAt(m, b - 1) = ConvertCode(x.code)
    BY <1>2, <2>1, RegionColour
  <2>3. ~IsLineEnd(m[b - 1]) /\ \A i \in b - 1 + 1 .. r - 1 : IsLineEnd(m[i])
    BY <1>2, <2>1 DEF Region
  <2>4. QED
    BY <2>1, <2>2, <2>3 DEF EndedIn
<1>8. /\ Append(P, x) \in Seq(PurePart) /\ Append(P, x)[Len(Append(P, x))] = x
  BY DEF Regional
<1>9. QED
  BY <1>5, <1>6, <1>7, <1>8 DEF Reached

LEMMA NoneReached == ASSUME NEW m \in Text PROVE Reached(m, 1, <<>>)
<1>1. Rendered(<<>>, TRUE) = <<>>
  BY RenderedNone
<1>2. Current(<<>>) = Reset
  BY RenditionNone
<1>3. SubSeq(m, 1, 1 - 1) = <<>>
  BY DEF Text
<1>4. CharsOf(<<>>) = <<>> /\ Positions(<<>>) = <<>>
  BY KeptNone
<1>5. Follows(m, 1, <<>>)
  <2>1. Matched(m, <<>>, <<>>, <<>>)
    BY DEF Matched
  <2>2. QED
    BY <1>3, <1>4, <2>1 DEF Follows
<1>6. QED
  BY <1>1, <1>2, <1>5 DEF Reached

(* A text whose lines are marked, but the empty ones.                       *)
LinesMarked(m) ==
  /\ Marked(m, 1)
  /\ \A i \in DOMAIN m : ~IsLineEnd(m[i]) => Marked(m, i)
  /\ \A i \in DOMAIN m : m[i] = Char("CR") => i < Len(m) /\ IsLineEnd(m[i + 1])

LEMMA MarkedFrom ==
  ASSUME NEW m \in Text, NEW n \in Nat, n = Len(m), NEW l \in 1 .. n, Fresh(m, l), Marked(m, l)
  PROVE  \E j \in l .. n : IsCode(m[j]) /\ \A i \in l .. j - 1 : ~IsLF(m[i])
<1>1. CASE IsCode(m[l])
  BY <1>1
<1>2. CASE ~IsCode(m[l])
  <2>1. PICK s : s = LineStart(m, l)
    OBVIOUS
  <2>2. s \in 1 .. l /\ \A j \in s .. l - 1 : ~IsLF(m[j])
    BY <2>1, LineStartOf
  <2>3. s = l
    <3>1. SUFFICES ASSUME s # l PROVE FALSE
      OBVIOUS
    <3>2. l - 1 \in s .. l - 1 /\ l # 1
      BY <2>2, <3>1
    <3>3. IsLF(m[l - 1])
      BY <1>2, <3>2 DEF Fresh
    <3>4. QED
      BY <2>2, <3>2, <3>3
  <2>4. PICK T : T = {n} \cup {j \in l .. n : IsLF(m[j])}
    OBVIOUS
  <2>5. PICK x : x = Min(T)
    OBVIOUS
  <2>6. T \subseteq Nat /\ n \in T
    BY <2>4
  <2>7. x \in T /\ \A y \in T : x <= y
    BY <2>5, <2>6, MinOf
  <2>8. x = LineStop(m, l)
    BY <2>4, <2>5 DEF LineStop
  <2>9. PICK j \in l .. x : IsCode(m[j])
    BY <2>1, <2>3, <2>8 DEF Marked
  <2>10. x \in l .. n
    BY <2>4, <2>7
  <2>11. j \in l .. n /\ j <= x
    BY <2>9, <2>10
  <2>12. ASSUME NEW i \in l .. j - 1, IsLF(m[i]) PROVE FALSE
    <3>1. i \in T
      BY <2>4, <2>11, <2>12
    <3>2. x <= i
      BY <2>7, <3>1
    <3>3. QED
      BY <2>10, <2>11, <3>2
  <2>13. QED
    BY <2>9, <2>11, <2>12
<1>3. QED
  BY <1>1, <1>2

(* Line ends before a code on the same line are none.                       *)
LEMMA NoneBeforeCode ==
  ASSUME NEW m \in Text, NEW n \in Nat, n = Len(m), LinesMarked(m),
         NEW l \in 1 .. n, NEW c \in l .. n, IsCode(m[c]),
         \A i \in l .. c - 1 : ~IsLF(m[i])
  PROVE  \A i \in l .. c - 1 : ~IsLineEnd(m[i])
<1>1. PICK I : I = {i \in l .. c - 1 : IsLineEnd(m[i])}
  OBVIOUS
<1>2. SUFFICES ASSUME I # {} PROVE FALSE
  BY <1>1
<1>3. I \subseteq 0 .. n
  BY <1>1
<1>4. PICK x \in I : \A y \in I : x >= y
  BY <1>2, <1>3, Greatest
<1>5. x \in l .. c - 1 /\ IsLineEnd(m[x]) /\ x \in DOMAIN m
  BY <1>1, <1>4 DEF Text
<1>6. m[x] = Char("CR")
  BY <1>5 DEF IsLineEnd, IsLF
<1>7. IsLineEnd(m[x + 1])
  BY <1>5, <1>6 DEF LinesMarked
<1>8. x + 1 # c
  BY <1>7, Kinds
<1>9. x + 1 \in I
  BY <1>1, <1>5, <1>7, <1>8
<1>10. QED
  BY <1>4, <1>5, <1>9

(* The parts of the first k tokens are shown as is what precedes l, where   *)
(* the next part begins.                                                    *)
Ahead(m, k, l) ==
  /\ Reached(m, l, PartsTo(m, k))
  /\ SearchedFrom(m, k + 1) \in 1 .. l
  /\ l = SearchedFrom(m, k + 1) \/ IsLF(m[l - 1])
  /\ \A j \in 1 .. Len(m) : IsCode(m[j]) => (j <= k <=> j < l)
  /\ l <= Len(m) => Fresh(m, l) /\ Marked(m, l)

LEMMA AheadNone ==
  ASSUME NEW m \in Text, LinesMarked(m)
  PROVE  Ahead(m, 0, 1)
<1>1. PICK n \in Nat : n = Len(m)
  BY DEF Text
<1>2. PartsTo(m, 0) = <<>>
  BY <1>1, PartsToOf
<1>3. Reached(m, 1, PartsTo(m, 0))
  BY <1>2, NoneReached
<1>4. PICK p : p = SearchedFrom(m, 0 + 1)
  OBVIOUS
<1>5. 0 \in 0 .. n
  BY <1>1
<1>6. p = 1
  BY <1>1, <1>4, <1>5, SearchedOf
<1>7. Fresh(m, 1) /\ Marked(m, 1)
  BY DEF Fresh, LinesMarked
<1>8. QED
  BY <1>1, <1>3, <1>4, <1>6, <1>7 DEF Ahead

LEMMA AheadSame ==
  ASSUME NEW m \in Text, NEW n \in Nat, n = Len(m), NEW k \in 0 .. n - 1, ~IsCode(m[k + 1]),
         NEW l \in 1 .. n + 1, Ahead(m, k, l)
  PROVE  Ahead(m, k + 1, l)
<1>1. PartsTo(m, k + 1) = PartsTo(m, k)
  <2>1. PartsTo(m, k + 1) = PartsTo(m, k) \o Found(m, k + 1)
    BY PartsToOf
  <2>2. Found(m, k + 1) = <<>>
    BY DEF Found
  <2>3. PICK P \in Seq(PurePart) : P = PartsTo(m, k)
    <3>1. k \in 0 .. n
      OBVIOUS
    <3>2. QED
      BY <3>1, PartsToOf
  <2>4. QED
    BY <2>1, <2>2, <2>3
<1>2. SearchedFrom(m, k + 1 + 1) = SearchedFrom(m, k + 1)
  <2>1. PICK c \in 1 .. n : c = k + 1 /\ c # 0
    OBVIOUS
  <2>2. c \in 0 .. n /\ ~IsCode(m[c])
    BY <2>1
  <2>3. SearchedFrom(m, c + 1) = SearchedFrom(m, c)
    <3>1. PICK p : p = SearchedFrom(m, c + 1)
      OBVIOUS
    <3>2. c # 0 /\ ~IsCode(m[c]) => p = SearchedFrom(m, c)
      BY <2>2, <3>1, SearchedOf
    <3>3. QED
      BY <2>1, <2>2, <3>1, <3>2
  <2>4. QED
    BY <2>1, <2>3
<1>3. ASSUME NEW j \in 1 .. n, IsCode(m[j]) PROVE j <= k + 1 <=> j < l
  <2>1. j # k + 1
    BY <1>3
  <2>2. j <= k <=> j < l
    BY <1>3 DEF Ahead
  <2>3. QED
    BY <2>1, <2>2
<1>4. QED
  BY <1>1, <1>2, <1>3 DEF Ahead

(* A match begins where the next part does.                                 *)
LEMMA StartsWhereAhead ==
  ASSUME NEW m \in Text, NEW n \in Nat, n = Len(m), NEW c \in 1 .. n, NEW l \in 1 .. c,
         NEW p \in 1 .. l, l = p \/ IsLF(m[l - 1]), \A i \in l .. c - 1 : ~IsLF(m[i]),
         NEW start, StartsAt(m, p, c, start)
  PROVE  start = l
<1>1. /\ start \in p .. c /\ \A i \in start .. c - 1 : ~IsLF(m[i])
      /\ start = p \/ IsLF(m[start - 1])
  BY DEF StartsAt
<1>2. ~(start < l)
  <2>1. SUFFICES ASSUME start < l PROVE FALSE
    OBVIOUS
  <2>2. l # p /\ l - 1 \in start .. c - 1
    BY <1>1, <2>1
  <2>3. QED
    BY <1>1, <2>2
<1>3. ~(start > l)
  <2>1. SUFFICES ASSUME start > l PROVE FALSE
    OBVIOUS
  <2>2. start # p /\ start - 1 \in l .. c - 1
    BY <1>1, <2>1
  <2>3. QED
    BY <1>1, <2>2
<1>4. QED
  BY <1>1, <1>2, <1>3

(* The preamble of a code is a region of its own.                           *)
LEMMA PreambleReached ==
  ASSUME NEW m \in Text, NEW n \in Nat, n = Len(m), NEW c \in 1 .. n, NEW l \in 1 .. c,
         Fresh(m, l), \A i \in l .. c - 1 : ~IsLineEnd(m[i]) /\ ~IsCode(m[i]),
         Preamble(m, l, c) \in PurePart,
         NEW P \in Seq(PurePart), Reached(m, l, P)
  PROVE  /\ Prefaced(P, m, l, c) \in Seq(PurePart)
         /\ Reached(m, c, Prefaced(P, m, l, c))
<1>1. CASE l = c
  BY <1>1 DEF Prefaced
<1>2. CASE l # c
  <2>1. l \in 1 .. n /\ c \in l + 1 .. n + 1 /\ c \in c .. n + 1
    BY <1>2
  <2>2. ~IsCode(m[l])
    BY <2>1
  <2>3. PICK x \in PurePart : x = Preamble(m, l, c)
    OBVIOUS
  <2>4. x.code = DefaultCode /\ x.text = SubSeq(m, l, c - 1) /\ x.eol = <<>>
    BY <2>3 DEF Preamble, Part
  <2>5. x.eol = SubSeq(m, c, c - 1)
    BY <2>4 DEF Text
  <2>6. Region(m, l, c, c)
    BY <2>1 DEF Region
  <2>7. Regional(m, l, c, c, x)
    BY <2>2, <2>4, <2>5, <2>6 DEF Regional, CodeAt
  <2>8. Append(P, x) \in Seq(PurePart) /\ Reached(m, c, Append(P, x))
    BY <2>1, <2>7, RegionReached
  <2>9. QED
    BY <1>2, <2>3, <2>8 DEF Prefaced
<1>3. QED
  BY <1>1, <1>2

(* So is its text, and the line ends after it.                              *)
LEMMA CodeReached ==
  ASSUME NEW m \in Text, NEW n \in Nat, n = Len(m), NEW c \in 1 .. n, IsCode(m[c]),
         NEW e, e = TextEnd(m, c), NEW g, g = EolEnd(m, e),
         CodePart(m, c, e, g) \in PurePart,
         NEW P \in Seq(PurePart), Reached(m, c, P)
  PROVE  /\ e \in c + 1 .. n + 1 /\ g \in e .. n + 1
         /\ Reached(m, g, Append(P, CodePart(m, c, e, g)))
<1>1. /\ e \in c + 1 .. n + 1
      /\ \A i \in c + 1 .. e - 1 : ~IsLineEnd(m[i]) /\ ~IsCode(m[i])
  BY TextEndOf
<1>2. g \in e .. n + 1 /\ \A i \in e .. g - 1 : IsLineEnd(m[i])
  <2>1. e \in 1 .. n + 1
    BY <1>1
  <2>2. QED
    BY <2>1, EolEndOf
<1>3. ~IsLineEnd(m[c])
  BY Kinds
<1>4. Region(m, c, e, g)
  <2>1. ASSUME NEW i \in c .. e - 1 PROVE ~IsLineEnd(m[i])
    <3>1. CASE i = c
      BY <1>3, <3>1
    <3>2. CASE i # c
      <4>1. i \in c + 1 .. e - 1
        BY <1>1, <3>2
      <4>2. QED
        BY <1>1, <4>1
    <3>3. QED
      BY <3>1, <3>2
  <2>2. QED
    BY <1>1, <1>2, <2>1 DEF Region, Fresh
<1>5. PICK x \in PurePart : x = CodePart(m, c, e, g)
  OBVIOUS
<1>6. /\ x.code = m[c] /\ x.text = SubSeq(m, c + 1, e - 1) /\ x.eol = SubSeq(m, e, g - 1)
  BY <1>5 DEF CodePart, Part
<1>7. Regional(m, c, e, g, x)
  BY <1>4, <1>6 DEF Regional, CodeAt
<1>8. Reached(m, g, Append(P, x))
  BY <1>1, <1>2, <1>7, RegionReached
<1>9. QED
  BY <1>1, <1>2, <1>5, <1>8

(* Where line ends end, a line begins.                                      *)
LEMMA FreshLine ==
  ASSUME NEW m \in Text, NEW n \in Nat, n = Len(m), LinesMarked(m), NEW c \in 1 .. n,
         NEW e, e = TextEnd(m, c), NEW g, g = EolEnd(m, e)
  PROVE  /\ g = e \/ IsLF(m[g - 1])
         /\ g <= n => Fresh(m, g) /\ Marked(m, g)
<1>1. e \in c + 1 .. n + 1 /\ (e <= n => IsLineEnd(m[e]) \/ IsCode(m[e]))
  BY TextEndOf
<1>2. /\ g \in e .. n + 1 /\ \A i \in e .. g - 1 : IsLineEnd(m[i])
      /\ g <= n => ~IsLineEnd(m[g])
  <2>1. e \in 1 .. n + 1
    BY <1>1
  <2>2. QED
    BY <2>1, EolEndOf
<1>3. DOMAIN m = 1 .. n
  BY DEF Text
<1>4. g = e \/ IsLF(m[g - 1])
  <2>1. SUFFICES ASSUME g # e, ~IsLF(m[g - 1]) PROVE FALSE
    OBVIOUS
  <2>2. PICK i \in e .. g - 1 : i = g - 1 /\ i + 1 = g /\ i \in 1 .. n
    BY <1>1, <1>2, <2>1
  <2>3. m[i] = Char("CR")
    BY <1>2, <2>1, <2>2 DEF IsLineEnd, IsLF
  <2>4. i < n /\ IsLineEnd(m[g])
    BY <1>3, <2>2, <2>3 DEF LinesMarked
  <2>5. QED
    BY <1>2, <2>2, <2>4
<1>5. ASSUME g <= n PROVE Fresh(m, g) /\ Marked(m, g)
  <2>1. g \in 1 .. n /\ ~IsLineEnd(m[g])
    BY <1>1, <1>2, <1>5
  <2>2. Marked(m, g)
    BY <1>3, <2>1 DEF LinesMarked
  <2>3. g = e => IsCode(m[g])
    BY <1>1, <2>1
  <2>4. QED
    BY <1>4, <2>2, <2>3 DEF Fresh
<1>6. QED
  BY <1>4, <1>5

LEMMA SearchedAfter ==
  ASSUME NEW m \in Text, NEW n \in Nat, n = Len(m), NEW c \in 1 .. n, IsCode(m[c]),
         NEW q, q = SearchedFrom(m, c + 1)
  PROVE  q = TextEnd(m, c) /\ \A j \in 1 .. n : IsCode(m[j]) => (j <= c <=> j < q)
<1>1. PICK k \in 0 .. n : k = c /\ q = SearchedFrom(m, k + 1)
  OBVIOUS
<1>2. k # 0 /\ IsCode(m[k]) => q = TextEnd(m, k)
  BY <1>1, SearchedOf
<1>3. \A j \in 1 .. n : IsCode(m[j]) => (j <= k <=> j < q)
  BY <1>1, SearchedOf
<1>4. QED
  BY <1>1, <1>2, <1>3

LEMMA AheadCode ==
  ASSUME NEW m \in Text, NEW n \in Nat, n = Len(m), LinesMarked(m),
         NEW k \in 0 .. n - 1, IsCode(m[k + 1]), NEW l \in 1 .. n + 1, Ahead(m, k, l)
  PROVE  \E g \in 1 .. n + 1 : Ahead(m, k + 1, g)
<1>1. PICK c \in 1 .. n : c = k + 1 /\ c - 1 = k /\ c # 0 /\ IsCode(m[c])
  OBVIOUS
<1>2. PICK p : p = SearchedFrom(m, c)
  OBVIOUS
<1>3. /\ Reached(m, l, PartsTo(m, k)) /\ p \in 1 .. l /\ (l = p \/ IsLF(m[l - 1]))
      /\ \A j \in 1 .. n : IsCode(m[j]) => (j <= k <=> j < l)
      /\ l <= n => Fresh(m, l) /\ Marked(m, l)
  BY <1>1, <1>2 DEF Ahead
<1>4. l \in 1 .. c /\ l \in 1 .. n
  BY <1>1, <1>3
<1>5. Fresh(m, l) /\ Marked(m, l)
  BY <1>3, <1>4
<1>6. \A i \in l .. c - 1 : ~IsCode(m[i])
  BY <1>1, <1>3, <1>4
<1>7. \A i \in l .. c - 1 : ~IsLF(m[i])
  <2>1. PICK j \in l .. n : IsCode(m[j]) /\ \A i \in l .. j - 1 : ~IsLF(m[i])
    BY <1>4, <1>5, MarkedFrom
  <2>2. j >= c
    BY <1>6, <2>1
  <2>3. QED
    BY <1>1, <1>4, <2>1, <2>2
<1>8. \A i \in l .. c - 1 : ~IsLineEnd(m[i])
  <2>1. c \in l .. n
    BY <1>4
  <2>2. QED
    BY <1>1, <1>4, <1>7, <2>1, NoneBeforeCode
<1>9. PICK e, g : e = TextEnd(m, c) /\ g = EolEnd(m, e)
  OBVIOUS
<1>10. PICK start \in p .. c : FoundAs(m, p, c, e, g, start)
  BY <1>1, <1>2, <1>9, FoundOf
<1>11. start = l
  <2>1. StartsAt(m, p, c, start)
    BY <1>10 DEF FoundAs
  <2>2. QED
    BY <1>3, <1>4, <1>7, <2>1, StartsWhereAhead
<1>12. FoundAs(m, p, c, e, g, l)
  BY <1>10, <1>11
<1>13. PICK P \in Seq(PurePart) : P = PartsTo(m, k) /\ P = PartsTo(m, c - 1)
  <2>1. k \in 0 .. n
    OBVIOUS
  <2>2. QED
    BY <1>1, <2>1, PartsToOf
<1>14. PICK Q \in Seq(PurePart) : Q = Prefaced(P, m, l, c) /\ Reached(m, c, Q)
  <2>1. Preamble(m, l, c) \in PurePart
    BY <1>12 DEF FoundAs
  <2>2. Reached(m, l, P)
    BY <1>3, <1>13
  <2>3. \A i \in l .. c - 1 : ~IsLineEnd(m[i]) /\ ~IsCode(m[i])
    BY <1>6, <1>8
  <2>4. QED
    BY <1>4, <1>5, <2>1, <2>2, <2>3, PreambleReached
<1>15. /\ e \in c + 1 .. n + 1 /\ g \in e .. n + 1
       /\ Reached(m, g, Append(Q, CodePart(m, c, e, g)))
  <2>1. CodePart(m, c, e, g) \in PurePart
    BY <1>12 DEF FoundAs
  <2>2. QED
    BY <1>1, <1>9, <1>14, <2>1, CodeReached
<1>16. PartsTo(m, c) = Append(Q, CodePart(m, c, e, g))
  <2>1. PartsTo(m, c) =
          Append(Prefaced(PartsTo(m, c - 1), m, l, c), CodePart(m, c, e, g))
    BY <1>1, <1>12, NextParts
  <2>2. QED
    BY <1>13, <1>14, <2>1
<1>17. Reached(m, g, PartsTo(m, c))
  BY <1>15, <1>16
<1>18. PICK q : q = SearchedFrom(m, c + 1)
  OBVIOUS
<1>19. q = e /\ \A j \in 1 .. n : IsCode(m[j]) => (j <= c <=> j < q)
  <2>1. /\ m \in Text /\ n \in Nat /\ n = Len(m) /\ c \in 1 .. n
        /\ IsCode(m[c]) /\ q = SearchedFrom(m, c + 1)
    BY <1>1, <1>18
  <2>2. q = TextEnd(m, c) /\ \A j \in 1 .. n : IsCode(m[j]) => (j <= c <=> j < q)
    BY <2>1, SearchedAfter, ZenonT(30)
  <2>3. QED
    BY <1>9, <2>2
<1>20. ASSUME NEW j \in 1 .. n, IsCode(m[j]) PROVE j <= c <=> j < g
  <2>1. j \notin e .. g - 1
    <3>1. \A i \in e .. g - 1 : IsLineEnd(m[i])
      <4>1. e \in 1 .. n + 1
        BY <1>15
      <4>2. QED
        BY <1>9, <4>1, EolEndOf
    <3>2. QED
      BY <1>20, <3>1, Kinds
  <2>2. j <= c <=> j < e
    BY <1>19, <1>20
  <2>3. QED
    BY <1>15, <2>1, <2>2
<1>21. (g = e \/ IsLF(m[g - 1])) /\ (g <= n => Fresh(m, g) /\ Marked(m, g))
  BY <1>9, FreshLine
<1>22. g \in 1 .. n + 1 /\ e \in 1 .. g
  BY <1>15
<1>23. Ahead(m, c, g)
  BY <1>17, <1>18, <1>19, <1>20, <1>21, <1>22 DEF Ahead
<1>24. QED
  BY <1>1, <1>22, <1>23

(* A text without codes is painted as a whole.                              *)
LEMMA PlainColour ==
  ASSUME NEW m \in Text, NEW n \in Nat, n = Len(m), \A i \in 1 .. n : IsChar(m[i]),
         NEW i \in 1 .. n
  PROVE  ColourAt(m, i) = ConvertCode(DefaultCode)
<1>1. PICK s : s = LineStart(m, i)
  OBVIOUS
<1>2. s \in 1 .. i
  BY <1>1, LineStartOf
<1>3. PICK C : C = {s} \cup {j \in s .. i : IsCode(m[j])}
  OBVIOUS
<1>4. C \subseteq 0 .. n /\ C \subseteq 1 .. n /\ C # {}
  BY <1>2, <1>3
<1>5. PICK x \in 1 .. n : x = Mark(m, i)
  <2>1. Max(C) \in C
    BY <1>4, MaxOf
  <2>2. QED
    BY <1>1, <1>3, <1>4, <2>1 DEF Mark
<1>6. m[x] \in Token /\ IsChar(m[x])
  BY DEF Text
<1>7. ~IsCode(m[x])
  BY <1>6, Kinds
<1>8. QED
  BY <1>5, <1>7 DEF ColourAt

LEMMA PlainReached ==
  ASSUME NEW m \in Text, NEW n \in Nat, n = Len(m), \A i \in 1 .. n : IsChar(m[i])
  PROVE  Follows(m, n + 1, ConvertString(m, TRUE))
<1>1. \A i \in 1 .. n : ~IsCode(m[i])
  BY Kinds DEF Text
<1>2. PICK x \in PurePart : x = Part(DefaultCode, m, <<>>) /\ Parts(m) = <<x>>
  BY <1>1, PartsPure
<1>3. x.code = DefaultCode /\ x.text = m /\ x.eol = <<>>
  BY <1>2 DEF Part
<1>4. PICK h \in Seq(Glyph) : h = Rendered(<<>>, TRUE) /\ Follows(m, 1, h)
  <2>1. Rendered(<<>>, TRUE) = <<>>
    BY RenderedNone
  <2>2. <<>> \in Seq(Glyph)
    OBVIOUS
  <2>3. Rendered(<<>>, TRUE) \in Seq(Glyph)
    BY <2>1, <2>2, Zenon
  <2>4. QED
    BY <2>3, NoneReached DEF Reached
<1>5. PICK c \in Glyph : c = ConvertCode(DefaultCode) /\ ~IsChar(c)
  BY Kinds
<1>6. PICK a, b : a = 1 /\ b = n + 1 /\ b - 1 = n
  OBVIOUS
<1>7. \A i \in a .. b - 1 : IsChar(m[i]) /\ Fits(m, i, c)
  BY <1>5, <1>6, PlainColour DEF Fits
<1>8. a \in 1 .. Len(m) + 1 /\ b \in a .. Len(m) + 1 /\ Follows(m, a, h)
  <2>1. a \in 1 .. n + 1 /\ b \in a .. n + 1
    BY <1>6
  <2>2. QED
    BY <1>4, <1>6, <2>1
<1>9. PICK g \in Seq(Glyph) : /\ g = InkAfter(h, c, SubSeq(m, a, b - 1), Reset)
                              /\ Follows(m, b, g)
  BY <1>4, <1>5, <1>7, <1>8, PaintRun
<1>10. SubSeq(m, a, b - 1) = x.text
  BY <1>3, <1>6 DEF Text
<1>11. ShownAs(Append(<<>>, x), g, x.eol)
  <2>1. <<>> \in Seq(PurePart) /\ ~AsLast(<<>>, x)
    BY DEF AsLast
  <2>2. g = InkAfter(Rendered(<<>>, TRUE), ConvertCode(x.code), x.text, Reset)
    BY <1>3, <1>4, <1>5, <1>9, <1>10
  <2>3. QED
    BY <2>1, <2>2, DrawnPainted
<1>12. Append(<<>>, x) = <<x>>
  OBVIOUS
<1>13. Rendered(<<x>>, TRUE) = g
  <2>1. g \o <<>> = g
    BY <1>9
  <2>2. QED
    BY <1>3, <1>11, <1>12, <2>1 DEF ShownAs
<1>14. ConvertString(m, TRUE) = g
  BY <1>2, <1>13, ConvertedIs
<1>15. QED
  BY <1>6, <1>9, <1>14

(* In the end, all of the text has been shown.                              *)
LEMMA AllReached ==
  ASSUME NEW m \in Text, NEW n \in Nat, n = Len(m), LinesMarked(m)
  PROVE  Follows(m, n + 1, ConvertString(m, TRUE))
<1>1. PICK T : T = {k \in 0 .. n : \E l \in 1 .. n + 1 : Ahead(m, k, l)}
  OBVIOUS
<1>2. 0 \in T
  BY <1>1, AheadNone
<1>3. ASSUME NEW k \in 0 .. n - 1, k \in T PROVE k + 1 \in T
  <2>1. PICK l \in 1 .. n + 1 : Ahead(m, k, l)
    BY <1>1, <1>3
  <2>2. \E g \in 1 .. n + 1 : Ahead(m, k + 1, g)
    BY <2>1, AheadSame, AheadCode
  <2>3. QED
    BY <1>1, <2>2
<1>4. n \in T
  BY <1>2, <1>3, Upward
<1>5. PICK l \in 1 .. n + 1 : Ahead(m, n, l)
  BY <1>1, <1>4
<1>6. l = n + 1
  <2>1. SUFFICES ASSUME l <= n PROVE FALSE
    BY <1>5
  <2>2. l \in 1 .. n /\ Fresh(m, l) /\ Marked(m, l)
    BY <1>5, <2>1 DEF Ahead
  <2>3. PICK j \in l .. n : IsCode(m[j])
    BY <2>2, MarkedFrom
  <2>4. j \in 1 .. n /\ j < l
    BY <1>5, <2>2, <2>3 DEF Ahead
  <2>5. QED
    BY <2>3, <2>4
<1>7. Follows(m, n + 1, Rendered(PartsTo(m, n), TRUE))
  BY <1>5, <1>6 DEF Ahead, Reached
<1>8. CASE \E i \in 1 .. n : IsCode(m[i])
  BY <1>7, <1>8, PartsToOf, ConvertedIs
<1>9. CASE \A i \in 1 .. n : ~IsCode(m[i])
  <2>1. \A i \in 1 .. n : IsChar(m[i])
    BY <1>9, Kinds DEF Text
  <2>2. QED
    BY <2>1, PlainReached
<1>10. QED
  BY <1>8, <1>9

LEMMA WellFollowed ==
  ASSUME NEW m \in Text, WellMarked(m), NEW h, h = ConvertString(m, TRUE)
  PROVE  CharsOf(h) = CharsOf(m) /\ Matched(m, h, Positions(m), Positions(h))
<1>1. PICK n \in Nat : n = Len(m) /\ DOMAIN m = 1 .. n
  BY DEF Text
<1>2. Follows(m, n + 1, h)
  <2>1. CASE \A i \in DOMAIN m : IsChar(m[i])
    BY <1>1, <2>1, PlainReached
  <2>2. CASE LinesMarked(m)
    BY <1>1, <2>2, AllReached
  <2>3. (\A i \in DOMAIN m : IsChar(m[i])) \/ LinesMarked(m)
    BY DEF WellMarked, LinesMarked
  <2>4. QED
    BY <2>1, <2>2, <2>3
<1>3. PICK a : a = n + 1 /\ a - 1 = n
  OBVIOUS
<1>4. SubSeq(m, 1, a - 1) = m
  BY <1>1, <1>3 DEF Text
<1>5. QED
  BY <1>2, <1>3, <1>4 DEF Follows

LEMMA KeptText ==
  ASSUME NEW m \in Text, NEW h, h = ConvertString(m, TRUE)
  PROVE  /\ WellMarked(m) => CharsOf(h) = CharsOf(m)
         /\ CharsOf(h) = ConvertString(m, FALSE)
         /\ Count(h, "x") <= Count(m, "x")
<1>1. WellMarked(m) => CharsOf(h) = CharsOf(m)
  BY WellFollowed
<1>2. CharsOf(h) = ConvertString(m, FALSE)
  <2>1. PICK P \in Seq(PurePart) : P = Parts(m)
    BY PartsPure DEF Text
  <2>2. h = Rendered(P, TRUE) /\ ConvertString(m, FALSE) = Rendered(P, FALSE)
    BY <2>1, ConvertedIs
  <2>3. QED
    BY <2>1, <2>2, SameChars
<1>3. Count(h, "x") <= Count(m, "x")
  <2>1. ~IsLineEnd(Char("x"))
    <3>1. Char("x").char = "x" /\ Char("LF").char = "LF" /\ Char("CR").char = "CR"
      BY DEF Char
    <3>2. QED
      BY <3>1 DEF IsLineEnd
  <2>2. QED
    BY <2>1, SentAtMost
<1>4. QED
  BY <1>1, <1>2, <1>3

(* No text is sent as nothing.                                              *)
LEMMA SomePart ==
  ASSUME NEW m \in Text
  PROVE  Parts(m) # <<>>
<1>1. PICK n \in Nat : n = Len(m)
  BY DEF Text
<1>2. CASE \A i \in 1 .. n : ~IsCode(m[i])
  <2>1. PICK x : x = Part(DefaultCode, m, <<>>)
    OBVIOUS
  <2>2. Parts(m) = <<x>>
    BY <1>1, <1>2, <2>1, PartsPure
  <2>3. <<x>> # <<>>
    OBVIOUS
  <2>4. QED
    BY <2>2, <2>3, Zenon
<1>3. CASE \E i \in 1 .. n : IsCode(m[i])
  <2>1. PICK c \in 1 .. n : IsCode(m[c])
    BY <1>3
  <2>2. PICK q : q = [i \in 1 .. n |-> Found(m, i)]
    OBVIOUS
  <2>3. Parts(m) = FlattenSeq(q)
    BY <1>1, <1>3, <2>2, PartsToOf DEF PartsTo
  <2>4. q \in [1 .. n -> Seq(PurePart)] /\ c \in DOMAIN q /\ q[c] = Found(m, c)
    BY <1>1, <2>1, <2>2, FoundPure
  <2>5. q \in Seq(Seq(PurePart))
    BY <2>4
  <2>6. q[c] # <<>>
    <3>1. PICK p, e : p = SearchedFrom(m, c) /\ e = TextEnd(m, c)
      OBVIOUS
    <3>2. PICK g : g = EolEnd(m, e)
      OBVIOUS
    <3>3. PICK start \in p .. c : FoundAs(m, p, c, e, g, start)
      BY <1>1, <2>1, <3>1, <3>2, FoundOf
    <3>4. PICK x \in PurePart, y \in PurePart :
            x = Preamble(m, start, c) /\ y = CodePart(m, c, e, g)
      BY <3>3 DEF FoundAs
    <3>5. Found(m, c) = (IF start = c THEN <<>> ELSE Append(<<>>, x)) \o <<y>>
      BY <3>3, <3>4 DEF FoundAs, Prefaced
    <3>6. QED
      BY <2>4, <3>4, <3>5
  <2>7. QED
    BY <2>3, <2>4, <2>5, <2>6, FlattenOf
<1>4. QED
  BY <1>2, <1>3

LEMMA SomeSent ==
  ASSUME NEW p \in Seq(PurePart), p # <<>>
  PROVE  Rendered(p, TRUE) # <<>>
<1>1. PICK T : T = {q \in Seq(PurePart) : q # <<>> => Rendered(q, TRUE) # <<>>}
  OBVIOUS
<1>2. <<>> \in T
  BY <1>1
<1>3. ASSUME NEW q \in Seq(PurePart), NEW x \in PurePart, q \in T
      PROVE  Append(q, x) \in T
  <2>1. /\ Rendered(q, TRUE) \in Seq(Glyph)
        /\ Rendered(Append(q, x), TRUE) = Rendered(q, TRUE) \o Drawn(q, TRUE, x)
    BY RenderedAppend
  <2>2. PICK h \in Seq(Glyph), d \in Seq(Glyph) : h = Rendered(q, TRUE) /\ d = Drawn(q, TRUE, x)
    BY <2>1, DrawnOf
  <2>3. PICK r \in Seq(Glyph) : r = h \o d /\ Len(r) = Len(h) + Len(d)
    <3>1. h \o d \in Seq(Glyph) /\ Len(h \o d) = Len(h) + Len(d)
      OBVIOUS
    <3>2. QED
      BY <3>1
  <2>4. Rendered(Append(q, x), TRUE) = r
    BY <2>1, <2>2, <2>3
  <2>5. Len(h) # 0 \/ Len(d) # 0
    <3>1. CASE q # <<>>
      <4>1. h # <<>>
        BY <1>1, <1>3, <2>2, <3>1
      <4>2. QED
        BY <4>1
    <3>2. CASE q = <<>>
      <4>1. PICK c \in Glyph, t \in Seq(Glyph), v \in Seq(Glyph) :
              c = ConvertCode(x.code) /\ t = x.text /\ v = x.eol
        BY PartOf, Kinds
      <4>2. d = (<<c>> \o t \o <<Reset>>) \o v
        BY <2>2, <3>2, <4>1 DEF Drawn, AsLast, Painted
      <4>3. PICK z \in Glyph : z = Reset
        BY Kinds
      <4>4. Len((<<c>> \o t \o <<z>>) \o v) = 1 + Len(t) + 1 + Len(v)
        OBVIOUS
      <4>5. Len(t) \in Nat /\ Len(v) \in Nat
        OBVIOUS
      <4>6. QED
        BY <4>2, <4>3, <4>4, <4>5
    <3>3. QED
      BY <3>1, <3>2
  <2>6. r # <<>>
    <3>1. Len(h) \in Nat /\ Len(d) \in Nat
      OBVIOUS
    <3>2. Len(r) # 0
      BY <2>3, <2>5, <3>1
    <3>3. QED
      BY <3>2
  <2>7. Append(q, x) \in Seq(PurePart)
    OBVIOUS
  <2>8. QED
    BY <1>1, <2>4, <2>6, <2>7, Zenon
<1>4. p \in T
  BY <1>2, <1>3, SeqUpward
<1>5. QED
  BY <1>1, <1>4

LEMMA ConvertStringOf ==
  ASSUME NEW m \in Text
  PROVE  ConvertString(m, TRUE) \in Seq(Glyph) \ {<<>>}
<1>1. PICK p \in Seq(PurePart) : p = Parts(m)
  BY PartsPure DEF Text
<1>2. p # <<>>
  BY <1>1, SomePart
<1>3. Rendered(p, TRUE) # <<>>
  BY <1>2, SomeSent
<1>4. p[1] \in PurePart
  BY <1>2
<1>5. Rendered(p, TRUE) \in Seq(Glyph)
  BY <1>4, RenderedAppend
<1>6. QED
  BY <1>1, <1>3, <1>5, ConvertedIs

-----------------------------------------------------------------------------
(* The Tx task and its queues.                                              *)

(* Every message counts once, what the task holds is not empty, and an      *)
(* empty message in the queue is the marker of a disconnect.                *)
Carried ==
  /\ tx = "send" => held # <<>>
  /\ \A i \in DOMAIN txq : txq[i] = <<>> => disc = "done"
  /\ done + Len(bus) + (IF tx = "send" THEN 1 ELSE 0) <= said

TxInv == TypeOK /\ Carried /\ TextNeverCloses

LEMMA ConvertedOf ==
  ASSUME NEW t \in Texts(0 .. MaxTokens) PROVE Converted[t] \in Seq(Glyph) \ {<<>>}
<1>1. t \in Text
  BY DEF Texts, Text
<1>2. Converted = [text \in Texts(0 .. MaxTokens) |-> ConvertString(text, TRUE)]
  BY DEF Converted, Table
<1>3. Converted[t] = ConvertString(t, TRUE)
  BY <1>2
<1>4. QED
  BY <1>1, <1>3, ConvertStringOf

LEMMA ShortTexts ==
  /\ <<>> \in Texts(0 .. MaxTokens) /\ X \in Texts(0 .. MaxTokens)
  /\ <<Char("CR"), Char("LF")>> \in Texts(0 .. MaxTokens)
  /\ Texts(0 .. 1) \subseteq Texts(0 .. MaxTokens)
<1>1. 0 \in 0 .. MaxTokens /\ 1 \in 0 .. MaxTokens /\ 2 \in 0 .. MaxTokens
  BY BoundAssumption
<1>2. Char("x") \in Token /\ Char("CR") \in Token /\ Char("LF") \in Token
  BY DEF Token
<1>3. <<>> \in [1 .. 0 -> Token]
  OBVIOUS
<1>4. X \in [1 .. 1 -> Token]
  BY <1>2 DEF X
<1>5. <<Char("CR"), Char("LF")>> \in [1 .. 2 -> Token]
  BY <1>2
<1>6. 0 .. 1 \subseteq 0 .. MaxTokens
  BY <1>1
<1>7. QED
  BY <1>1, <1>3, <1>4, <1>5, <1>6, Zenon DEF Texts

LEMMA SaidOf ==
  /\ UserMessages \subseteq Said
  /\ \A m \in Said : /\ m.string \in Texts(0 .. MaxTokens)
                     /\ m.bytes # <<>> => m.bytes = X
<1>1. \A t \in Texts({n \in 0 .. MaxTokens : n <= Budget}) : t \in Texts(0 .. MaxTokens)
  BY DEF Texts
<1>2. UserMessages \subseteq Said
  <2>1. \A t \in Texts(0 .. MaxTokens) : Message(t, <<>>, "none") \in Said
    BY DEF Said, Message
  <2>2. Message(X, X, "none") \in Said
    BY ShortTexts DEF Said, Message
  <2>3. \A j \in {"empty", "broken", "good"} : Message(<<>>, <<>>, j) \in Said
    BY ShortTexts DEF Said, Message
  <2>4. QED
    BY <1>1, <2>1, <2>2, <2>3, Zenon DEF UserMessages
<1>3. ASSUME NEW m \in Said
      PROVE  m.string \in Texts(0 .. MaxTokens) /\ (m.bytes # <<>> => m.bytes = X)
  BY DEF Said, Message
<1>4. QED
  BY <1>2, <1>3

(* What goes into the transmit queue keeps it as it should be.              *)
LEMMA SendRawStep ==
  ASSUME TxInv, NEW data \in Seq(Glyph), SendRaw(data),
         disc' \in {"no", "line", "done"}, disc = "done" => disc' = "done",
         data = <<>> => disc' = "done"
  PROVE  /\ txq' \in Seq(Seq(Glyph)) /\ Len(txq') <= TxqCap
         /\ \A i \in DOMAIN txq' : txq'[i] = <<>> => disc' = "done"
<1>1. txq \in Seq(Seq(Glyph)) /\ Len(txq) <= TxqCap
  BY DEF TxInv, TypeOK, Carried
<1>2. \A i \in DOMAIN txq : txq[i] = <<>> => disc' = "done"
  BY DEF TxInv, Carried
<1>3. CASE txq' = txq
  BY <1>1, <1>2, <1>3
<1>4. CASE Len(txq) < TxqCap /\ txq' = Append(txq, data)
  <2>1. PICK n \in Nat : /\ n = Len(txq) /\ DOMAIN txq = 1 .. n /\ Len(txq') = n + 1
                         /\ DOMAIN txq' = 1 .. n + 1 /\ txq'[n + 1] = data
                         /\ \A i \in 1 .. n : txq'[i] = txq[i]
    BY <1>1, <1>4
  <2>2. \A i \in 1 .. n + 1 : i \in 1 .. n \/ i = n + 1
    OBVIOUS
  <2>3. txq' \in Seq(Seq(Glyph))
    BY <1>1, <1>4
  <2>4. Len(txq') <= TxqCap
    BY <1>4, <2>1, BoundAssumption
  <2>5. \A i \in DOMAIN txq' : txq'[i] = <<>> => disc' = "done"
    BY <1>2, <2>1, <2>2
  <2>6. QED
    BY <2>3, <2>4, <2>5
<1>5. QED
  BY <1>3, <1>4 DEF SendRaw

LEMMA InitTx == Init => TxInv
<1> SUFFICES ASSUME Init PROVE TxInv
  OBVIOUS
<1>1. Len(made) = 0 /\ Len(txq) = 0 /\ Len(bus) = 0 /\ DOMAIN txq = {}
  BY DEF Init
<1>2. TypeOK
  BY <1>1, BoundAssumption DEF Init, TypeOK
<1>3. bus \in Seq(Said) /\ txq \in Seq(Seq(Glyph))
  BY DEF Init
<1>4. Carried
  BY <1>1, <1>3 DEF Init, Carried
<1>5. QED
  BY <1>2, <1>4 DEF Init, TxInv, TextNeverCloses

(* What the Tx task does to the rest of the state.                          *)
LEMMA TxTaskStep == ASSUME TxInv, TxTask PROVE TxInv'
<1>1. /\ setup \in {"dns", "up"} /\ attached \in BOOLEAN /\ said \in 0 .. MaxSaid
      /\ done \in 0 .. said /\ told \in 0 .. said
      /\ disc \in {"no", "line", "done"} /\ sock \in {"open", "shut"}
      /\ bus \in Seq(Said) /\ txq \in Seq(Seq(Glyph)) /\ Len(txq) <= TxqCap
      /\ \A i \in DOMAIN txq : txq[i] = <<>> => disc = "done"
      /\ sock = "shut" => disc = "done" \/ ~attached
  BY DEF TxInv, TypeOK, Carried, TextNeverCloses
<1>2. UNCHANGED <<setup, said, told, attached, disc, sock>>
  BY DEF TxTask, TxStart, TxLagged, TxEnd, TxBadTemplate, TxConvert, TxSend, TxNext
<1>3. TextNeverCloses'
  BY <1>1, <1>2 DEF TextNeverCloses
<1>4. ASSUME tx' \in {"run", "send", "end", "dead"}, done' \in 0 .. said,
             made' \in Seq(Texts(0 .. MaxTokens)), Len(made') <= 1,
             bus' \in Seq(Said), held' \in Seq(Glyph), tx' = "send" => held' # <<>>,
             /\ txq' \in Seq(Seq(Glyph)) /\ Len(txq') <= TxqCap
             /\ \A i \in DOMAIN txq' : txq'[i] = <<>> => disc = "done",
             done' + Len(bus') + (IF tx' = "send" THEN 1 ELSE 0) <= said
      PROVE  TxInv'
  <2>1. TypeOK'
    BY <1>1, <1>2, <1>4 DEF TypeOK
  <2>2. Carried'
    BY <1>2, <1>4 DEF Carried
  <2>3. QED
    BY <1>3, <2>1, <2>2 DEF TxInv
<1>5. /\ done + Len(bus) + (IF tx = "send" THEN 1 ELSE 0) <= said
      /\ made \in Seq(Texts(0 .. MaxTokens)) /\ Len(made) <= 1 /\ held \in Seq(Glyph)
  BY DEF TxInv, TypeOK, Carried
<1>6. <<>> \in Seq(Said) /\ Len(<<>>) = 0
  OBVIOUS
<1>7. PICK b \in Nat : b = Len(bus)
  BY <1>1
<1>8. CASE TxStart
  <2>1. tx' = "run" /\ bus' = <<>> /\ done' = said /\ UNCHANGED <<held, made>> /\ txq' = txq
    BY <1>8 DEF TxStart
  <2>2. Len(bus') = 0 /\ bus' \in Seq(Said)
    BY <1>6, <2>1
  <2>3. QED
    BY <1>1, <1>4, <1>5, <2>1, <2>2
<1>9. CASE TxLagged
  <2>1. tx' = "dead" /\ bus' = <<>> /\ done' = done /\ UNCHANGED <<held, made>> /\ txq' = txq
    BY <1>9 DEF TxLagged
  <2>2. Len(bus') = 0 /\ bus' \in Seq(Said)
    BY <1>6, <2>1
  <2>3. QED
    BY <1>1, <1>4, <1>5, <2>1, <2>2
<1>10. ASSUME TxNext
       PROVE  /\ bus' \in Seq(Said) /\ Len(bus') = b - 1 /\ tx = "run"
              /\ Head(bus) \in Said
              /\ UNCHANGED <<done, txq>>
  <2>1. bus # <<>> /\ bus' = Tail(bus) /\ tx = "run" /\ UNCHANGED <<done, txq>>
    BY <1>1, <1>10 DEF TxNext
  <2>2. QED
    BY <1>1, <1>7, <2>1
<1>11. CASE TxEnd
  <2>1. tx' = "end" /\ UNCHANGED <<held, made>> /\ TxNext
    BY <1>11 DEF TxEnd
  <2>2. QED
    BY <1>1, <1>4, <1>5, <1>7, <1>10, <2>1
<1>12. CASE TxBadTemplate
  <2>1. tx' = "dead" /\ UNCHANGED <<held, made>> /\ TxNext
    BY <1>12 DEF TxBadTemplate
  <2>2. QED
    BY <1>1, <1>4, <1>5, <1>7, <1>10, <2>1
<1>13. CASE TxConvert
  <2>1. tx' = "send" /\ TxNext
    BY <1>13 DEF TxConvert
  <2>2. PICK m \in Said : m = Head(bus)
    BY <1>10, <2>1
  <2>3. ASSUME NEW t \in Texts(0 .. MaxTokens), TxMake(t)
        PROVE  /\ held' \in Seq(Glyph) \ {<<>>}
               /\ made' \in Seq(Texts(0 .. MaxTokens)) /\ Len(made') <= 1
    <3>1. held' = Converted[t] /\ made' = <<t>>
      BY <2>3 DEF TxMake
    <3>2. made' \in Seq(Texts(0 .. MaxTokens)) /\ Len(made') = 1
      BY <3>1
    <3>3. QED
      BY <3>1, <3>2, ConvertedOf
  <2>4. /\ held' \in Seq(Glyph) \ {<<>>}
        /\ made' \in Seq(Texts(0 .. MaxTokens)) /\ Len(made') <= 1
    <3>1. CASE m.jinja # "none"
      <4>1. PICK t \in JinjaProcess(m.jinja) : TxMake(t)
        BY <1>13, <2>2, <3>1 DEF TxConvert
      <4>2. t \in Texts(0 .. MaxTokens)
        BY ShortTexts DEF JinjaProcess
      <4>3. QED
        BY <2>3, <4>1, <4>2
    <3>2. CASE m.jinja = "none" /\ m.bytes # <<>>
      <4>1. held' = X /\ made' = <<>>
        BY <1>13, <2>2, <3>2, SaidOf DEF TxConvert
      <4>2. X \in Seq(Glyph) \ {<<>>}
        BY DEF X, Glyph, Token
      <4>3. made' \in Seq(Texts(0 .. MaxTokens)) /\ Len(made') = 0
        BY <4>1
      <4>4. QED
        BY <4>1, <4>2, <4>3
    <3>3. CASE m.jinja = "none" /\ m.bytes = <<>>
      <4>1. TxMake(m.string)
        BY <1>13, <2>2, <3>3 DEF TxConvert
      <4>2. QED
        BY <2>3, <4>1, SaidOf
    <3>4. QED
      BY <3>1, <3>2, <3>3
  <2>5. QED
    BY <1>1, <1>4, <1>5, <1>7, <1>10, <2>1, <2>4
<1>14. CASE TxSend
  <2>1. /\ tx = "send" /\ SendRaw(held) /\ tx' = "run"
        /\ done' = IF attached THEN done + 1 ELSE done
        /\ held' = <<>> /\ made' = <<>> /\ bus' = bus
    BY <1>14 DEF TxSend
  <2>2. held \in Seq(Glyph) /\ held # <<>>
    BY <2>1 DEF TxInv, TypeOK, Carried
  <2>3. /\ txq' \in Seq(Seq(Glyph)) /\ Len(txq') <= TxqCap
        /\ \A i \in DOMAIN txq' : txq'[i] = <<>> => disc' = "done"
    BY <1>1, <1>2, <2>1, <2>2, SendRawStep
  <2>4. /\ made' \in Seq(Texts(0 .. MaxTokens)) /\ Len(made') = 0
        /\ held' \in Seq(Glyph)
    BY <2>1
  <2>5. QED
    BY <1>1, <1>2, <1>4, <1>5, <1>7, <2>1, <2>3, <2>4
<1>15. QED
  BY <1>8, <1>9, <1>11, <1>12, <1>13, <1>14 DEF TxTask

(* The steps of the others leave the task alone.                            *)
LEMMA OthersStep ==
  ASSUME TxInv, UNCHANGED <<told, tx, done, held, made>>,
         setup' \in {"dns", "up"}, attached' \in BOOLEAN, sock' \in {"open", "shut"},
         said' = said, bus' = bus,
         disc' \in {"no", "line", "done"},
         /\ txq' \in Seq(Seq(Glyph)) /\ Len(txq') <= TxqCap
         /\ \A i \in DOMAIN txq' : txq'[i] = <<>> => disc' = "done",
         sock' = "shut" => disc' = "done" \/ ~attached'
  PROVE  TxInv'
<1>1. TypeOK'
  BY DEF TxInv, TypeOK
<1>2. Carried'
  BY DEF TxInv, Carried
<1>3. QED
  BY <1>1, <1>2 DEF TxInv, TextNeverCloses

LEMMA DisconnectStep == ASSUME TxInv, Disconnect PROVE TxInv'
<1>1. /\ setup \in {"dns", "up"} /\ attached \in BOOLEAN /\ sock \in {"open", "shut"}
      /\ disc \in {"no", "line", "done"}
      /\ sock = "shut" => disc = "done" \/ ~attached
  BY DEF TxInv, TypeOK, TextNeverCloses
<1>2. UNCHANGED <<setup, said, told, bus, tx, done, held, made, attached, sock>>
  BY DEF Disconnect, DiscLine, DiscMarker
<1>3. PICK data \in Seq(Glyph) : /\ SendRaw(data) /\ (data = <<>> => disc' = "done")
                                 /\ disc' \in {"line", "done"} /\ disc # "done"
  <2>1. CASE DiscLine
    <3>1. Converted[<<Char("CR"), Char("LF")>>] \in Seq(Glyph) \ {<<>>}
      BY ShortTexts, ConvertedOf
    <3>2. QED
      BY <2>1, <3>1 DEF DiscLine
  <2>2. CASE DiscMarker
    <3>1. <<>> \in Seq(Glyph)
      OBVIOUS
    <3>2. QED
      BY <2>2, <3>1 DEF DiscMarker
  <2>3. QED
    BY <2>1, <2>2 DEF Disconnect
<1>4. /\ txq' \in Seq(Seq(Glyph)) /\ Len(txq') <= TxqCap
      /\ \A i \in DOMAIN txq' : txq'[i] = <<>> => disc' = "done"
  BY <1>3, SendRawStep
<1>5. QED
  BY <1>1, <1>2, <1>3, <1>4, OthersStep

LEMMA ServerStep == ASSUME TxInv, ServerSend \/ ServerDrop \/ SetupDone PROVE TxInv'
<1>1. /\ setup \in {"dns", "up"} /\ attached \in BOOLEAN /\ sock \in {"open", "shut"}
      /\ disc \in {"no", "line", "done"}
      /\ txq \in Seq(Seq(Glyph)) /\ Len(txq) <= TxqCap
      /\ \A i \in DOMAIN txq : txq[i] = <<>> => disc = "done"
      /\ sock = "shut" => disc = "done" \/ ~attached
  BY DEF TxInv, TypeOK, Carried, TextNeverCloses
<1>2. UNCHANGED <<said, told, bus, tx, done, held, made, disc>>
  BY DEF ServerSend, ServerDrop, SetupDone
<1>3. CASE ServerSend
  <2>1. /\ attached' = attached /\ setup' = setup /\ txq # <<>> /\ txq' = Tail(txq)
        /\ sock' = IF Head(txq) = <<>> THEN "shut" ELSE sock
    BY <1>3 DEF ServerSend
  <2>2. PICK n \in Nat : n + 1 = Len(txq) /\ DOMAIN txq = 1 .. n + 1
    <3>1. Len(txq) \in Nat \ {0} /\ DOMAIN txq = 1 .. Len(txq)
      BY <1>1, <2>1
    <3>2. Len(txq) - 1 \in Nat /\ (Len(txq) - 1) + 1 = Len(txq)
      BY <3>1
    <3>3. QED
      BY <3>1, <3>2
  <2>3. /\ txq' \in Seq(Seq(Glyph)) /\ Len(txq') = n /\ DOMAIN txq' = 1 .. n
        /\ \A i \in 1 .. n : txq'[i] = txq[i + 1] /\ i + 1 \in 1 .. n + 1
    BY <1>1, <2>1, <2>2
  <2>4. Len(txq') <= TxqCap
    BY <1>1, <2>2, <2>3, BoundAssumption
  <2>5. \A i \in DOMAIN txq' : txq'[i] = <<>> => disc' = "done"
    BY <1>1, <1>2, <2>2, <2>3
  <2>6. Head(txq) = <<>> => disc' = "done"
    <3>1. 1 \in DOMAIN txq /\ Head(txq) = txq[1]
      BY <1>1, <2>1, <2>2
    <3>2. QED
      BY <1>1, <1>2, <3>1
  <2>7. sock' = "shut" => disc' = "done" \/ ~attached'
    BY <1>1, <1>2, <2>1, <2>6
  <2>8. sock' \in {"open", "shut"}
    BY <1>1, <2>1
  <2>9. QED
    BY <1>1, <1>2, <2>1, <2>3, <2>4, <2>5, <2>7, <2>8, OthersStep
<1>4. CASE ServerDrop
  <2>1. attached' = FALSE /\ txq' = <<>> /\ sock' = "shut" /\ setup' = setup
    BY <1>4 DEF ServerDrop
  <2>2. txq' \in Seq(Seq(Glyph)) /\ Len(txq') = 0 /\ DOMAIN txq' = {}
    BY <2>1
  <2>3. Len(txq') <= TxqCap
    BY <2>2, BoundAssumption
  <2>4. QED
    BY <1>1, <1>2, <2>1, <2>2, <2>3, OthersStep
<1>5. CASE SetupDone
  <2>1. setup' = "up" /\ UNCHANGED <<txq, attached, sock>>
    BY <1>5 DEF SetupDone
  <2>2. QED
    BY <1>1, <1>2, <2>1, OthersStep
<1>6. QED
  BY <1>3, <1>4, <1>5

LEMMA SayStep == ASSUME TxInv, NEW m \in UserMessages, UserSay(m) PROVE TxInv'
<1>1. /\ said < MaxSaid /\ said' = said + 1 /\ bus' = Append(bus, m)
      /\ told' = told \/ told' = said + 1
      /\ UNCHANGED <<setup, tx, done, held, made, txq, attached, disc, sock>>
  BY DEF UserSay
<1>2. /\ said \in 0 .. MaxSaid /\ done \in 0 .. said /\ told \in 0 .. said
      /\ bus \in Seq(Said) /\ m \in Said
      /\ done + Len(bus) + (IF tx = "send" THEN 1 ELSE 0) <= said
  BY SaidOf DEF TxInv, TypeOK, Carried
<1>3. said' \in 0 .. MaxSaid /\ done' \in 0 .. said' /\ told' \in 0 .. said'
  BY <1>1, <1>2, BoundAssumption
<1>4. bus' \in Seq(Said) /\ Len(bus') = Len(bus) + 1 /\ Len(bus) \in Nat
  BY <1>1, <1>2
<1>5. done' + Len(bus') + (IF tx' = "send" THEN 1 ELSE 0) <= said'
  BY <1>1, <1>2, <1>4
<1>6. TypeOK'
  BY <1>1, <1>3, <1>4 DEF TxInv, TypeOK
<1>7. Carried'
  BY <1>1, <1>4, <1>5 DEF TxInv, Carried
<1>8. QED
  BY <1>1, <1>6, <1>7 DEF TxInv, TextNeverCloses

THEOREM TxInvariant == Spec => []TxInv
<1>1. Init => TxInv
  BY InitTx
<1>2. TxInv /\ [Next]_vars => TxInv'
  <2> SUFFICES ASSUME TxInv, [Next]_vars PROVE TxInv'
    OBVIOUS
  <2>1. CASE UNCHANGED vars
    <3>1. TypeOK' /\ TextNeverCloses'
      BY <2>1 DEF vars, TxInv, TypeOK, TextNeverCloses
    <3>2. Carried'
      BY <2>1 DEF vars, TxInv, Carried
    <3>3. QED
      BY <3>1, <3>2 DEF TxInv
  <2>2. CASE \E m \in UserMessages : UserSay(m)
    BY <2>2, SayStep
  <2>3. QED
    BY <2>1, <2>2, TxTaskStep, DisconnectStep, ServerStep DEF Next
<1>3. QED
  BY <1>1, <1>2, PTL DEF Spec

(* Every variable keeps its type, and the transmit queue its bound.         *)
THEOREM TypeCorrect == Spec => []TypeOK
<1>1. TxInv => TypeOK
  BY DEF TxInv
<1>2. QED
  BY <1>1, TxInvariant, PTL

(* connection.rs:189: only a disconnect or the end of the queue closes the  *)
(* socket, whatever texts are sent, of whatever codes and length: with      *)
(* ANSI every one becomes a message that is not empty.                      *)
THEOREM SocketOutlivesText == Spec => []TextNeverCloses
<1>1. TxInv => TextNeverCloses
  BY DEF TxInv
<1>2. QED
  BY <1>1, TxInvariant, PTL

-----------------------------------------------------------------------------
(* What it has made of a text.                                              *)

(* What the Tx task holds is what it has made of a text.                    *)
Made ==
  \A i \in DOMAIN made :
    made[i] \in Texts(0 .. MaxTokens) /\ held = ConvertString(made[i], TRUE)

LEMMA MadeOf ==
  ASSUME Made, NEW i \in DOMAIN made
  PROVE  made[i] \in Text /\ held = ConvertString(made[i], TRUE)
<1>1. PICK t \in Texts(0 .. MaxTokens) : t = made[i] /\ held = ConvertString(t, TRUE)
  BY DEF Made
<1>2. t \in Text
  BY DEF Texts, Text
<1>3. QED
  BY <1>1, <1>2

LEMMA MakeStep ==
  ASSUME NEW t \in Texts(0 .. MaxTokens), TxMake(t) PROVE Made'
<1>1. Converted = [text \in Texts(0 .. MaxTokens) |-> ConvertString(text, TRUE)]
  BY DEF Converted, Table
<1>2. held' = ConvertString(t, TRUE) /\ made' = <<t>>
  BY <1>1 DEF TxMake
<1>3. \A i \in DOMAIN made' : made'[i] = t
  BY <1>2
<1>4. QED
  BY <1>2, <1>3 DEF Made

LEMMA ConvertStep == ASSUME TxInv, TxConvert PROVE Made'
<1>1. PICK m \in Said : m = Head(bus)
  <2>1. bus \in Seq(Said) /\ Len(bus) \in 1 .. BusCap
    BY DEF TxInv, TypeOK, TxConvert, TxNext
  <2>2. QED
    BY <2>1
<1>2. CASE m.jinja # "none"
  <2>1. PICK t \in JinjaProcess(m.jinja) : TxMake(t)
    BY <1>1, <1>2 DEF TxConvert
  <2>2. t \in Texts(0 .. MaxTokens)
    BY ShortTexts DEF JinjaProcess
  <2>3. QED
    BY <2>1, <2>2, MakeStep
<1>3. CASE m.jinja = "none" /\ m.bytes # <<>>
  <2>1. DOMAIN made' = {}
    BY <1>1, <1>3 DEF TxConvert
  <2>2. QED
    BY <2>1 DEF Made
<1>4. CASE m.jinja = "none" /\ m.bytes = <<>>
  <2>1. TxMake(m.string)
    BY <1>1, <1>4 DEF TxConvert
  <2>2. QED
    BY <2>1, SaidOf, MakeStep
<1>5. QED
  BY <1>2, <1>3, <1>4

LEMMA MadeStep == ASSUME TxInv, Made, [Next]_vars PROVE Made'
<1>1. CASE UNCHANGED <<held, made>>
  BY <1>1 DEF Made
<1>2. CASE TxConvert
  BY <1>2, ConvertStep
<1>3. CASE TxSend
  <2>1. DOMAIN made' = {}
    BY <1>3 DEF TxSend
  <2>2. QED
    BY <2>1 DEF Made
<1>4. TxTask => UNCHANGED <<held, made>> \/ TxConvert \/ TxSend
  BY DEF TxTask, TxStart, TxLagged, TxEnd, TxBadTemplate
<1>5. Disconnect \/ ServerSend \/ ServerDrop \/ SetupDone => UNCHANGED <<held, made>>
  BY DEF Disconnect, DiscLine, DiscMarker, ServerSend, ServerDrop, SetupDone
<1>6. (\E m \in UserMessages : UserSay(m)) => UNCHANGED <<held, made>>
  BY DEF UserSay
<1>7. UNCHANGED vars => UNCHANGED <<held, made>>
  BY DEF vars
<1>8. QED
  BY <1>1, <1>2, <1>3, <1>4, <1>5, <1>6, <1>7 DEF Next

THEOREM MadeInvariant == Spec => []Made
<1>1. Init => Made
  BY DEF Init, Made
<1>2. TxInv /\ Made /\ [Next]_vars => Made'
  BY MadeStep
<1>3. QED
  BY <1>1, <1>2, TxInvariant, PTL DEF Spec

(* ansicolors.rs:152, 212: however long a text is and whatever codes it     *)
(* has, a client with ANSI sees just what one without it gets; no letter    *)
(* of it is shown twice, and of a well-marked text every character is.      *)
THEOREM TextArrives == Spec => []TextKept
<1>1. ASSUME Made PROVE TextKept
  <2>1. ASSUME NEW i \in DOMAIN made
        PROVE  /\ WellMarked(made[i]) => CharsOf(held) = CharsOf(made[i])
               /\ CharsOf(held) = ConvertString(made[i], FALSE)
               /\ Count(held, "x") <= Count(made[i], "x")
    <3>1. PICK m \in Text : m = made[i] /\ held = ConvertString(m, TRUE)
      BY <1>1, <2>1, MadeOf
    <3>2. QED
      BY <3>1, KeptText
  <2>2. QED
    BY <2>1 DEF TextKept
<1>2. QED
  BY <1>1, MadeInvariant, PTL

(* ansicolors.rs:219: no part of a well-marked text is painted in the       *)
(* colour of one before it, and it is left without its own only after a     *)
(* part of the same colour, whatever the texts and codes.                   *)
THEOREM ColourArrives == Spec => []ColourAsMarked
<1>1. ASSUME Made PROVE ColourAsMarked
  <2>1. ASSUME NEW i \in DOMAIN made, WellMarked(made[i])
        PROVE  \A k \in DOMAIN Positions(made[i]) :
                 Fits(made[i], Positions(made[i])[k], Rendition(held, Positions(held)[k]))
    <3>1. PICK m \in Text : m = made[i] /\ held = ConvertString(m, TRUE)
      BY <1>1, <2>1, MadeOf
    <3>2. Matched(m, held, Positions(m), Positions(held))
      BY <2>1, <3>1, WellFollowed
    <3>3. QED
      BY <3>1, <3>2 DEF Matched
  <2>2. QED
    BY <2>1 DEF ColourAsMarked, Fits
<1>2. QED
  BY <1>1, MadeInvariant, PTL
=============================================================================
