----------------------------- MODULE LineInput ------------------------------
(***************************************************************************)
(* src/connection.rs: what the Rx task of one connection makes of the      *)
(* bytes its client sends: telnet commands are taken out of each chunk, the *)
(* rest is collected, and every line found in it goes to the user channel   *)
(* without its CR LF, with backspaces applied.  Chunks are cut where the    *)
(* network pleases.  The task's queues and its end are in Server.           *)
(***************************************************************************)
EXTENDS Integers, SequencesExt

CONSTANTS
  Byte,         \* the byte values a client sends
  MaxSent,      \* length of its input (bound)
  Panicked      \* not a sequence of bytes: drain() panicked

ASSUME ByteAssumption == Byte \subseteq 0 .. 255 /\ Panicked \notin Seq(Byte)

VARIABLES
  sent,         \* all bytes received so far
  cut,          \* whether a chunk ended inside a telnet command
  rx,           \* the Rx task: "run", or "dead" after a panic
  buf,          \* incoming_buffer
  lines         \* the lines sent to the user channel

vars == <<sent, cut, rx, buf, lines>>

(* A definition named X_mutation is X with a bug one could write; the       *)
(* properties must notice it (README, "Mutants").                           *)

BS == 8
LF == 10
CR == 13
IAC == 255
IsOptionCommand(cmd) == cmd \in 251 .. 254          \* WILL, WONT, DO, DONT

Bytes == Seq(Byte)
From(s, i) == SubSeq(s, i, Len(s))
Without(s, i, k) == SubSeq(s, 1, i - 1) \o From(s, i + k)     \* drain(i..i + k)

(* What n rounds of a loop make of x, and a loop over s, one function for   *)
(* each value.  The loops of the code end by themselves; n is a number of   *)
(* rounds that is enough.                                                   *)
Rounds(step, x, n) ==
  LET after[k \in 0 .. n] == IF k = 0 THEN x ELSE step[after[k - 1]]
  IN  after[n]
Over(step, x, s) ==
  LET after[k \in 0 .. Len(s)] == IF k = 0 THEN x ELSE step[s[k]][after[k - 1]]
  IN  after[Len(s)]

-----------------------------------------------------------------------------
(* handle_telnet_commands.                                                  *)

Drained_alwaysOption(cmd) == IF cmd = IAC THEN 1 ELSE 3

(* How many bytes are drained at an IAC that cmd follows.                   *)
Drained(cmd) ==
  CASE cmd = IAC -> 1
    [] IsOptionCommand(cmd) -> 3
    [] OTHER -> 2

(* A round of the loop, which starts from the beginning every time.         *)
DrainCommand(b) ==
  LET i == SelectInSeq(b, LAMBDA x : x = IAC)
      k == Drained(b[i + 1])
  IN  CASE b = Panicked -> b
        [] b # Panicked /\ i \in {0, Len(b)} -> b   \* the last IAC stays
        [] OTHER -> IF i + k - 1 > Len(b) THEN Panicked ELSE Without(b, i, k)

HandleTelnetCommands(data) ==
  Rounds([b \in Bytes \cup {Panicked} |-> DrainCommand(b)], data, Len(data))

-----------------------------------------------------------------------------
(* read_line.                                                               *)

(* The CRs that iter.position() finds.  If no LF follows, iter.next() skips  *)
(* the byte after a CR, so of a run of CRs every other one is found.        *)
Found(s, k) ==
  /\ s[k] = CR
  /\ (k - SelectLastInSubSeq(s, 1, k, LAMBDA x : x # CR)) % 2 = 1

(* Length of the line that is split off, or 0.  The code's position of the  *)
(* CR counts from where the search resumed, after the byte it skipped last. *)
LineEnd(s) ==
  LET ends    == {k \in 1 .. Len(s) - 1 : Found(s, k) /\ s[k + 1] = LF}
      skipped == {j + 1 : j \in {j \in 1 .. Min(ends) - 1 : Found(s, j)}}
  IN  IF ends = {} THEN 0 ELSE Min(ends) - Max({0} \cup skipped) + 1

Rubout_next(line, i) == Without(line, i, 2)

(* A backspace at i takes the byte before it along.                         *)
Rubout(line, i) ==
  IF i = 1 THEN Tail(line) ELSE Without(line, i - 1, 2)

RuboutFirst(line) ==
  LET i == SelectInSeq(line, LAMBDA x : x = BS)
  IN  IF i = 0 THEN line ELSE Rubout(line, i)

ProcessBackspaces(line) == Rounds([l \in Bytes |-> RuboutFirst(l)], line, Len(line))

ReadLine(s) ==
  LET n == LineEnd(s)
  IN  [line |-> ProcessBackspaces(SubSeq(s, 1, n)), rest |-> From(s, n + 1)]

(* linebuf.pop(), twice.                                                    *)
Stripped(line) == SubSeq(line, 1, Len(line) - 2)

(* The inner loop of do_rx_process_thread: it ends at an empty line, be it  *)
(* that there is no line yet or that backspaces left nothing of it.         *)
Progress    == [lines : Seq(Bytes), rest : Bytes, more : BOOLEAN]
Begin(s)    == [lines |-> <<>>, rest |-> s, more |-> TRUE]
Deliver(t)  ==
  LET r == ReadLine(t.rest)
  IN  [lines |-> IF r.line = <<>> THEN t.lines ELSE Append(t.lines, Stripped(r.line)),
       rest  |-> r.rest, more |-> r.line # <<>>]
ReadLines(s) ==
  Rounds([t \in Progress |-> IF t.more THEN Deliver(t) ELSE t], Begin(s), Len(s) + 1)

-----------------------------------------------------------------------------
Init == sent = <<>> /\ cut = FALSE /\ rx = "run" /\ buf = <<>> /\ lines = <<>>

(* Telnet as RFC 854 has it, a byte at a time: "next" is what the next byte *)
(* is, "out" the data so far.                                               *)
TelnetStep(t, b) ==
  CASE t.next = "data" /\ b = IAC -> [t EXCEPT !.next = "command"]
    [] t.next = "data" /\ b # IAC -> [t EXCEPT !.out = Append(@, b)]
    [] t.next = "command" /\ b = IAC -> [out |-> Append(t.out, b), next |-> "data"]
    [] t.next = "command" /\ IsOptionCommand(b) -> [t EXCEPT !.next = "option"]
    [] OTHER -> [t EXCEPT !.next = "data"]
TelnetState == [out : Bytes, next : {"data", "command", "option"}]
Telnet(bytes) ==
  Over([b \in Byte |-> [t \in TelnetState |-> TelnetStep(t, b)]],
       [out |-> <<>>, next |-> "data"], bytes)

(* One round of do_rx_process_thread's loop.                                *)
Collected_twice(data) == buf \o buf \o data
Collected_forgets(data) == data
Collected(data) == buf \o data                      \* incoming_buffer.append

Receive(chunk) ==
  /\ rx = "run"
  /\ sent' = sent \o chunk
  /\ cut' = (cut \/ Telnet(sent').next # "data")
  /\ LET data == HandleTelnetCommands(chunk)
     IN  \/ /\ data = Panicked
            /\ rx' = "dead" /\ UNCHANGED <<buf, lines>>
         \/ /\ data # Panicked
            /\ LET r == ReadLines(Collected(data))
               IN  buf' = r.rest /\ lines' = lines \o r.lines
            /\ UNCHANGED rx

Next == \E k \in 1 .. MaxSent - Len(sent) : \E chunk \in TupleOf(Byte, k) : Receive(chunk)

Spec == Init /\ [][Next]_vars

-----------------------------------------------------------------------------
(* Properties.                                                              *)

(* x is s without some of its bytes: each byte of x is found in s, after    *)
(* the place of the one before it.                                          *)
InOrder(x, s) ==
  LET found == [b \in Byte |-> [m \in 0 .. Len(x) |->
                 IF m < Len(x) /\ x[m + 1] = b THEN m + 1 ELSE m]]
  IN  Over(found, 0, s) = Len(x)

(* Every variable has its type, and the Rx task only takes bytes out: what  *)
(* it delivered and what it keeps is the input without some of its bytes,   *)
(* in the order they came in and none of them twice.                        *)
TypeOK ==
  /\ sent \in Seq(Byte) /\ cut \in BOOLEAN /\ rx \in {"run", "dead"}
  /\ buf \in Seq(Byte) /\ lines \in Seq(Seq(Byte))
  /\ InOrder(FlattenSeq(lines) \o buf, sent)

(* The lines a client has typed: ended by CR LF, every backspace taking     *)
(* back the byte before it.                                                 *)
Key(t, b) ==
  CASE b = LF -> [done |-> Append(t.done, Front(t.line)), line |-> <<>>]
    [] b = BS -> [t EXCEPT !.line = IF @ = <<>> THEN @ ELSE Front(@)]
    [] OTHER -> [t EXCEPT !.line = Append(@, b)]
TypedState == [done : Seq(Bytes), line : Bytes]
Typed(text) ==
  Over([b \in Byte |-> [t \in TypedState |-> Key(t, b)]],
       [done |-> <<>>, line |-> <<>>], text).done

(* Every CR is followed by an LF, and no LF stands alone.                   *)
LinesEndInCrLf(text) ==
  /\ \A i \in 1 .. Len(text) - 1 : text[i] = CR <=> text[i + 1] = LF
  /\ text # <<>> => text[1] # LF

Escaped(bytes) == \E i \in 1 .. Len(bytes) - 1 : bytes[i] = IAC /\ bytes[i + 1] = IAC

(* Whatever the chunks, unless one of them ends inside a command, the user  *)
(* channel gets the lines as they were typed.  A line that was rubbed out   *)
(* to nothing keeps its CR LF and is delivered too.                         *)
LinesAsTyped ==
  LET text == Telnet(sent).out
  IN  ~cut /\ ~Escaped(sent) /\ LinesEndInCrLf(text) => lines = Typed(text)

(* The Rx task dies only of a chunk that ends inside a telnet command.      *)
PanicsOnlyOnCut == rx = "dead" /\ ~Escaped(sent) => cut

(* All that comes of a text, the rounds an empty line puts off included.    *)
AllLines(s) == Rounds([t \in Progress |-> Deliver(t)], Begin(s), Len(s)).lines

(* Without telnet commands the chunks never matter, even where a bare CR    *)
(* confuses read_line: what was delivered and what is still to come of the  *)
(* buffer is what one chunk would have given.                               *)
ChunksDoNotMatter ==
  (\A i \in DOMAIN sent : sent[i] # IAC) => lines \o AllLines(buf) = AllLines(sent)

(* connection.rs:258, "We want to just leave the one 0xFF": an escaped IAC  *)
(* is one byte of the line.  The loop finds the one it left again, and      *)
(* takes it for the start of a command.                                     *)
EscapedIacKept ==
  LET text == Telnet(sent).out
  IN  ~cut /\ LinesEndInCrLf(text) => lines = Typed(text)
=============================================================================
