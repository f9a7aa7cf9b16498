------------------------------- MODULE Output -------------------------------
(***************************************************************************)
(* src/connection.rs: the Tx task of one connection.  It takes user         *)
(* messages from a broadcast channel, turns them into bytes (AnsiColors)    *)
(* and puts them in the server's transmit queue, where a disconnect puts    *)
(* its last line and its end marker too.  An empty message in that queue    *)
(* closes the socket.                                                       *)
(***************************************************************************)
EXTENDS AnsiColors

CONSTANTS
  Code,         \* colour codes that texts use, as numbers: 207 is "$c0207"
  MaxTokens,    \* tokens of the messages under way (bound)
  MaxSaid,      \* user messages (bound)
  BusCap,       \* capacity of the user channel  (256 in the code)
  TxqCap        \* capacity of the transmit queue (2048)

ASSUME BoundAssumption ==
  /\ MaxTokens \in Nat \ {0, 1} /\ MaxSaid \in Nat
  /\ {BusCap, TxqCap} \subseteq Nat \ {0}

VARIABLES
  setup,        \* start_processing: "dns" until it returns, then "up"
  said,         \* user messages sent on usertxsender so far
  told,         \* the first of them that tells the task to end, or 0
  bus,          \* those the Tx task has still to take
  tx,           \* the Tx task
  done,         \* user messages it has handed to the server, or never saw
  held,         \* the network message it waits to put in the queue
  made,         \* the text held was made from, as a sequence of none or one
  txq,          \* txqueue
  attached,     \* txqueue is the queue the server still uses
  disc,         \* disconnect(): "no", "line" sent, "done"
  sock          \* the write half of the socket: "open", "shut"

vars == <<setup, said, told, bus, tx, done, held, made, txq, attached, disc, sock>>

Token == {Char(c) : c \in {"x", "CR", "LF"}} \cup {ColourCode(n) : n \in Code}
X     == <<Char("x")>>

(* All texts whose length is one of ns.                                     *)
Texts(ns) == UNION {[1 .. n -> Token] : n \in ns}

Message(string, bytes, jinja) == [string |-> string, bytes |-> bytes, jinja |-> jinja]

Init ==
  /\ setup = "dns" /\ said = 0 /\ told = 0 /\ bus = <<>>
  /\ tx = "start" /\ done = 0 /\ held = <<>> /\ made = <<>>
  /\ txq = <<>> /\ attached = TRUE /\ disc = "no" /\ sock = "open"

-----------------------------------------------------------------------------
(* The user side, which finds usertxsender in the server's connections.     *)

SetupDone ==
  /\ setup = "dns" /\ setup' = "up"
  /\ UNCHANGED <<said, told, bus, tx, done, held, made, txq, attached, disc, sock>>

Budget ==
  FoldLeft(LAMBDA n, m : n - Len(m.string), MaxTokens, bus)
  - Len(held) - Len(FlattenSeq(txq))

(* A text, bytes with a text that is not used, or a template without one.   *)
UserMessages ==
  {Message(t, <<>>, "none") : t \in Texts({n \in 0 .. MaxTokens : n <= Budget})}
  \cup {Message(X, X, "none")}
  \cup {Message(<<>>, <<>>, j) : j \in {"empty", "broken", "good"}}

IsEnd_noText(m) == m.string = <<>>

IsEnd(m) == m = Message(<<>>, <<>>, "none")

UserSay(m) ==
  /\ setup = "up" /\ said < MaxSaid
  /\ said' = said + 1 /\ bus' = Append(bus, m)
  /\ told' = IF told = 0 /\ m = Message(<<>>, <<>>, "none") THEN said + 1 ELSE told
  /\ UNCHANGED <<setup, tx, done, held, made, txq, attached, disc, sock>>

-----------------------------------------------------------------------------
(* The Tx task (do_tx_process_thread).                                      *)

(* What is sent before it runs, it never sees.                              *)
TxStart ==
  /\ tx = "start" /\ tx' = "run" /\ bus' = <<>> /\ done' = said
  /\ UNCHANGED <<setup, said, told, held, made, txq, attached, disc, sock>>

(* recv().await.unwrap() on Err(Lagged).                                    *)
TxLagged ==
  /\ tx = "run" /\ Len(bus) > BusCap
  /\ tx' = "dead" /\ bus' = <<>>
  /\ UNCHANGED <<setup, said, told, done, held, made, txq, attached, disc, sock>>

TxNext ==
  /\ tx = "run" /\ Len(bus) \in 1 .. BusCap
  /\ bus' = Tail(bus)
  /\ UNCHANGED <<setup, said, told, done, txq, attached, disc, sock>>

TxEnd ==
  /\ TxNext /\ IsEnd(Head(bus)) /\ tx' = "end"
  /\ UNCHANGED <<held, made>>

(* add_template(..).unwrap() or render(..).unwrap().                        *)
TxBadTemplate ==
  /\ TxNext /\ Head(bus).jinja = "broken" /\ tx' = "dead"
  /\ UNCHANGED <<held, made>>

(* jinja_process: a template yields whatever its values make of it.         *)
JinjaProcess(jinja) == IF jinja = "empty" THEN {<<>>} ELSE Texts(0 .. 1)

(* f, as a table: TLC evaluates it once.                                    *)
Table(f) == CHOOSE g \in {f} : g = f

(* send_string, with ansi_mode as it is set for every connection.           *)
Converted == Table([text \in Texts(0 .. MaxTokens) |-> ConvertString(text, TRUE)])

TxMake(string) == held' = Converted[string] /\ made' = <<string>>

TxConvert ==
  /\ TxNext /\ ~IsEnd(Head(bus)) /\ Head(bus).jinja # "broken" /\ tx' = "send"
  /\ LET m == Head(bus) IN
     IF m.jinja # "none" THEN \E t \in JinjaProcess(m.jinja) : TxMake(t)
     ELSE IF m.bytes # <<>> THEN held' = m.bytes /\ made' = <<>>
     ELSE TxMake(m.string)

SendRaw_unbounded(data) ==
  IF attached THEN txq' = Append(txq, data) ELSE UNCHANGED txq

(* send_raw: to a queue that has been closed is an error that is ignored.   *)
SendRaw(data) ==
  \/ ~attached /\ UNCHANGED txq
  \/ attached /\ Len(txq) < TxqCap /\ txq' = Append(txq, data)

TxSend ==
  /\ tx = "send" /\ SendRaw(held)
  /\ tx' = "run" /\ held' = <<>> /\ made' = <<>>
  /\ done' = IF attached THEN done + 1 ELSE done
  /\ UNCHANGED <<setup, said, told, bus, attached, disc, sock>>

-----------------------------------------------------------------------------
(* disconnect(""), by the Rx task, and what the server does.                *)

DiscLine ==
  /\ setup = "up" /\ disc = "no" /\ disc' = "line"
  /\ SendRaw(Converted[<<Char("CR"), Char("LF")>>])
  /\ UNCHANGED <<setup, said, told, bus, tx, done, held, made, attached, sock>>

DiscMarker ==
  /\ disc = "line" /\ disc' = "done"
  /\ SendRaw(<<>>)
  /\ UNCHANGED <<setup, said, told, bus, tx, done, held, made, attached, sock>>

(* send_message: empty data disconnects.                                    *)
ServerSend ==
  /\ attached /\ txq # <<>> /\ txq' = Tail(txq)
  /\ sock' = IF Head(txq) = <<>> THEN "shut" ELSE sock
  /\ UNCHANGED <<setup, said, told, bus, tx, done, held, made, attached, disc>>

(* A reconfiguration, shutdown or panic of the server drops the queue.      *)
ServerDrop ==
  /\ attached /\ attached' = FALSE /\ txq' = <<>> /\ sock' = "shut"
  /\ UNCHANGED <<setup, said, told, bus, tx, done, held, made, disc>>

-----------------------------------------------------------------------------
TxTask == TxStart \/ TxLagged \/ TxEnd \/ TxBadTemplate \/ TxConvert \/ TxSend
Disconnect == DiscLine \/ DiscMarker

Next ==
  \/ TxTask \/ Disconnect \/ ServerSend \/ ServerDrop \/ SetupDone
  \/ \E m \in UserMessages : UserSay(m)

Spec == Init /\ [][Next]_vars

(* Tasks that can run are run, and the server keeps sending: no write to a  *)
(* socket blocks for ever.                                                  *)
Fairness == WF_vars(TxTask) /\ WF_vars(ServerSend)

FairSpec == Spec /\ Fairness

-----------------------------------------------------------------------------
(* Properties.                                                              *)

(* What texts can become: their characters and codes, or the escape         *)
(* sequences of the codes.                                                  *)
Style == {t \in Token : IsCode(t)} \cup {DefaultCode}
Glyph == Token \cup {ConvertCode(c) : c \in Style} \cup {Reset}
Said  == [string : Texts(0 .. MaxTokens), bytes : {<<>>, X},
          jinja : {"none", "empty", "broken", "good"}]

(* Every variable has its type, and the transmit queue its bound: user      *)
(* messages in the user channel, at most one text as the origin of what is  *)
(* held, and nothing but characters, codes and escape sequences on its way. *)
TypeOK ==
  /\ setup \in {"dns", "up"} /\ attached \in BOOLEAN
  /\ tx \in {"start", "run", "send", "end", "dead"}
  /\ said \in 0 .. MaxSaid /\ {done, told} \subseteq 0 .. said
  /\ bus \in Seq(Said)
  /\ made \in Seq(Texts(0 .. MaxTokens)) /\ Len(made) <= 1
  /\ held \in Seq(Glyph)
  /\ txq \in Seq(Seq(Glyph)) /\ Len(txq) <= TxqCap
  /\ disc \in {"no", "line", "done"} /\ sock \in {"open", "shut"}

(* What a text means: its characters, in the colour of the last code before *)
(* them on their line, or else the default one.                             *)
LineStart(m, i) == 1 + SelectLastInSubSeq(m, 1, i - 1, IsLF)
LineStop(m, i)  == Min({Len(m)} \cup {j \in i .. Len(m) : IsLF(m[j])})
Mark(m, i)      == Max({LineStart(m, i)} \cup {j \in LineStart(m, i) .. i : IsCode(m[j])})
ColourAt(m, i)  ==
  ConvertCode(IF IsCode(m[Mark(m, i)]) THEN m[Mark(m, i)] ELSE DefaultCode)

(* Texts that do not need the quirks of the expression: either no code, or  *)
(* a code on the first and on every line that is not empty, and no CR but   *)
(* at the end of a line.                                                    *)
Marked(m, i) == \E j \in LineStart(m, i) .. LineStop(m, i) : IsCode(m[j])
WellMarked(m) ==
  \/ \A i \in DOMAIN m : IsChar(m[i])
  \/ /\ Marked(m, 1)
     /\ \A i \in DOMAIN m : ~IsLineEnd(m[i]) => Marked(m, i)
     /\ \A i \in DOMAIN m : m[i] = Char("CR") => i < Len(m) /\ IsLineEnd(m[i + 1])

CharsOf(s)     == FlattenSeq([i \in DOMAIN s |-> IF IsChar(s[i]) THEN <<s[i]>> ELSE <<>>])
Positions(s)   == FlattenSeq([i \in DOMAIN s |-> IF IsChar(s[i]) THEN <<i>> ELSE <<>>])
Count(s, c)    == Cardinality({i \in DOMAIN s : s[i] = Char(c)})
Rendition(s, i) ==
  LET r == SelectLastInSubSeq(s, 1, i - 1, LAMBDA t : ~IsChar(t))
  IN  IF r = 0 THEN Reset ELSE s[r]

(* Colours do not cost a well-marked text a character, with or without      *)
(* ANSI, and make none of its characters appear twice; of no text is a      *)
(* letter shown more often than it was written (ansicolors.rs:152, 212).    *)
TextKept ==
  \A i \in DOMAIN made :
    LET shown == CharsOf(held) IN
    /\ WellMarked(made[i]) => shown = CharsOf(made[i])
    /\ shown = ConvertString(made[i], FALSE)
    /\ Count(held, "x") <= Count(made[i], "x")

(* A character of a well-marked text is shown in its own colour, never in   *)
(* that of a part before it, or in none where its colour repeats the one    *)
(* before (ansicolors.rs:219).                                              *)
Repeats(m, i) ==
  LET j == SelectLastInSubSeq(m, 1, Mark(m, i) - 1, LAMBDA t : ~IsLineEnd(t))
  IN  j > 0 /\ ColourAt(m, j) = ColourAt(m, i)
ColourAsMarked ==
  \A i \in DOMAIN made :
    LET m == made[i]  from == Positions(m)  to == Positions(held)
    IN  WellMarked(m) => \A k \in DOMAIN from :
          \/ IsLineEnd(m[from[k]])
          \/ Rendition(held, to[k]) = ColourAt(m, from[k])
          \/ Rendition(held, to[k]) = Reset /\ Repeats(m, from[k])

(* Nothing a user message says closes the socket, although an empty network *)
(* message would: that takes a disconnect, or the end of the queue.         *)
TextNeverCloses == sock = "shut" => disc = "done" \/ ~attached

(* A message is handed to the server, unless it was sent before the Tx task *)
(* ran, or the task died of a lag or a template, or was told to end, or the *)
(* server has dropped the queue: send_raw (connection.rs:189) ignores the   *)
(* error of a closed queue, and the message is gone.                        *)
SaidIsSent ==
  \A k \in 1 .. MaxSaid :
    said >= k ~> done >= k \/ tx = "dead" \/ told \in 1 .. k \/ ~attached
=============================================================================
