---------------------------- MODULE ConsoleProofs ---------------------------
(***************************************************************************)
(* Proofs about the printer, the logger and error trees.  One mutex, taken *)
(* for the whole of a message, keeps the parts of messages together on     *)
(* both streams, for any number of goroutines, and whatever the options    *)
(* make of the streams.  The second part follows records from the queue of *)
(* a PreLogger and from derived loggers through the handlers to the        *)
(* writers, the third errors that are made of other errors.                *)
(***************************************************************************)
EXTENDS Console, FiniteSetTheorems, SequenceTheorems, WellFoundedInduction, TLAPS

Hinted == [indent: Int, success: BOOLEAN]
Message == [kind: Printer!Kinds \cup {"none"}, indent: Nat, own: Int, hinted: Int, success: BOOLEAN,
            parts: Nat]
Indented(m) ==
    m.indent = Printer!indentPrefix(IF m.hinted >= 0 THEN m.own + m.hinted ELSE m.own)
Printing == [indent: Int, hints: Hinted, group: BOOLEAN, given: Hinted,
             pc: {"idle", "lock", "write"}, message: Message, sent: Nat, count: Nat]
Part == [by: program.goroutines \cup {NoOne}, part: Nat, of: Nat]

\* A message in hand is indented as its caller means it, and so is the next
\* one; before the mutex is taken nothing of it has been written.
PrintingOK(r) ==
    /\ r.hints.indent = r.given.indent
    /\ Indented(r.message)
    /\ r.pc # "idle" => r.message.parts > 1
    /\ r.pc = "lock" => r.sent = 0
    /\ r.pc = "write" => r.sent < r.message.parts

\* The holder of the mutex has written as much as the stream shows, and every
\* other message is whole.
HolderOK(p) ==
    g[p].pc = "write" =>
      /\ mu = p
      /\ \A s \in Printer!Streams :
           IF s = Printer!Writer(g[p].message.kind) /\ g[p].sent > 0
           THEN stream[s] = [by |-> p, part |-> g[p].sent, of |-> g[p].message.parts]
           ELSE stream[s].part = stream[s].of

PrinterInv ==
    /\ program \in Programs
    /\ redirect \in [outToErr : BOOLEAN, errToOut : BOOLEAN]
    /\ level \in Printer!Levels
    /\ mu \in program.goroutines \cup {NoOne}
    /\ stream \in [Printer!Streams -> Part]
    /\ g \in [program.goroutines -> Printing]
    /\ \A p \in program.goroutines : PrintingOK(g[p]) /\ HolderOK(p)
    /\ mu # NoOne => g[mu].pc = "write"
    /\ mu = NoOne => \A s \in Printer!Streams : stream[s].part = stream[s].of
    /\ Printer!StreamClean

\* A step that ends in no change of the streams and of the mutex.
LEMMA Quiet ==
  ASSUME Printer!PrinterConstants, PrinterInv, NEW p \in program.goroutines, NEW r \in Printing,
         g' = [g EXCEPT ![p] = r], UNCHANGED <<program, redirect, level, mu, stream>>,
         PrintingOK(r), g[p].pc # "write", r.pc # "write"
  PROVE  PrinterInv'
<1>1. g' \in [program'.goroutines -> Printing] /\ g'[p] = r
  BY DEF PrinterInv
<1>2. \A q \in program.goroutines : q # p => g'[q] = g[q]
  BY DEF PrinterInv
<1>3. mu # p /\ NoOne \notin program.goroutines
  BY DEF PrinterInv, Printer!PrinterConstants
<1>4. ASSUME NEW q \in program'.goroutines PROVE PrintingOK(g[q])' /\ HolderOK(q)'
  <2>1. CASE q = p
    BY <1>1, <2>1 DEF PrintingOK, HolderOK
  <2>2. CASE q # p
    BY <1>2, <2>2 DEF PrinterInv, PrintingOK, HolderOK, Printer!Writer, Printer!outW, Printer!errW
  <2> QED BY <2>1, <2>2
<1>5. Printer!StreamClean'
  BY DEF PrinterInv, Printer!StreamClean
<1>6. mu' # NoOne => g'[mu'].pc = "write"
  BY <1>2, <1>3 DEF PrinterInv
<1>7. stream' \in [Printer!Streams -> Part']
  BY DEF PrinterInv, Part
<1> QED BY <1>1, <1>4, <1>5, <1>6, <1>7 DEF PrinterInv

LEMMA NoMessageIs ==
  Printer!NoMessage \in Message /\ Indented(Printer!NoMessage)
  BY DEF Printer!NoMessage, Message, Indented, Printer!indentPrefix

LEMMA FreshIs ==
  Printer!Fresh \in Printing /\ PrintingOK(Printer!Fresh) /\ Printer!Fresh.pc = "idle"
  BY NoMessageIs DEF Printer!Fresh, Printing, Hinted, PrintingOK

LEMMA DerivedIs ==
  ASSUME NEW i \in Int, NEW n \in Nat
  PROVE  /\ [Printer!Fresh EXCEPT !.indent = i, !.count = n] \in Printing
         /\ [Printer!Fresh EXCEPT !.count = n] \in Printing
         /\ PrintingOK([Printer!Fresh EXCEPT !.indent = i, !.count = n])
         /\ PrintingOK([Printer!Fresh EXCEPT !.count = n])
         /\ [Printer!Fresh EXCEPT !.indent = i, !.count = n].pc = "idle"
         /\ [Printer!Fresh EXCEPT !.count = n].pc = "idle"
<1> DEFINE d == [Printer!Fresh EXCEPT !.indent = i, !.count = n]
           c == [Printer!Fresh EXCEPT !.count = n]
<1>1. /\ d.hints = Printer!Fresh.hints /\ d.given = Printer!Fresh.given
      /\ d.message = Printer!Fresh.message /\ d.pc = Printer!Fresh.pc
      /\ c.hints = Printer!Fresh.hints /\ c.given = Printer!Fresh.given
      /\ c.message = Printer!Fresh.message /\ c.pc = Printer!Fresh.pc
  BY DEF Printer!Fresh
<1>2. d \in Printing /\ c \in Printing
  BY FreshIs DEF Printing
<1> HIDE DEF d, c
<1>3. PrintingOK(d) /\ PrintingOK(c) /\ d.pc = "idle" /\ c.pc = "idle"
  BY <1>1, FreshIs DEF PrintingOK
<1> QED BY <1>2, <1>3 DEF d, c

LEMMA MessageIs ==
  ASSUME NEW m \in Message, NEW n \in Nat, Indented(m), m.parts > 1
  PROVE  \E r \in Printing :
           /\ r = [Printer!Fresh EXCEPT !.pc = "lock", !.message = m, !.count = n]
           /\ r.pc = "lock" /\ PrintingOK(r)
<1> DEFINE r == [Printer!Fresh EXCEPT !.pc = "lock", !.message = m, !.count = n]
<1>1. /\ r.pc = "lock" /\ r.message = m /\ r.sent = 0 /\ r.hints = r.given
  BY DEF Printer!Fresh
<1>2. r \in Printing
  BY FreshIs DEF Printing
<1> HIDE DEF r
<1>3. PrintingOK(r)
  BY <1>1 DEF PrintingOK
<1> QED BY <1>1, <1>2, <1>3 DEF r

LEMMA BeginInv ==
  ASSUME Printer!PrinterConstants, PrinterInv, NEW p \in program.goroutines, NEW m \in Message,
         Indented(m), m.parts > 1, Printer!Begin(p, m)
  PROVE  PrinterInv'
<1>1. g[p] \in Printing /\ g[p].count + 1 \in Nat /\ g[p].pc = "idle"
  BY DEF PrinterInv, Printing, Printer!Begin, Printer!Idle
<1>2. PICK r \in Printing :
        /\ r = [Printer!Fresh EXCEPT !.pc = "lock", !.message = m, !.count = g[p].count + 1]
        /\ r.pc = "lock" /\ PrintingOK(r)
  BY <1>1, MessageIs
<1>3. g' = [g EXCEPT ![p] = r] /\ UNCHANGED <<program, redirect, level, mu, stream>>
  BY <1>2 DEF Printer!Begin
<1> QED BY <1>1, <1>2, <1>3, Quiet

LEMMA DeriveInv ==
  ASSUME Printer!PrinterConstants, PrinterInv, NEW p \in program.goroutines,
         \/ \E n \in Printer!Deltas : Printer!WithIndent(p, n)
         \/ \E hint \in Printer!Hints : Printer!WithAttrs(p, hint)
         \/ Printer!WithGroup(p)
  PROVE  PrinterInv'
<1>1. /\ g[p] \in Printing /\ g[p].hints \in Hinted /\ g[p].given \in Hinted
      /\ g[p].indent \in Int /\ g[p].count \in Nat /\ PrintingOK(g[p])
      /\ program.indent \in Nat /\ g \in [program.goroutines -> Printing]
  BY DEF PrinterInv, Printing, Printer!PrinterConstants
<1>2. CASE \E n \in Printer!Deltas : Printer!WithIndent(p, n)
  <2>1. PICK n \in Printer!Deltas : Printer!WithIndent(p, n)
    BY <1>2
  <2>2. g[p].indent + n \in Int
    BY <1>1, <2>1 DEF Printer!Deltas
  <2> QED BY <1>1, <2>1, <2>2, DerivedIs, Quiet DEF Printer!WithIndent, Printer!Idle
<1>3. CASE \E hint \in Printer!Hints : Printer!WithAttrs(p, hint)
  <2>1. PICK hint \in Printer!Hints : Printer!WithAttrs(p, hint)
    BY <1>3
  <2>2. hint.indent \in Int
    BY <1>1 DEF Printer!Hints, Printer!Deltas
  <2>3. PICK a \in BOOLEAN, b \in BOOLEAN :
          /\ a = (g[p].hints.success \/ hint.success # "absent")
          /\ b = IF hint.success = "absent" THEN g[p].given.success ELSE hint.success = "true"
    BY <1>1 DEF Hinted
  <2> DEFINE hints == IF g[p].group THEN g[p].hints
                      ELSE [indent |-> g[p].hints.indent + hint.indent, success |-> a]
             given == IF g[p].group THEN g[p].given
                      ELSE [indent |-> g[p].given.indent + hint.indent, success |-> b]
             r == [g[p] EXCEPT !.hints = hints, !.given = given]
  <2>4. g' = [g EXCEPT ![p] = r] /\ UNCHANGED <<program, redirect, level, mu, stream>>
    BY <1>1, <2>1, <2>3 DEF Printer!WithAttrs, Printer!Meant
  <2>5. hints \in Hinted /\ given \in Hinted /\ hints.indent = given.indent
    BY <1>1, <2>2 DEF Hinted, PrintingOK
  <2> HIDE DEF hints, given
  <2>6. /\ r \in Printing /\ r.hints = hints /\ r.given = given /\ r.message = g[p].message
        /\ r.pc = g[p].pc /\ r.sent = g[p].sent
    BY <1>1, <2>5 DEF Printing
  <2> HIDE DEF r
  <2>7. PrintingOK(r) /\ g[p].pc = "idle"
    BY <1>1, <2>1, <2>5, <2>6 DEF PrintingOK, Printer!WithAttrs, Printer!Idle
  <2> QED BY <2>4, <2>6, <2>7, Quiet
<1>4. CASE Printer!WithGroup(p)
  <2> DEFINE r == [g[p] EXCEPT !.group = TRUE]
  <2>1. g' = [g EXCEPT ![p] = r] /\ UNCHANGED <<program, redirect, level, mu, stream>>
    BY <1>1, <1>4 DEF Printer!WithGroup
  <2>2. /\ r \in Printing /\ r.hints = g[p].hints /\ r.given = g[p].given
        /\ r.message = g[p].message /\ r.pc = g[p].pc /\ r.sent = g[p].sent
    BY <1>1 DEF Printing
  <2> HIDE DEF r
  <2>3. PrintingOK(r) /\ g[p].pc = "idle"
    BY <1>1, <1>4, <2>2 DEF PrintingOK, Printer!WithGroup, Printer!Idle
  <2> QED BY <2>1, <2>2, <2>3, Quiet
<1> QED BY <1>2, <1>3, <1>4

LEMMA CallInv ==
  ASSUME Printer!PrinterConstants, PrinterInv, NEW p \in program.goroutines,
         NEW kind \in Printer!Kinds, Printer!Call(p, kind)
  PROVE  PrinterInv'
<1>1. g[p].indent \in Int
  BY DEF PrinterInv, Printing
<1>2. PICK b \in BOOLEAN : b = (kind = "Success")
  OBVIOUS
<1>3. PICK i \in Int : i = IF kind = "Table" THEN 0 ELSE g[p].indent
  BY <1>1
<1>4. PICK n \in {2, 3} : n = IF kind = "Table" THEN 3 ELSE 2
  OBVIOUS
<1> DEFINE m == [kind |-> kind, indent |-> Printer!indentPrefix(i), own |-> i, hinted |-> 0,
                 success |-> b, parts |-> n]
<1>5. m \in Message /\ Indented(m) /\ m.parts > 1
  <2>1. Printer!indentPrefix(i) \in Nat /\ i + 0 = i
    BY DEF Printer!indentPrefix
  <2> QED BY <2>1 DEF Message, Indented
<1>6. Printer!Begin(p, m)
  BY <1>2, <1>3, <1>4 DEF Printer!Call
<1> QED BY <1>5, <1>6, BeginInv

LEMMA HandleInv ==
  ASSUME Printer!PrinterConstants, PrinterInv, NEW p \in program.goroutines,
         NEW l \in Printer!Levels, NEW hint \in Printer!Hints, Printer!Handle(p, l, hint)
  PROVE  PrinterInv'
<1>1. /\ g[p] \in Printing /\ g[p].hints \in Hinted /\ g[p].given \in Hinted
      /\ g[p].indent \in Int /\ g[p].hints.indent = g[p].given.indent
      /\ program.indent \in Nat /\ g[p].hints.indent \in Int
  BY DEF PrinterInv, Printing, PrintingOK, Hinted, Printer!PrinterConstants
<1>2. hint.indent \in Int
  BY <1>1 DEF Printer!Hints, Printer!Deltas
<1>3. PICK a \in BOOLEAN : a = IF hint.success = "absent" THEN g[p].hints.success
                              ELSE hint.success = "true"
  BY <1>1 DEF Hinted
<1>4. PICK b \in BOOLEAN : b = IF hint.success = "absent" THEN g[p].given.success
                              ELSE hint.success = "true"
  BY <1>1 DEF Hinted
<1> DEFINE hints == IF g[p].group THEN g[p].hints
                    ELSE [indent |-> g[p].hints.indent + hint.indent, success |-> a]
           meant == IF g[p].group THEN g[p].given
                    ELSE [indent |-> g[p].given.indent + hint.indent, success |-> b]
           kind == IF l >= Printer!Error THEN "Error" ELSE IF l >= Printer!Warn THEN "Warn"
                   ELSE IF hints.success /\ l >= Printer!Info THEN "Success"
                   ELSE IF l >= Printer!Info THEN "Info" ELSE "Verbose"
           sum == g[p].indent + IF hints.indent > 0 THEN hints.indent ELSE 0
           m == [kind |-> kind, indent |-> Printer!indentPrefix(sum), own |-> g[p].indent,
                 hinted |-> meant.indent, success |-> meant.success, parts |-> 2]
<1>5. Printer!Begin(p, m)
  BY <1>3, <1>4 DEF Printer!Handle, Printer!Meant
<1>6. hints \in Hinted /\ meant \in Hinted /\ hints.indent = meant.indent
  BY <1>1, <1>2 DEF Hinted
<1>7. kind \in Printer!Kinds
  BY DEF Printer!Kinds
<1> HIDE DEF hints, meant, kind
<1>8. /\ meant.indent \in Int /\ meant.success \in BOOLEAN /\ Printer!indentPrefix(sum) \in Nat
      /\ sum = IF meant.indent >= 0 THEN g[p].indent + meant.indent ELSE g[p].indent
  BY <1>1, <1>6 DEF Hinted, Printer!indentPrefix
<1> HIDE DEF sum
<1>9. m \in Message /\ Indented(m) /\ m.parts > 1
  BY <1>1, <1>7, <1>8 DEF Message, Indented
<1> QED BY <1>5, <1>9, BeginInv

LEMMA LockInv ==
  ASSUME Printer!PrinterConstants, PrinterInv, NEW p \in program.goroutines, Printer!Lock(p)
  PROVE  PrinterInv'
<1>1. /\ g[p] \in Printing /\ PrintingOK(g[p]) /\ g[p].pc = "lock" /\ mu = NoOne /\ mu' = p
      /\ g \in [program.goroutines -> Printing] /\ NoOne \notin program.goroutines
      /\ UNCHANGED <<program, redirect, level, stream>>
  BY DEF PrinterInv, Printer!Lock, Printer!PrinterConstants
<1> DEFINE r == [g[p] EXCEPT !.pc = "write"]
<1>2. /\ r \in Printing /\ r.hints = g[p].hints /\ r.given = g[p].given
      /\ r.message = g[p].message /\ r.pc = "write" /\ r.sent = g[p].sent
  BY <1>1 DEF Printing
<1>3. g' = [g EXCEPT ![p] = r]
  BY <1>1 DEF Printer!Lock
<1> HIDE DEF r
<1>4. g' \in [program.goroutines -> Printing] /\ g'[p] = r
  BY <1>1, <1>2, <1>3
<1>5. PrintingOK(r) /\ r.sent = 0
  BY <1>1, <1>2 DEF PrintingOK, Printing, Message
<1>6. ASSUME NEW q \in program.goroutines PROVE PrintingOK(g'[q]) /\ HolderOK(q)'
  <2>1. CASE q = p
    BY <1>1, <1>4, <1>5, <2>1 DEF PrinterInv, HolderOK
  <2>2. CASE q # p
    <3>1. g'[q] = g[q] /\ g[q].pc # "write"
      BY <1>1, <1>3, <2>2 DEF PrinterInv, HolderOK
    <3> QED BY <3>1 DEF PrinterInv, HolderOK
  <2> QED BY <2>1, <2>2
<1>7. Printer!StreamClean' /\ stream' \in [Printer!Streams -> Part']
  BY <1>1 DEF PrinterInv, Printer!StreamClean, Part
<1>8. \A q \in program.goroutines : PrintingOK(g[q])'
  BY <1>6 DEF PrintingOK
<1> QED BY <1>1, <1>2, <1>4, <1>6, <1>7, <1>8 DEF PrinterInv

\* What a step may do to the streams.
StreamsMove ==
    \A s \in Printer!Streams : stream'[s] # stream[s] =>
        IF stream[s].part = stream[s].of THEN stream'[s].part = 1
        ELSE stream'[s] = [stream[s] EXCEPT !.part = @ + 1]

LEMMA WriterIs ==
  ASSUME redirect \in [outToErr : BOOLEAN, errToOut : BOOLEAN], NEW kind
  PROVE  /\ Printer!Writer(kind) \in Printer!Streams
         /\ redirect.outToErr /\ ~redirect.errToOut => Printer!Writer(kind) # "stdout"
         /\ redirect.errToOut /\ ~redirect.outToErr => Printer!Writer(kind) # "stderr"
  BY DEF Printer!Writer, Printer!outW, Printer!errW, Printer!Streams

LEMMA WriteInv ==
  ASSUME Printer!PrinterConstants, PrinterInv, NEW p \in program.goroutines, Printer!Write(p)
  PROVE  PrinterInv' /\ StreamsMove
<1> DEFINE m == g[p].message
           w == Printer!Writer(m.kind)
           piece == [by |-> p, part |-> g[p].sent + 1, of |-> m.parts]
           r == IF g[p].sent + 1 = m.parts THEN [Printer!Fresh EXCEPT !.count = g[p].count]
                ELSE [g[p] EXCEPT !.sent = g[p].sent + 1]
<1>1. /\ g[p] \in Printing /\ PrintingOK(g[p]) /\ g[p].pc = "write" /\ mu = p
      /\ g \in [program.goroutines -> Printing] /\ NoOne \notin program.goroutines
      /\ UNCHANGED <<program, redirect, level>>
      /\ redirect \in [outToErr : BOOLEAN, errToOut : BOOLEAN]
      /\ stream \in [Printer!Streams -> Part]
  BY DEF PrinterInv, HolderOK, Printer!Write, Printer!PrinterConstants
<1>2. /\ m.parts \in Nat /\ g[p].sent \in Nat /\ g[p].sent < m.parts /\ g[p].count \in Nat
      /\ m.parts > 1
  BY <1>1 DEF Printing, Message, PrintingOK
<1>3. /\ stream' = [stream EXCEPT ![w] = piece]
      /\ g' = [g EXCEPT ![p] = r]
      /\ mu' = IF g[p].sent + 1 = m.parts THEN NoOne ELSE p
  <2>1. /\ stream' = [stream EXCEPT ![w] = piece]
        /\ mu' = IF piece.part = m.parts /\ mu = p THEN NoOne ELSE mu
        /\ g' = [g EXCEPT ![p] = IF piece.part = m.parts
                                 THEN [Printer!Fresh EXCEPT !.count = g[p].count]
                                 ELSE [g[p] EXCEPT !.sent = g[p].sent + 1]]
    BY <1>1 DEF Printer!Write
  <2> QED BY <1>1, <2>1
<1>4. w \in Printer!Streams /\ piece \in Part
  BY <1>1, <1>2, WriterIs DEF Part
<1>5. /\ r \in Printing /\ PrintingOK(r)
      /\ IF g[p].sent + 1 = m.parts THEN r.pc = "idle"
         ELSE r.pc = "write" /\ r.message = m /\ r.sent = g[p].sent + 1
  <2>1. CASE g[p].sent + 1 = m.parts
    <3>1. 0 \in Int
      OBVIOUS
    <3> QED BY <1>2, <2>1, <3>1, DerivedIs
  <2>2. CASE g[p].sent + 1 # m.parts
    <3> DEFINE q == [g[p] EXCEPT !.sent = g[p].sent + 1]
    <3>1. /\ q \in Printing /\ q.hints = g[p].hints /\ q.given = g[p].given
          /\ q.message = m /\ q.pc = "write" /\ q.sent = g[p].sent + 1 /\ r = q
      BY <1>1, <1>2, <2>2 DEF Printing
    <3> HIDE DEF q, r
    <3>2. PrintingOK(q)
      BY <1>1, <1>2, <2>2, <3>1 DEF PrintingOK
    <3> QED BY <2>2, <3>1, <3>2
  <2> QED BY <2>1, <2>2
<1>6. piece.part = g[p].sent + 1 /\ piece.of = m.parts
  OBVIOUS
<1>7. \A s \in Printer!Streams :
        IF s = w /\ g[p].sent > 0
        THEN stream[s] = [by |-> p, part |-> g[p].sent, of |-> m.parts]
        ELSE stream[s].part = stream[s].of
  BY <1>1 DEF PrinterInv, HolderOK
<1>8. StreamsMove
  <2> SUFFICES ASSUME NEW s \in Printer!Streams, stream'[s] # stream[s]
               PROVE  IF stream[s].part = stream[s].of THEN stream'[s].part = 1
                      ELSE stream'[s] = [stream[s] EXCEPT !.part = @ + 1]
    BY DEF StreamsMove
  <2>1. s = w /\ stream'[s] = piece
    BY <1>1, <1>3, <1>4
  <2>2. CASE g[p].sent > 0
    <3>1. stream[s] = [by |-> p, part |-> g[p].sent, of |-> m.parts]
      BY <1>7, <2>1, <2>2
    <3> QED BY <1>2, <2>1, <3>1
  <2>3. CASE g[p].sent = 0
    BY <1>2, <1>7, <2>1, <2>3
  <2> QED BY <1>2, <2>2, <2>3
<1> HIDE DEF r, piece, w
<1>9. /\ g' \in [program.goroutines -> Printing] /\ g'[p] = r
      /\ stream' \in [Printer!Streams -> Part] /\ stream'[w] = piece
      /\ \A s \in Printer!Streams : s # w => stream'[s] = stream[s]
      /\ \A q \in program.goroutines : q # p => g'[q] = g[q]
  BY <1>1, <1>3, <1>4, <1>5
<1>10. ASSUME NEW q \in program.goroutines PROVE PrintingOK(g'[q]) /\ HolderOK(q)'
  <2>1. CASE q = p /\ g[p].sent + 1 = m.parts
    BY <1>5, <1>9, <2>1 DEF HolderOK
  <2>2. CASE q = p /\ g[p].sent + 1 # m.parts
    <3>1. Printer!Writer(g[p].message.kind)' = w
      BY <1>1, <1>5, <1>9, <2>2 DEF Printer!Writer, Printer!outW, Printer!errW, w
    <3>2. stream'[w] = [by |-> p, part |-> r.sent, of |-> r.message.parts] /\ r.sent > 0
      BY <1>2, <1>5, <1>9, <2>2 DEF piece
    <3> QED BY <1>3, <1>5, <1>7, <1>9, <2>2, <3>1, <3>2 DEF HolderOK
  <2>3. CASE q # p
    <3>1. g'[q] = g[q] /\ g[q].pc # "write"
      BY <1>1, <1>9, <2>3 DEF PrinterInv, HolderOK
    <3> QED BY <3>1 DEF PrinterInv, HolderOK
  <2> QED BY <2>1, <2>2, <2>3
<1>11. \A q \in program.goroutines : PrintingOK(g[q])'
  BY <1>10 DEF PrintingOK
<1>12. Printer!StreamClean'
  BY <1>1, <1>9, WriterIs DEF PrinterInv, Printer!StreamClean, Printer!Streams, w
<1>13. stream' \in [Printer!Streams -> Part']
  BY <1>1, <1>9 DEF Part
<1>14. mu' = NoOne => \A s \in Printer!Streams : stream'[s].part = stream'[s].of
  BY <1>1, <1>3, <1>6, <1>7, <1>9
<1>15. mu' # NoOne => g'[mu'].pc = "write"
  BY <1>3, <1>5, <1>9
<1> QED BY <1>1, <1>3, <1>8, <1>9, <1>10, <1>11, <1>12, <1>13, <1>14, <1>15 DEF PrinterInv

LEMMA PrinterNext ==
  ASSUME Printer!PrinterConstants, PrinterInv, [Printer!Next]_printerVars
  PROVE  PrinterInv' /\ (StreamsMove \/ UNCHANGED printerVars)
<1>1. ASSUME UNCHANGED stream PROVE StreamsMove
  BY <1>1 DEF StreamsMove
<1>2. CASE UNCHANGED printerVars
  <2>1. UNCHANGED <<program, redirect, level, mu, stream, g>>
    BY <1>2 DEF printerVars
  <2>2. \A p \in program.goroutines : HolderOK(p)' <=> HolderOK(p)
    BY <2>1 DEF HolderOK, Printer!Writer, Printer!outW, Printer!errW
  <2> QED BY <1>2, <2>1, <2>2 DEF PrinterInv, PrintingOK, Part, Printer!StreamClean
<1>3. CASE \E l \in Printer!Levels : Printer!SetLevel(l)
  <2>1. level' \in Printer!Levels /\ UNCHANGED <<program, redirect, mu, stream, g>>
    BY <1>3 DEF Printer!SetLevel
  <2>2. \A p \in program.goroutines : HolderOK(p)' <=> HolderOK(p)
    BY <2>1 DEF HolderOK, Printer!Writer, Printer!outW, Printer!errW
  <2>3. PrinterInv'
    BY <2>1, <2>2 DEF PrinterInv, PrintingOK, Part, Printer!StreamClean
  <2> QED BY <1>1, <2>1, <2>3
<1>4. ASSUME NEW p \in program.goroutines,
             \/ \E n \in Printer!Deltas : Printer!WithIndent(p, n)
             \/ \E hint \in Printer!Hints : Printer!WithAttrs(p, hint)
             \/ Printer!WithGroup(p)
      PROVE  PrinterInv' /\ StreamsMove
  BY <1>1, <1>4, DeriveInv DEF Printer!WithIndent, Printer!WithAttrs, Printer!WithGroup
<1>5. ASSUME NEW p \in program.goroutines,
             \/ \E kind \in Printer!Kinds : Printer!Call(p, kind)
             \/ \E l \in Printer!Levels, hint \in Printer!Hints : Printer!Handle(p, l, hint)
      PROVE  PrinterInv' /\ StreamsMove
  <2>1. UNCHANGED stream
    BY <1>5 DEF Printer!Call, Printer!Handle, Printer!Begin
  <2> QED BY <1>1, <1>5, <2>1, CallInv, HandleInv
<1>6. ASSUME NEW p \in program.goroutines, Printer!Lock(p)
      PROVE  PrinterInv' /\ StreamsMove
  BY <1>1, <1>6, LockInv DEF Printer!Lock
<1> QED BY <1>2, <1>3, <1>4, <1>5, <1>6, WriteInv DEF Printer!Next

LEMMA PrinterInit ==
  ASSUME Printer!PrinterConstants, Printer!Init
  PROVE  PrinterInv
<1>1. /\ program \in Programs /\ redirect \in [outToErr : BOOLEAN, errToOut : BOOLEAN]
      /\ level \in Printer!Levels /\ mu = NoOne
      /\ stream = [s \in Printer!Streams |-> Printer!NoPart]
      /\ g = [p \in program.goroutines |-> Printer!Fresh]
  BY DEF Printer!Init
<1>2. Printer!NoPart \in Part /\ Printer!NoPart.part = Printer!NoPart.of
  BY DEF Printer!NoPart, Part
<1>3. Printer!Fresh \in Printing /\ PrintingOK(Printer!Fresh) /\ Printer!Fresh.pc = "idle"
  BY FreshIs
<1>4. \A p \in program.goroutines : PrintingOK(g[p]) /\ HolderOK(p)
  BY <1>1, <1>3 DEF HolderOK
<1> QED BY <1>1, <1>2, <1>3, <1>4 DEF PrinterInv, Printer!StreamClean, Printer!Streams

-----------------------------------------------------------------------------

LEMMA PrinterTypes ==
  PrinterInv => Printer!TypeOK
  BY PrintersConstants DEF PrinterInv, Printer!TypeOK, Printing, Message, PrintingOK

LEMMA PrinterAtWork ==
  ASSUME [ConsoleNext]_<<part, vars, printerVars, errs>>
  PROVE  [Printer!Next]_printerVars
  BY DEF ConsoleNext, Printed

\* The mutex that writeLine, writeRaw and renderTable take for a whole message
\* keeps messages together on both streams, wherever the options send them,
\* for any number of goroutines and messages; a redirected stream stays clean;
\* and a line has the indentation that its printer and the hints add up to, of
\* hints with a negative sum only the printer's (printer.go, handler.go).
THEOREM PrintedWhole ==
  ConsoleSpec => MessagesWhole
<1> USE PrintersConstants
<1>1. ConsoleInit => PrinterInv
  BY PrinterInit DEF ConsoleInit
<1>2. PrinterInv /\ [ConsoleNext]_<<part, vars, printerVars, errs>> => PrinterInv'
  BY PrinterAtWork, PrinterNext
<1>3. PrinterInv => Printer!StreamClean /\ Printer!IndentsAdd
  BY DEF PrinterInv, Printer!IndentsAdd, PrintingOK, Indented
<1>4. PrinterInv /\ [ConsoleNext]_<<part, vars, printerVars, errs>> =>
        [\A s \in Printer!Streams : stream'[s] # stream[s] =>
           IF stream[s].part = stream[s].of THEN stream'[s].part = 1
           ELSE stream'[s] = [stream[s] EXCEPT !.part = @ + 1]]_printerVars
  BY PrinterAtWork, PrinterNext DEF StreamsMove
<1> QED BY <1>1, <1>2, <1>3, <1>4, PTL
        DEF ConsoleSpec, Printer!vars, printerVars, MessagesWhole, Printer!WholeMessages

-----------------------------------------------------------------------------
\* Numbers and sequences

\* A set of naturals has a least element.
LEMMA LeastNatural ==
  ASSUME NEW S \in SUBSET Nat, S # {}
  PROVE  \E m \in S : \A k \in S : m <= k
<1> DEFINE R == OpToRel(<, Nat)
<1>1. \A x, y \in Nat : <<x, y>> \in R <=> x < y
  BY DEF OpToRel
<1>2. IsWellFoundedOn(R, Nat)
  BY NatLessThanWellFounded
<1> HIDE DEF R
<1>3. PICK m \in S : \A k \in S : ~ (<<k, m>> \in R)
  BY <1>2, WFMin
<1>4. ASSUME NEW k \in S
      PROVE  m <= k
  <2>1. m \in Nat /\ k \in Nat
    OBVIOUS
  <2>2. ~ (k < m)
    BY <1>1, <1>3, <2>1
  <2> QED BY <2>1, <2>2
<1> QED BY <1>4

\* A property of the naturals, given as a set, that 0 has and every number
\* passes on to the next.
LEMMA EveryNatural ==
  ASSUME NEW Good, 0 \in Good, \A n \in Nat : n \in Good => n + 1 \in Good
  PROVE  Nat \subseteq Good
<1> SUFFICES ASSUME Nat \ Good # {} PROVE FALSE
  OBVIOUS
<1>1. PICK m \in Nat \ Good : \A k \in Nat \ Good : m <= k
  BY LeastNatural
<1>2. m # 0 /\ m - 1 \in Nat /\ (m - 1) + 1 = m
  BY <1>1
<1>3. m - 1 \in Good
  BY <1>1, <1>2
<1> QED BY <1>1, <1>2, <1>3

\* A property of sequences, given as a set, that the empty one has and appending
\* keeps.
LEMMA EverySequence ==
  ASSUME NEW A, NEW Good, <<>> \in Good,
         \A s \in Seq(A), x \in A : s \in Good => Append(s, x) \in Good
  PROVE  Seq(A) \subseteq Good
<1> DEFINE G == {n \in Nat : \A s \in Seq(A) : Len(s) = n => s \in Good}
<1>1. 0 \in G
  BY EmptySeq
<1>2. ASSUME NEW n \in Nat, n \in G
      PROVE  n + 1 \in G
  <2> SUFFICES ASSUME NEW s \in Seq(A), Len(s) = n + 1 PROVE s \in Good
    OBVIOUS
  <2>1. s # <<>>
    BY EmptySeq
  <2>2. PICK t \in Seq(A), x \in A : s = Append(t, x)
    BY <2>1, SequenceEmptyOrAppend
  <2>3. Len(s) = Len(t) + 1 /\ Len(t) \in Nat
    BY <2>2
  <2>4. Len(t) = n
    BY <2>3
  <2> QED BY <1>2, <2>2, <2>4
<1> HIDE DEF G
<1>3. Nat \subseteq G
  BY <1>1, <1>2, EveryNatural
<1>4. \A s \in Seq(A) : s \in Good
  <2> TAKE s \in Seq(A)
  <2>1. Len(s) \in G
    BY <1>3
  <2> QED BY <2>1 DEF G
<1> QED BY <1>4

-----------------------------------------------------------------------------
\* Filters

KeptTurn(f, s, T, i) ==
    IF i = 0 THEN <<>> ELSE IF s[i] \in T THEN Append(f[i - 1], s[i]) ELSE f[i - 1]
KeptTo(f, n, s, T) == f = [i \in 0..n |-> KeptTurn(f, s, T, i)]

LEMMA KeptAt ==
  ASSUME NEW f, NEW n, NEW s, NEW T, KeptTo(f, n, s, T), NEW i \in 0..n
  PROVE  f[i] = KeptTurn(f, s, T, i)
  BY Zenon DEF KeptTo

\* The recursion of Kept has a solution.
LEMMA KeptExists ==
  ASSUME NEW s, NEW T
  PROVE  \A n \in Nat : \E f : KeptTo(f, n, s, T)
<1> DEFINE Good == {n \in Nat : \E f : KeptTo(f, n, s, T)}
<1>1. 0 \in Good
  <2> DEFINE f == [i \in 0..0 |-> <<>>]
  <2>1. f = [i \in 0..0 |-> KeptTurn(f, s, T, i)]
    BY DEF KeptTurn
  <2> HIDE DEF f
  <2> QED BY <2>1 DEF KeptTo
<1>2. ASSUME NEW n \in Nat, n \in Good
      PROVE  n + 1 \in Good
  <2>1. PICK f : KeptTo(f, n, s, T)
    BY <1>2
  <2> DEFINE h == [i \in 0..(n + 1) |-> KeptTurn(f, s, T, i)]
             e(i) == KeptTurn(h, s, T, i)
             d(i) == KeptTurn(f, s, T, i)
  <2>2. ASSUME NEW i \in 0..(n + 1)
        PROVE  e(i) = d(i)
    <3>1. CASE i = 0
      BY <3>1 DEF KeptTurn
    <3>2. CASE i # 0
      <4>1. i - 1 \in 0..n /\ i - 1 \in 0..(n + 1)
        BY <3>2
      <4>2. f[i - 1] = KeptTurn(f, s, T, i - 1)
        BY <2>1, <4>1, KeptAt
      <4>3. h[i - 1] = KeptTurn(f, s, T, i - 1)
        BY <4>1
      <4> HIDE DEF h
      <4>4. h[i - 1] = f[i - 1]
        BY <4>2, <4>3
      <4> QED BY <3>2, <4>4 DEF KeptTurn
    <3> QED BY <3>1, <3>2
  <2>3. h = [i \in 0..(n + 1) |-> d(i)]
    OBVIOUS
  <2> HIDE DEF h, d, e
  <2>4. h = [i \in 0..(n + 1) |-> e(i)]
    BY <2>2, <2>3
  <2>5. KeptTo(h, n + 1, s, T)
    BY <2>4 DEF e, KeptTo
  <2> QED BY <1>2, <2>5
<1> HIDE DEF Good
<1>3. Nat \subseteq Good
  BY <1>1, <1>2, EveryNatural
<1> QED BY <1>3 DEF Good

\* Two sequences are filtered alike as far as they agree.
LEMMA KeptAlike ==
  ASSUME NEW f, NEW h, NEW s, NEW t, NEW T, NEW n \in Nat, NEW m \in Nat, n <= m,
         KeptTo(f, n, s, T), KeptTo(h, m, t, T), \A i \in 1..n : s[i] = t[i]
  PROVE  f[n] = h[n]
<1> DEFINE Good == {i \in Nat : i <= n => f[i] = h[i]}
<1>1. 0 \in Good
  <2>1. 0 \in 0..n /\ 0 \in 0..m
    OBVIOUS
  <2>2. f[0] = KeptTurn(f, s, T, 0) /\ h[0] = KeptTurn(h, t, T, 0)
    BY <2>1, KeptAt
  <2> QED BY <2>2 DEF KeptTurn
<1>2. ASSUME NEW i \in Nat, i \in Good
      PROVE  i + 1 \in Good
  <2> SUFFICES ASSUME i + 1 <= n PROVE f[i + 1] = h[i + 1]
    OBVIOUS
  <2>1. i + 1 \in 0..n /\ i + 1 \in 0..m /\ i + 1 \in 1..n /\ i + 1 # 0 /\ (i + 1) - 1 = i /\ i <= n
    OBVIOUS
  <2>2. f[i + 1] = KeptTurn(f, s, T, i + 1) /\ h[i + 1] = KeptTurn(h, t, T, i + 1)
    BY <2>1, KeptAt
  <2>3. f[i] = h[i] /\ s[i + 1] = t[i + 1]
    BY <1>2, <2>1
  <2> HIDE DEF Good
  <2> QED BY <2>1, <2>2, <2>3 DEF KeptTurn
<1> HIDE DEF Good
<1>3. Nat \subseteq Good
  BY <1>1, <1>2, EveryNatural
<1>4. n \in Good
  BY <1>3
<1> QED BY <1>4 DEF Good

LEMMA ToSetAppend ==
  ASSUME NEW A, NEW s \in Seq(A), NEW x \in A
  PROVE  ToSet(Append(s, x)) = ToSet(s) \cup {x}
<1>1. PICK n \in Nat : n = Len(s)
  OBVIOUS
<1>2. /\ DOMAIN s = 1..n /\ DOMAIN Append(s, x) = 1..(n + 1)
      /\ Append(s, x)[n + 1] = x /\ \A i \in 1..n : Append(s, x)[i] = s[i]
  BY <1>1
<1>3. 1..(n + 1) = (1..n) \cup {n + 1}
  OBVIOUS
<1> QED BY <1>2, <1>3 DEF ToSet

LEMMA KeptIs ==
  ASSUME NEW s, NEW T, Len(s) \in Nat
  PROVE  \E f : KeptTo(f, Len(s), s, T) /\ Kept(s, T) = f[Len(s)]
<1> DEFINE f == CHOOSE x : KeptTo(x, Len(s), s, T)
<1>1. KeptTo(f, Len(s), s, T)
  BY KeptExists
<1>2. Kept(s, T) = f[Len(s)]
  BY DEF Kept, KeptTo, KeptTurn
<1> QED BY <1>1, <1>2

LEMMA KeptEmpty ==
  ASSUME NEW T
  PROVE  Kept(<<>>, T) = <<>>
<1>1. Len(<<>>) = 0
  BY EmptySeq
<1>2. PICK f : KeptTo(f, 0, <<>>, T) /\ Kept(<<>>, T) = f[0]
  BY <1>1, KeptIs
<1>3. f[0] = KeptTurn(f, <<>>, T, 0)
  BY <1>2, KeptAt
<1> QED BY <1>2, <1>3 DEF KeptTurn

LEMMA KeptAppend ==
  ASSUME NEW A, NEW T, NEW s \in Seq(A), NEW x \in A
  PROVE  Kept(Append(s, x), T) = IF x \in T THEN Append(Kept(s, T), x) ELSE Kept(s, T)
<1> DEFINE t == Append(s, x)
<1>1. PICK n \in Nat : n = Len(s)
  OBVIOUS
<1>2. Len(t) = n + 1 /\ t[n + 1] = x /\ \A i \in 1..n : s[i] = t[i]
  BY <1>1
<1> HIDE DEF t
<1>3. PICK f : KeptTo(f, n, s, T) /\ Kept(s, T) = f[n]
  BY <1>1, KeptIs
<1>4. PICK h : KeptTo(h, n + 1, t, T) /\ Kept(t, T) = h[n + 1]
  BY <1>2, KeptIs
<1>5. f[n] = h[n]
  <2>1. n + 1 \in Nat /\ n <= n + 1
    OBVIOUS
  <2> QED BY <1>2, <1>3, <1>4, <2>1, KeptAlike
<1>6. h[n + 1] = KeptTurn(h, t, T, n + 1)
  <2>1. n + 1 \in 0..(n + 1)
    OBVIOUS
  <2> QED BY <1>4, <2>1, KeptAt
<1>7. n + 1 # 0 /\ (n + 1) - 1 = n
  OBVIOUS
<1>8. Kept(t, T) = IF x \in T THEN Append(f[n], x) ELSE f[n]
  BY <1>2, <1>4, <1>5, <1>6, <1>7 DEF KeptTurn
<1> QED BY <1>3, <1>8 DEF t

\* What is kept: the elements of the set, and nothing else.
LEMMA KeptSays ==
  ASSUME NEW A, NEW T
  PROVE  \A s \in Seq(A) : Kept(s, T) \in Seq(A) /\ ToSet(Kept(s, T)) = ToSet(s) \cap T
<1> DEFINE Good == {s \in Seq(A) : Kept(s, T) \in Seq(A) /\ ToSet(Kept(s, T)) = ToSet(s) \cap T}
<1>1. <<>> \in Good
  <2>1. <<>> \in Seq(A) /\ ToSet(<<>>) = {}
    BY EmptySeq DEF ToSet
  <2> QED BY <2>1, KeptEmpty
<1>2. ASSUME NEW s \in Seq(A), NEW x \in A, s \in Good
      PROVE  Append(s, x) \in Good
  <2>1. Kept(s, T) \in Seq(A) /\ ToSet(Kept(s, T)) = ToSet(s) \cap T
    BY <1>2
  <2>2. ToSet(Append(s, x)) = ToSet(s) \cup {x}
    BY ToSetAppend
  <2>3. Append(s, x) \in Seq(A)
    OBVIOUS
  <2>4. CASE x \in T
    <3>1. Kept(Append(s, x), T) = Append(Kept(s, T), x)
      BY <2>4, KeptAppend
    <3>2. ToSet(Append(Kept(s, T), x)) = ToSet(Kept(s, T)) \cup {x}
      BY <2>1, ToSetAppend
    <3>3. ToSet(Kept(Append(s, x), T)) = ToSet(Append(s, x)) \cap T
      BY <2>1, <2>2, <2>4, <3>1, <3>2
    <3>4. Kept(Append(s, x), T) \in Seq(A)
      BY <2>1, <3>1
    <3> QED BY <2>3, <3>3, <3>4
  <2>5. CASE x \notin T
    <3>1. Kept(Append(s, x), T) = Kept(s, T)
      BY <2>5, KeptAppend
    <3> QED BY <2>1, <2>2, <2>3, <2>5, <3>1
  <2> QED BY <2>4, <2>5
<1> HIDE DEF Good
<1>3. Seq(A) \subseteq Good
  BY <1>1, <1>2, EverySequence
<1> QED BY <1>3 DEF Good

\* A second filter that asks for less changes nothing.
LEMMA KeptTwice ==
  ASSUME NEW A, NEW T, NEW U, A \cap T \subseteq U
  PROVE  \A s \in Seq(A) : Kept(Kept(s, U), T) = Kept(s, T)
<1> DEFINE Good == {s \in Seq(A) : Kept(Kept(s, U), T) = Kept(s, T)}
<1>1. <<>> \in Good
  BY EmptySeq, KeptEmpty
<1>2. ASSUME NEW s \in Seq(A), NEW x \in A, s \in Good
      PROVE  Append(s, x) \in Good
  <2>1. Kept(s, U) \in Seq(A) /\ Append(s, x) \in Seq(A) /\ Kept(Kept(s, U), T) = Kept(s, T)
    BY <1>2, KeptSays
  <2>2. Kept(Append(s, x), T) = IF x \in T THEN Append(Kept(s, T), x) ELSE Kept(s, T)
    BY KeptAppend
  <2>3. CASE x \in U
    <3>1. Kept(Append(s, x), U) = Append(Kept(s, U), x)
      BY <2>3, KeptAppend
    <3>2. Kept(Append(Kept(s, U), x), T)
            = IF x \in T THEN Append(Kept(Kept(s, U), T), x) ELSE Kept(Kept(s, U), T)
      BY <2>1, KeptAppend
    <3> QED BY <2>1, <2>2, <3>1, <3>2
  <2>4. CASE x \notin U
    <3>1. Kept(Append(s, x), U) = Kept(s, U) /\ x \notin T
      BY <2>4, KeptAppend
    <3> QED BY <2>1, <2>2, <3>1
  <2> QED BY <2>3, <2>4
<1> HIDE DEF Good
<1>3. Seq(A) \subseteq Good
  BY <1>1, <1>2, EverySequence
<1> QED BY <1>3 DEF Good

\* A filter that lets everything pass.
LEMMA KeptAll ==
  ASSUME NEW A, NEW T, A \subseteq T
  PROVE  \A s \in Seq(A) : Kept(s, T) = s
<1> DEFINE Good == {s \in Seq(A) : Kept(s, T) = s}
<1>1. <<>> \in Good
  BY EmptySeq, KeptEmpty
<1>2. ASSUME NEW s \in Seq(A), NEW x \in A, s \in Good
      PROVE  Append(s, x) \in Good
  <2>1. Kept(s, T) = s /\ Append(s, x) \in Seq(A) /\ x \in T
    BY <1>2
  <2>2. Kept(Append(s, x), T) = Append(Kept(s, T), x)
    BY <2>1, KeptAppend
  <2> QED BY <2>1, <2>2
<1> HIDE DEF Good
<1>3. Seq(A) \subseteq Good
  BY <1>1, <1>2, EverySequence
<1> QED BY <1>3 DEF Good

-----------------------------------------------------------------------------
\* Counting keys

Times(k, s) == Cardinality({i \in DOMAIN s : s[i] = k})

LEMMA TimesEmpty ==
  ASSUME NEW k
  PROVE  Times(k, <<>>) = 0
<1>1. {i \in DOMAIN <<>> : <<>>[i] = k} = {}
  BY EmptySeq
<1> QED BY <1>1, FS_EmptySet DEF Times

LEMMA TimesAppend ==
  ASSUME NEW A, NEW s \in Seq(A), NEW x \in A, NEW k
  PROVE  /\ Times(k, s) \in Nat
         /\ Times(k, Append(s, x)) = Times(k, s) + (IF x = k THEN 1 ELSE 0)
<1> DEFINE t == Append(s, x)
           P(q) == {i \in DOMAIN q : q[i] = k}
<1>1. PICK n \in Nat : n = Len(s)
  OBVIOUS
<1>2. /\ DOMAIN s = 1..n /\ DOMAIN t = 1..(n + 1)
      /\ t[n + 1] = x /\ \A i \in 1..n : t[i] = s[i]
  BY <1>1
<1>3. IsFiniteSet(1..n) /\ P(s) \subseteq 1..n /\ n + 1 \notin 1..n
  <2>1. IsFiniteSet(1..n)
    <3>1. 1 \in Int /\ n \in Int
      OBVIOUS
    <3> QED BY <3>1, FS_Interval
  <2>2. P(s) \subseteq 1..n
    BY <1>2
  <2>3. n + 1 \notin 1..n
    OBVIOUS
  <2> QED BY <2>1, <2>2, <2>3
<1>4. IsFiniteSet(P(s)) /\ n + 1 \notin P(s)
  BY <1>3, FS_Subset
<1>5. Cardinality(P(s)) \in Nat
  BY <1>4, FS_CardinalityType
<1>6. P(t) = IF x = k THEN P(s) \cup {n + 1} ELSE P(s)
  <2>1. 1..(n + 1) = (1..n) \cup {n + 1}
    OBVIOUS
  <2> QED BY <1>2, <2>1
<1>7. Cardinality(P(s) \cup {n + 1}) = Cardinality(P(s)) + 1
  BY <1>4, FS_AddElement
<1> HIDE DEF P, t
<1>8. Cardinality(P(t)) = Cardinality(P(s)) + (IF x = k THEN 1 ELSE 0)
  BY <1>5, <1>6, <1>7
<1> QED BY <1>5, <1>8 DEF P, t, Times

LEMMA TimesMember ==
  ASSUME NEW A, NEW s \in Seq(A), NEW k, k \notin ToSet(s)
  PROVE  Times(k, s) = 0
<1>1. {i \in DOMAIN s : s[i] = k} = {}
  BY DEF ToSet
<1> QED BY <1>1, FS_EmptySet DEF Times

-----------------------------------------------------------------------------
\* What a handler makes of a record

Visible == Keys \ {"hint"}
Entry == [level: Levels, keys: Seq(Visible)]
Handler == [attrs: Seq(Visible), hasRequest: BOOLEAN, hasTrace: BOOLEAN, level: {1}, requests: Nat]
Tails == {<<"user">>, <<"user", "request_id">>, <<"user", "trace_id">>,
          <<"user", "request_id", "trace_id">>}

LEMMA Tuples ==
  ASSUME NEW A, NEW x \in A, NEW y \in A, NEW z \in A
  PROVE  /\ Append(<<x>>, y) = <<x, y>> /\ <<x>> \o <<y>> = <<x, y>>
         /\ Append(<<x, y>>, z) = <<x, y, z>>
<1>1. <<x>> \in Seq(A) /\ <<y>> \in Seq(A) /\ <<x, y>> \in Seq(A) /\ <<x, y, z>> \in Seq(A)
  OBVIOUS
<1>2. /\ Len(<<x>>) = 1 /\ Len(<<y>>) = 1 /\ Len(<<x, y>>) = 2 /\ Len(<<x, y, z>>) = 3
      /\ <<x>>[1] = x /\ <<y>>[1] = y /\ <<x, y>>[1] = x /\ <<x, y>>[2] = y
      /\ <<x, y, z>>[1] = x /\ <<x, y, z>>[2] = y /\ <<x, y, z>>[3] = z
  OBVIOUS
<1>3. Append(<<x>>, y) = <<x, y>>
  <2>1. Append(<<x>>, y) \in Seq(A) /\ Len(Append(<<x>>, y)) = 2
    BY <1>1, <1>2
  <2>2. ASSUME NEW i \in 1..2 PROVE Append(<<x>>, y)[i] = <<x, y>>[i]
    BY <1>1, <1>2
  <2> QED BY <1>1, <1>2, <2>1, <2>2, SeqEqual
<1>4. <<x>> \o <<y>> = <<x, y>>
  <2>1. <<x>> \o <<y>> \in Seq(A) /\ Len(<<x>> \o <<y>>) = 2
    BY <1>1, <1>2
  <2>2. ASSUME NEW i \in 1..2 PROVE (<<x>> \o <<y>>)[i] = <<x, y>>[i]
    BY <1>1, <1>2
  <2> QED BY <1>1, <1>2, <2>1, <2>2, SeqEqual
<1>5. Append(<<x, y>>, z) = <<x, y, z>>
  <2>1. Append(<<x, y>>, z) \in Seq(A) /\ Len(Append(<<x, y>>, z)) = 3
    BY <1>1, <1>2
  <2>2. ASSUME NEW i \in 1..3 PROVE Append(<<x, y>>, z)[i] = <<x, y, z>>[i]
    BY <1>1, <1>2
  <2> QED BY <1>1, <1>2, <2>1, <2>2, SeqEqual
<1> QED BY <1>3, <1>4, <1>5

LEMMA HintsDropped ==
  ASSUME NEW keys \in Messages
  PROVE  /\ keys \in Seq(Keys)
         /\ WithoutHints(keys) = <<"user">>
         /\ WithoutHints(keys \o <<"request_id">>) = <<"user", "request_id">>
         /\ WithoutHints(keys \o <<"trace_id">>) = <<"user", "trace_id">>
         /\ WithoutHints(keys \o <<"request_id", "trace_id">>)
              = <<"user", "request_id", "trace_id">>
<1>0. "hint" \in Keys /\ "user" \in Keys /\ "request_id" \in Keys /\ "trace_id" \in Keys
  BY DEF Keys
<1>1. keys \in Seq(Keys) /\ <<"hint">> \in Seq(Keys) /\ <<"hint", "user">> \in Seq(Keys) /\ <<>> \in Seq(Keys)
  <2>1. \A x, y, z \in Keys : <<x>> \in Seq(Keys) /\ <<x, y>> \in Seq(Keys) /\ <<x, y, z>> \in Seq(Keys)
    OBVIOUS
  <2>2. <<>> \in Seq(Keys)
    OBVIOUS
  <2> QED BY <1>0, <2>1, <2>2 DEF Messages
<1>2. \A s \in Seq(Keys), x \in Keys :
        WithoutHints(Append(s, x)) = IF x # "hint" THEN Append(WithoutHints(s), x) ELSE WithoutHints(s)
  <2> TAKE s \in Seq(Keys), x \in Keys
  <2>1. x \in Visible <=> x # "hint"
    BY DEF Visible
  <2>2. Kept(Append(s, x), Visible) = IF x \in Visible THEN Append(Kept(s, Visible), x) ELSE Kept(s, Visible)
    BY KeptAppend
  <2> QED BY <2>1, <2>2 DEF WithoutHints, Visible
<1>3. WithoutHints(<<>>) = <<>>
  BY KeptEmpty DEF WithoutHints
<1>4. {"hint", "user", "request_id", "trace_id"} \subseteq Keys
  BY DEF Keys
<1>5. WithoutHints(keys) = <<"user">>
  <2>1. CASE keys = <<"user">>
    <3>1. keys = Append(<<>>, "user")
      BY <2>1
    <3>2. WithoutHints(Append(<<>>, "user")) = Append(WithoutHints(<<>>), "user")
      BY <1>0, <1>1, <1>2
    <3> QED BY <1>3, <2>1, <3>1, <3>2
  <2>2. CASE keys = <<"hint", "user", "hint">>
    <3>1. keys = Append(<<"hint", "user">>, "hint") /\ <<"hint", "user">> = Append(<<"hint">>, "user")
          /\ <<"hint">> = Append(<<>>, "hint")
      BY <2>2
    <3>2. WithoutHints(<<"hint">>) = <<>>
      BY <1>1, <1>2, <1>3, <1>4, <3>1
    <3>3. WithoutHints(<<"hint", "user">>) = Append(<<>>, "user")
      BY ZenonT(30), <1>0, <1>1, <1>2, <3>1, <3>2
    <3>4. WithoutHints(Append(<<"hint", "user">>, "hint")) = WithoutHints(<<"hint", "user">>)
      BY <1>0, <1>1, <1>2
    <3>5. Append(<<>>, "user") = <<"user">>
      OBVIOUS
    <3> QED BY <3>1, <3>3, <3>4, <3>5
  <2> QED BY <2>1, <2>2 DEF Messages
<1>6. /\ keys \o <<"request_id">> = Append(keys, "request_id")
      /\ keys \o <<"trace_id">> = Append(keys, "trace_id")
      /\ keys \o <<"request_id", "trace_id">> = Append(Append(keys, "request_id"), "trace_id")
      /\ Append(keys, "request_id") \in Seq(Keys)
  BY <1>1, <1>4
<1>7. WithoutHints(Append(keys, "request_id")) = Append(<<"user">>, "request_id")
  BY <1>1, <1>2, <1>4, <1>5
<1>8. WithoutHints(Append(keys, "trace_id")) = Append(<<"user">>, "trace_id")
  BY <1>1, <1>2, <1>4, <1>5
<1>9. WithoutHints(Append(Append(keys, "request_id"), "trace_id")) = Append(Append(<<"user">>, "request_id"), "trace_id")
  BY <1>2, <1>4, <1>6, <1>7
<1>10. Append(<<"user">>, "request_id") = <<"user", "request_id">>
  BY <1>0, Tuples
<1>11. Append(<<"user">>, "trace_id") = <<"user", "trace_id">>
  BY <1>0, Tuples
<1>12. Append(<<"user", "request_id">>, "trace_id") = <<"user", "request_id", "trace_id">>
  BY <1>0, Tuples
<1>13. WithoutHints(keys \o <<"request_id">>) = <<"user", "request_id">>
  BY <1>6, <1>7, <1>10
<1>14. WithoutHints(keys \o <<"trace_id">>) = <<"user", "trace_id">>
  BY <1>6, <1>8, <1>11
<1>15. WithoutHints(keys \o <<"request_id", "trace_id">>) = <<"user", "request_id", "trace_id">>
  BY <1>6, <1>9, <1>10, <1>12
<1> QED BY <1>1, <1>5, <1>13, <1>14, <1>15

LEMMA HandledIs ==
  ASSUME NEW h \in Handler, NEW l \in Levels, NEW keys \in Messages, NEW ctx
  PROVE  \E w \in Tails :
           /\ Handled(h, Record(l, keys), ctx) = Record(l, h.attrs \o w)
           /\ h.hasRequest => w \in {<<"user">>, <<"user", "trace_id">>}
<1>1. keys \in Seq(Keys)
  BY HintsDropped
<1>2. ContextKeys(h, ctx) \in {<<>>, <<"request_id">>, <<"trace_id">>, <<"request_id", "trace_id">>}
      /\ (h.hasRequest => ContextKeys(h, ctx) \in {<<>>, <<"trace_id">>})
  <2> DEFINE req == "request_id" \in ctx /\ ~h.hasRequest
             tr == "trace_id" \in ctx /\ ~h.hasTrace
  <2>1. ContextKeys(h, ctx) = (IF req THEN <<"request_id">> ELSE <<>>)
                              \o (IF tr THEN <<"trace_id">> ELSE <<>>)
    BY DEF ContextKeys
  <2>2. h.hasRequest => ~req
    OBVIOUS
  <2> HIDE DEF req, tr
  <2>3. CASE req /\ tr
    <3>1. "request_id" \in Keys /\ "trace_id" \in Keys
      BY DEF Keys
    <3>2. <<"request_id">> \o <<"trace_id">> = <<"request_id", "trace_id">>
      BY <3>1, Tuples
    <3> QED BY <2>1, <2>2, <2>3, <3>2
  <2>4. CASE req /\ ~tr
    <3>1. <<"request_id">> \o <<>> = <<"request_id">>
      OBVIOUS
    <3> QED BY <2>1, <2>2, <2>4, <3>1
  <2>5. CASE ~req /\ tr
    <3>1. <<>> \o <<"trace_id">> = <<"trace_id">>
      OBVIOUS
    <3> QED BY <2>1, <2>2, <2>5, <3>1
  <2>6. CASE ~req /\ ~tr
    <3>1. <<>> \o <<>> = <<>>
      OBVIOUS
    <3> QED BY <2>1, <2>2, <2>6, <3>1
  <2> QED BY <2>3, <2>4, <2>5, <2>6
<1>3. keys \o <<>> = keys
  BY <1>1
<1>4. Handled(h, Record(l, keys), ctx) = Record(l, h.attrs \o WithoutHints(keys \o ContextKeys(h, ctx)))
  BY DEF Handled, Record
<1> QED BY <1>2, <1>3, <1>4, HintsDropped DEF Tails

LEMMA HandledSays ==
  ASSUME NEW h \in Handler, NEW l \in Levels, NEW keys \in Messages, NEW ctx,
         Times("request_id", h.attrs) = h.requests, h.requests > 0 => h.hasRequest
  PROVE  LET r == Handled(h, Record(l, keys), ctx)
         IN /\ r \in Entry /\ r.level = l
            /\ Times("request_id", r.keys) <= 1 \/ Times("request_id", r.keys) = h.requests
<1> DEFINE a == h.attrs
<1>1. PICK w \in Tails : /\ Handled(h, Record(l, keys), ctx) = Record(l, h.attrs \o w)
                         /\ h.hasRequest => w \in {<<"user">>, <<"user", "trace_id">>}
  BY HandledIs
<1>2. a \in Seq(Visible) /\ h.requests \in Nat
  BY DEF Handler
<1>3. {"user", "request_id", "trace_id"} \subseteq Visible
  BY DEF Visible, Keys
<1> HIDE DEF a
<1> DEFINE u == Append(a, "user")
           v == Append(u, "request_id")
<1>4. u \in Seq(Visible) /\ v \in Seq(Visible)
  BY <1>2, <1>3
<1>5. /\ a \o <<"user">> = u /\ a \o <<"user", "request_id">> = v
      /\ a \o <<"user", "trace_id">> = Append(u, "trace_id")
      /\ a \o <<"user", "request_id", "trace_id">> = Append(v, "trace_id")
  BY <1>2, <1>3
<1>6. Times("request_id", u) = h.requests
  <2>1. Times("request_id", u) = Times("request_id", a) + 0
    BY <1>2, <1>3, TimesAppend
  <2> QED BY <1>2, <2>1 DEF a
<1> HIDE DEF u, v
<1>7. Times("request_id", v) = h.requests + 1
  BY <1>3, <1>4, <1>6, TimesAppend DEF v
<1>8. Times("request_id", Append(u, "trace_id")) = h.requests
  <2>1. Times("request_id", Append(u, "trace_id")) = Times("request_id", u) + 0
    BY <1>3, <1>4, TimesAppend
  <2> QED BY <1>2, <1>6, <2>1
<1>9. Times("request_id", Append(v, "trace_id")) = h.requests + 1
  <2>1. Times("request_id", Append(v, "trace_id")) = Times("request_id", v) + 0
    BY <1>3, <1>4, TimesAppend
  <2> QED BY <1>2, <1>7, <2>1
<1>10. a \o w \in {u, v, Append(u, "trace_id"), Append(v, "trace_id")}
       /\ (h.hasRequest => a \o w \in {u, Append(u, "trace_id")})
  BY <1>1, <1>5 DEF Tails
<1>11. a \o w \in Seq(Visible)
  <2>1. "trace_id" \in Visible
    BY <1>3
  <2>2. Append(u, "trace_id") \in Seq(Visible) /\ Append(v, "trace_id") \in Seq(Visible)
    BY <1>4, <2>1
  <2> QED BY <1>4, <1>10, <2>2
<1>12. Times("request_id", a \o w) <= 1 \/ Times("request_id", a \o w) = h.requests
  <2>1. CASE h.hasRequest
    BY <1>6, <1>8, <1>10, <2>1
  <2>2. CASE ~h.hasRequest
    <3>1. h.requests = 0
      BY <1>2, <2>2
    <3>2. /\ Times("request_id", u) = 0 /\ Times("request_id", v) = 1
          /\ Times("request_id", Append(u, "trace_id")) = 0
          /\ Times("request_id", Append(v, "trace_id")) = 1
      BY <1>6, <1>7, <1>8, <1>9, <3>1
    <3>3. Times("request_id", a \o w) \in {0, 1}
      BY <1>10, <3>2
    <3> QED BY <3>3
  <2> QED BY <2>1, <2>2
<1>13. Handled(h, Record(l, keys), ctx) = [level |-> l, keys |-> a \o w]
  BY <1>1 DEF Record, a
<1> QED BY <1>11, <1>12, <1>13 DEF Entry

-----------------------------------------------------------------------------
\* What reaches the writers

LEMMA Delivered ==
  ASSUME NEW q \in Seq(Entry), NEW min, NEW s \in Sinks
  PROVE  /\ Deliver(q, min) \in [Sinks -> Seq(Entry)]
         /\ ToSet(Deliver(q, min)[s]) \subseteq ToSet(q)
         /\ Contains(sinks, s) /\ (s = "file" => ~broken) =>
              /\ \A r \in ToSet(q) : r.level >= min => r \in ToSet(Deliver(q, min)[s])
              /\ \A D : (\A r \in D : r.level >= min) => Kept(Deliver(q, min)[s], D) = Kept(q, D)
<1> DEFINE U(x) == {r \in ToSet(q) : Delivers(x, r.level, min)}
<1>1. Deliver(q, min) = [x \in Sinks |-> Kept(q, U(x))]
  BY DEF Deliver
<1>2. \A x \in Sinks : Kept(q, U(x)) \in Seq(Entry) /\ ToSet(Kept(q, U(x))) = ToSet(q) \cap U(x)
  BY KeptSays
<1>3. q \in Seq(ToSet(q))
  BY DEF ToSet
<1>4. ASSUME Contains(sinks, s), s = "file" => ~broken
      PROVE  /\ \A r \in ToSet(q) : r.level >= min => r \in U(s)
             /\ \A D : (\A r \in D : r.level >= min) => Kept(Kept(q, U(s)), D) = Kept(q, D)
  <2>1. \A r \in ToSet(q) : r.level >= min => r \in U(s)
    BY <1>4 DEF Delivers
  <2>2. ASSUME NEW D, \A r \in D : r.level >= min
        PROVE  Kept(Kept(q, U(s)), D) = Kept(q, D)
    <3>1. ToSet(q) \cap D \subseteq U(s)
      BY <2>1, <2>2
    <3> HIDE DEF U
    <3> QED BY <1>3, <3>1, KeptTwice
  <2> QED BY <2>1, <2>2
<1> HIDE DEF U
<1>5. Deliver(q, min)[s] = Kept(q, U(s))
  BY <1>1
<1>6. Deliver(q, min) \in [Sinks -> Seq(Entry)]
  BY <1>1, <1>2
<1> QED BY <1>2, <1>4, <1>5, <1>6

-----------------------------------------------------------------------------
\* The invariant

Queued == {Record(l, <<"user">>) : l \in Levels}

\* A logger counts the identifiers it has stamped.
HandlerOK(h) ==
    h \in Handler /\ Times("request_id", h.attrs) = h.requests /\ (h.requests > 0 => h.hasRequest)

\* A record has the identifiers of its logger, or one of its context.
OnceOK(r) ==
    \/ Times("request_id", r.keys) <= 1
    \/ \E i \in DOMAIN loggers : Times("request_id", r.keys) = loggers[i].requests

Started ==
    /\ sinks \in Seq(Sinks) \ {<<>>}
    /\ levels \in Seq(Levels) /\ Len(levels) = 1
    /\ loggers \in Seq(Handler) /\ Len(loggers) >= 1
    /\ \A i \in DOMAIN loggers : HandlerOK(loggers[i])

LoggingInv ==
    /\ at \in {"starting", "created", "flushed", "running", "exited"}
    /\ pre.records \in Seq(Queued)
    /\ broken \in BOOLEAN /\ (broken => at = "running")
    /\ IF at = "starting"
       THEN sinks = <<>> /\ levels = <<>> /\ loggers = <<>> /\ written = Nothing /\ called = <<>>
       ELSE Started
    /\ written \in [Sinks -> Seq(Entry)] /\ called \in Seq(Entry)
    /\ \A s \in Sinks : \A r \in ToSet(written[s]) : OnceOK(r)
    /\ NeverMute /\ ReplayedInOrder

LEMMA NothingWritten ==
  /\ Nothing \in [Sinks -> Seq(Entry)] /\ <<>> \in Seq(Entry) /\ ToSet(<<>>) = {}
  /\ \A s \in Sinks : ToSet(Nothing[s]) = {}
  BY EmptySeq DEF Nothing, ToSet

LEMMA LoggingBegin ==
  Init => LoggingInv
<1> SUFFICES ASSUME Init PROVE LoggingInv
  OBVIOUS
<1>1. pre.records = <<>> /\ <<>> \in Seq(Queued)
  BY EmptySeq DEF Init
<1> QED BY <1>1, NothingWritten DEF Init, LoggingInv, NeverMute, ReplayedInOrder

\* A call that writes nothing.
LEMMA Silent ==
  ASSUME LoggingInv, at # "starting", at' \in {"running", "exited"}, written' = Nothing, called' = <<>>,
         pre'.records \in Seq(Queued), broken' \in BOOLEAN, broken' => at' = "running", Started'
  PROVE  LoggingInv'
<1>1. NeverMute'
  BY NothingWritten DEF NeverMute, Started
<1>2. ReplayedInOrder'
  BY DEF ReplayedInOrder
<1>3. \A s \in Sinks : ToSet(written'[s]) = {}
  BY NothingWritten
<1> QED BY <1>1, <1>2, <1>3, NothingWritten DEF LoggingInv

\* A call that hands records to the handler of a logger.
LEMMA Written ==
  ASSUME LoggingInv, at # "starting", NEW q \in Seq(Entry),
         \A r \in ToSet(q) : OnceOK(r),
         called' = q, written' = Deliver(q, levels[1]),
         UNCHANGED <<sinks, broken, levels, loggers>>,
         at' \in {"flushed", "running"}, at' # "running" => ~broken, pre'.records \in Seq(Queued)
  PROVE  LoggingInv'
<1>1. Started /\ Started'
  BY DEF LoggingInv, Started, HandlerOK
<1>2. Deliver(q, levels[1]) \in [Sinks -> Seq(Entry)]
  BY Delivered DEF Sinks
<1>3. \A s \in Sinks : \A r \in ToSet(written'[s]) : OnceOK(r)'
  <2> SUFFICES ASSUME NEW s \in Sinks, NEW r \in ToSet(written'[s]) PROVE OnceOK(r)'
    OBVIOUS
  <2>1. r \in ToSet(q)
    BY Delivered
  <2>2. OnceOK(r)
    BY <2>1
  <2> QED BY <2>2 DEF OnceOK
<1>4. NeverMute'
  <2> SUFFICES ASSUME NEW s \in ToSet(sinks), s = "file" => ~broken,
                      NEW r \in ToSet(q), r.level >= levels[1]
               PROVE  r \in ToSet(Deliver(q, levels[1])[s])
    BY <1>1 DEF NeverMute, Started
  <2>1. s \in Sinks /\ Contains(sinks, s)
    BY <1>1 DEF Started, ToSet, Contains
  <2> QED BY <2>1, Delivered
<1>5. ReplayedInOrder'
  <2> SUFFICES ASSUME at' = "flushed", NEW s \in Sinks, Contains(sinks, s), NEW D,
                      \A r \in D : r.level >= levels[1]
               PROVE  Kept(Deliver(q, levels[1])[s], D) = Kept(q, D)
    BY DEF ReplayedInOrder
  <2>1. ~broken
    OBVIOUS
  <2> QED BY SMTT(30), <2>1, Delivered
<1> QED BY <1>1, <1>2, <1>3, <1>4, <1>5 DEF LoggingInv

LEMMA PreRecordInv ==
  ASSUME LoggingInv, NEW l \in Levels, PreRecord(l)
  PROVE  LoggingInv'
<1>1. /\ at = "starting" /\ pre' = [pre EXCEPT !.records = Append(@, Record(l, <<"user">>))]
      /\ UNCHANGED <<at, sinks, broken, levels, loggers, written, called>>
  BY DEF PreRecord
<1>2. pre'.records \in Seq(Queued)
  <2> DEFINE r == Record(l, <<"user">>)
  <2>1. pre.records \in Seq(Queued) /\ r \in Queued
    BY DEF LoggingInv, Queued
  <2>2. pre'.records = Append(pre.records, r) \/ pre'.records = pre.records
    BY <1>1
  <2> HIDE DEF r
  <2>3. Append(pre.records, r) \in Seq(Queued)
    BY <2>1
  <2> QED BY <2>1, <2>2, <2>3
<1>3. NeverMute' /\ ReplayedInOrder'
  BY <1>1 DEF NeverMute, ReplayedInOrder
<1>4. \A s \in Sinks : ToSet(written'[s]) = {}
  BY <1>1, NothingWritten DEF LoggingInv
<1> QED BY <1>1, <1>2, <1>3, <1>4 DEF LoggingInv

LEMMA RootIs ==
  HandlerOK(Root) /\ Record(Warn, Root.attrs \o <<"user">>) \in Entry
  /\ Times("request_id", Root.attrs \o <<"user">>) = 0
<1> DEFINE a == <<"program", "unit", "run_id">>
<1>1. {"program", "unit", "run_id", "user"} \subseteq Visible /\ "request_id" \notin {"program", "unit", "run_id", "user"}
  BY DEF Visible, Keys
<1>2. a \in Seq({"program", "unit", "run_id", "user"})
  OBVIOUS
<1>3. a \in Seq(Visible) /\ "request_id" \notin ToSet(a)
  BY <1>1, <1>2 DEF ToSet
<1>4. Times("request_id", a) = 0
  BY <1>3, TimesMember
<1> HIDE DEF a
<1>5. a \o <<"user">> = Append(a, "user") /\ Append(a, "user") \in Seq(Visible)
  BY <1>1, <1>3
<1>6. Times("request_id", Append(a, "user")) = 0 + 0
  BY <1>1, <1>3, <1>4, TimesAppend
<1>7. Root = [attrs |-> a, hasRequest |-> FALSE, hasTrace |-> FALSE, level |-> 1, requests |-> 0]
  BY DEF Root, a
<1>8. Root.attrs = a /\ Root.requests = 0 /\ Root \in Handler
  <2>1. PICK b \in BOOLEAN : b = FALSE
    OBVIOUS
  <2> QED BY <1>3, <1>7, <2>1 DEF Handler
<1>9. Record(Warn, a \o <<"user">>) \in Entry
  BY <1>5 DEF Record, Warn, Entry, Levels
<1>10. HandlerOK(Root)
  BY <1>4, <1>8 DEF HandlerOK
<1>11. Times("request_id", a \o <<"user">>) = 0
  <2>1. 0 + 0 = 0
    OBVIOUS
  <2> QED BY <1>5, <1>6, <2>1, Zenon
<1> QED BY <1>8, <1>9, <1>10, <1>11

LEMMA NewInv ==
  ASSUME LoggingInv, NEW stderr \in BOOLEAN, NEW file \in BOOLEAN, NEW opens \in BOOLEAN,
         NEW l \in Levels, New(stderr, file, opens, l)
  PROVE  LoggingInv'
<1> DEFINE w == Record(Warn, Root.attrs \o <<"user">>)
           d == IF file /\ ~opens /\ Warn >= l THEN <<w>> ELSE <<>>
<1>1. /\ at = "starting" /\ at' = "created" /\ sinks' = resolveWriters(stderr, file, opens)
      /\ levels' = <<l>> /\ loggers' = <<Root>> /\ called' = d
      /\ written' = [s \in Sinks |-> IF Contains(sinks', s) THEN d ELSE <<>>]
      /\ UNCHANGED <<pre, broken>>
  BY DEF New
<1>2. w \in Entry /\ Times("request_id", w.keys) = 0
  BY RootIs DEF Record
<1> HIDE DEF w
<1>3. d \in Seq(Entry) /\ <<>> \in Seq(Entry) /\ ToSet(<<>>) = {} /\ ToSet(d) \subseteq {w}
  BY <1>2 DEF ToSet
<1> HIDE DEF d
<1>4. sinks' \in Seq(Sinks) \ {<<>>}
  <2> DEFINE e == IF stderr THEN <<"stderr">> ELSE <<>>
             f == IF file /\ opens THEN <<"file">> ELSE <<>>
  <2>0. "stderr" \in Sinks /\ "file" \in Sinks
    BY DEF Sinks
  <2>a. \A x \in Sinks : <<x>> \in Seq(Sinks) /\ <<x>> # <<>>
    OBVIOUS
  <2>b. <<>> \in Seq(Sinks)
    OBVIOUS
  <2>1. e \in Seq(Sinks) /\ f \in Seq(Sinks) /\ <<"stderr">> \in Seq(Sinks) /\ <<"stderr">> # <<>>
    BY <2>0, <2>a, <2>b
  <2>2. resolveWriters(stderr, file, opens) = IF e \o f = <<>> THEN <<"stderr">> ELSE e \o f
    BY DEF resolveWriters
  <2> HIDE DEF e, f
  <2>3. e \o f \in Seq(Sinks)
    BY <2>1
  <2> QED BY <1>1, <2>1, <2>2, <2>3
<1>5. levels' \in Seq(Levels) /\ Len(levels') = 1
  BY <1>1
<1>6. loggers' \in Seq(Handler) /\ Len(loggers') = 1 /\ DOMAIN loggers' = {1} /\ loggers'[1] = Root
  BY <1>1, RootIs DEF HandlerOK
<1>7. Started'
  <2>1. \A i \in DOMAIN loggers' : HandlerOK(loggers'[i])
    BY <1>6, RootIs
  <2> QED BY <1>4, <1>5, <1>6, <2>1 DEF Started, HandlerOK
<1>8. written' \in [Sinks -> Seq(Entry)]
  BY <1>1, <1>3
<1>9. \A s \in Sinks : \A r \in ToSet(written'[s]) : OnceOK(r)'
  BY <1>1, <1>2, <1>3 DEF OnceOK
<1>10. NeverMute'
  <2> SUFFICES ASSUME NEW s \in ToSet(sinks'), NEW r \in ToSet(d) PROVE r \in ToSet(written'[s])
    BY <1>1, <1>4 DEF NeverMute
  <2>1. s \in Sinks /\ Contains(sinks', s)
    BY <1>4 DEF ToSet, Contains
  <2>2. written'[s] = d
    BY <1>1, <2>1
  <2> QED BY <2>2
<1>11. ReplayedInOrder'
  BY <1>1 DEF ReplayedInOrder
<1> QED BY <1>1, <1>3, <1>7, <1>8, <1>9, <1>10, <1>11 DEF LoggingInv

LEMMA FlushInv ==
  ASSUME LoggingInv, Flush
  PROVE  LoggingInv'
<1> DEFINE q == [i \in DOMAIN pre.records |-> Handled(loggers[1], pre.records[i], {})]
<1>1. /\ at = "created" /\ at' = "flushed" /\ called' = q
      /\ written' = Deliver(q, LevelOf(loggers[1])) /\ pre' = [records |-> <<>>, flushed |-> TRUE]
      /\ UNCHANGED <<sinks, broken, levels, loggers>>
  BY DEF Flush
<1>2. Started /\ ~broken /\ pre.records \in Seq(Queued)
  BY <1>1 DEF LoggingInv
<1>3. 1 \in DOMAIN loggers /\ HandlerOK(loggers[1]) /\ LevelOf(loggers[1]) = levels[1]
  BY <1>2 DEF Started, HandlerOK, Handler, LevelOf
<1>4. ASSUME NEW i \in DOMAIN pre.records
      PROVE  LET r == Handled(loggers[1], pre.records[i], {})
             IN  r \in Entry /\ OnceOK(r)
  <2>1. PICK l \in Levels : pre.records[i] = Record(l, <<"user">>)
    BY <1>2 DEF Queued
  <2>2. <<"user">> \in Messages
    BY DEF Messages
  <2> QED BY <1>3, <2>1, <2>2, HandledSays DEF HandlerOK, OnceOK
<1>5. q \in Seq(Entry) /\ \A r \in ToSet(q) : OnceOK(r)
  <2>1. PICK n \in Nat : DOMAIN pre.records = 1..n
    BY <1>2
  <2>2. q \in [1..n -> Entry] /\ DOMAIN q = 1..n
    BY <1>4, <2>1
  <2>3. q \in Seq(Entry)
    BY <2>2, SeqDef
  <2>4. \A r \in ToSet(q) : OnceOK(r)
    BY <1>4, <2>1 DEF ToSet
  <2> QED BY <2>3, <2>4
<1>6. pre'.records \in Seq(Queued)
  BY <1>1
<1> HIDE DEF q
<1> QED BY <1>1, <1>2, <1>3, <1>5, <1>6, Written

LEMMA DecideInv ==
  ASSUME LoggingInv, Decide
  PROVE  LoggingInv'
<1>1. /\ at = "flushed" /\ at' \in {"running", "exited"} /\ called' = <<>> /\ written' = Nothing
      /\ UNCHANGED <<pre, sinks, broken, levels, loggers>>
  BY DEF Decide
<1>2. Started' /\ ~broken
  BY <1>1 DEF LoggingInv, Started, HandlerOK
<1> QED BY <1>1, <1>2, Silent DEF LoggingInv

LEMMA LoggerDerived ==
  ASSUME LoggingInv, NEW h, HandlerOK(h), Derive(h)
  PROVE  LoggingInv'
<1>1. /\ at = "running" /\ at' = "running" /\ loggers' = Append(loggers, h) /\ called' = <<>>
      /\ written' = Nothing /\ UNCHANGED <<pre, sinks, broken, levels>>
  BY DEF Derive
<1>2. Started
  BY <1>1 DEF LoggingInv
<1>3. loggers \in Seq(Handler) /\ h \in Handler /\ Len(loggers) \in Nat /\ Len(loggers) >= 1
  BY <1>2 DEF Started, HandlerOK
<1>4. loggers' \in Seq(Handler) /\ Len(loggers') >= 1
  BY <1>1, <1>3
<1>5. ASSUME NEW i \in DOMAIN loggers' PROVE HandlerOK(loggers'[i])
  <2>1. CASE i \in DOMAIN loggers
    <3>1. loggers'[i] = loggers[i]
      BY <1>1, <1>3, <2>1
    <3> QED BY <1>2, <2>1, <3>1 DEF Started
  <2>2. CASE i \notin DOMAIN loggers
    <3>1. loggers'[i] = h
      BY <1>1, <1>3, <2>2
    <3> QED BY <3>1
  <2> QED BY <2>1, <2>2
<1>6. Started'
  BY <1>1, <1>2, <1>4, <1>5 DEF Started, HandlerOK
<1> QED BY <1>1, <1>6, Silent DEF LoggingInv

LEMMA AttributedOK ==
  ASSUME NEW h, HandlerOK(h)
  PROVE  /\ HandlerOK(Attributed(h, <<"unit">>))
         /\ HandlerOK([Attributed(h, <<"request_id">>)
                         EXCEPT !.hasRequest = TRUE, !.requests = @ + 1])
         /\ HandlerOK([Attributed(h, <<"trace_id">>) EXCEPT !.hasTrace = TRUE])
         /\ \A keys \in Messages : HandlerOK(Attributed(h, keys))
<1> DEFINE a == h.attrs
           n == h.requests
<1>1. /\ a \in Seq(Visible) /\ n \in Nat /\ Times("request_id", a) = n /\ (n > 0 => h.hasRequest)
      /\ h.hasRequest \in BOOLEAN /\ h.hasTrace \in BOOLEAN /\ h.level = 1
      /\ h = [attrs |-> a, hasRequest |-> h.hasRequest, hasTrace |-> h.hasTrace, level |-> 1, requests |-> n]
  BY DEF HandlerOK, Handler
<1> HIDE DEF a, n
<1>2. "unit" \in Visible /\ "request_id" \in Visible /\ "trace_id" \in Visible /\ "user" \in Visible
  BY DEF Visible, Keys
<1>3. ASSUME NEW x \in Visible
      PROVE  /\ WithoutHints(<<x>>) = <<x>> /\ a \o <<x>> = Append(a, x) /\ Append(a, x) \in Seq(Visible)
             /\ Times("request_id", Append(a, x)) = n + (IF x = "request_id" THEN 1 ELSE 0)
  <2>1. <<x>> \in Seq(Visible)
    OBVIOUS
  <2>2. Kept(<<x>>, Visible) = <<x>>
    BY <2>1, KeptAll
  <2>3. a \o <<x>> = Append(a, x) /\ Append(a, x) \in Seq(Visible)
    BY <1>1
  <2> QED BY <1>1, <2>2, <2>3, TimesAppend DEF WithoutHints, Visible
<1>4. ASSUME NEW x \in Visible, NEW keys, WithoutHints(keys) = <<x>>
      PROVE  LET A == Attributed(h, keys)
             IN /\ A \in Handler /\ A.attrs = Append(a, x)
                /\ A.requests = n /\ A.hasRequest = h.hasRequest
  <2>1. Attributed(h, keys) = [h EXCEPT !.attrs = Append(a, x)]
    BY <1>3, <1>4 DEF Attributed, a
  <2>2. Append(a, x) \in Seq(Visible) /\ h \in Handler
    BY <1>3 DEF HandlerOK
  <2> HIDE DEF n
  <2>3. [h EXCEPT !.attrs = Append(a, x)] \in Handler
    BY <2>2 DEF Handler
  <2>4. /\ [h EXCEPT !.attrs = Append(a, x)].attrs = Append(a, x)
        /\ [h EXCEPT !.attrs = Append(a, x)].requests = h.requests
        /\ [h EXCEPT !.attrs = Append(a, x)].hasRequest = h.hasRequest
    BY <2>2 DEF Handler
  <2> QED BY <2>1, <2>3, <2>4 DEF n
<1>5. ASSUME NEW x \in Visible, x # "request_id"
      PROVE  Times("request_id", Append(a, x)) = n
  <2>1. Times("request_id", Append(a, x)) = n + 0
    BY <1>3, <1>5
  <2> QED BY <1>1, <2>1
<1>6. HandlerOK(Attributed(h, <<"unit">>))
  BY <1>1, <1>2, <1>3, <1>4, <1>5 DEF HandlerOK
<1>7. ASSUME NEW keys \in Messages PROVE HandlerOK(Attributed(h, keys))
  <2>1. WithoutHints(keys) = <<"user">>
    BY HintsDropped
  <2> QED BY <1>1, <1>2, <1>4, <1>5, <2>1 DEF HandlerOK
<1>8. HandlerOK([Attributed(h, <<"trace_id">>) EXCEPT !.hasTrace = TRUE])
  <2> DEFINE A == Attributed(h, <<"trace_id">>)
  <2>1. /\ A \in Handler /\ A.attrs = Append(a, "trace_id")
        /\ A.requests = n /\ A.hasRequest = h.hasRequest
    BY <1>2, <1>3, <1>4
  <2>2. Times("request_id", Append(a, "trace_id")) = n
    BY <1>2, <1>5
  <2> HIDE DEF A
  <2>3. [A EXCEPT !.hasTrace = TRUE] \in Handler
    BY <2>1 DEF Handler
  <2>4. /\ [A EXCEPT !.hasTrace = TRUE].attrs = A.attrs
        /\ [A EXCEPT !.hasTrace = TRUE].requests = A.requests
        /\ [A EXCEPT !.hasTrace = TRUE].hasRequest = A.hasRequest
    BY <2>1 DEF Handler
  <2>5. HandlerOK([A EXCEPT !.hasTrace = TRUE])
    BY <1>1, <2>1, <2>2, <2>3, <2>4 DEF HandlerOK
  <2> QED BY <2>5 DEF A
<1>9. HandlerOK([Attributed(h, <<"request_id">>) EXCEPT !.hasRequest = TRUE, !.requests = @ + 1])
  <2> DEFINE A == Attributed(h, <<"request_id">>)
             B == [A EXCEPT !.hasRequest = TRUE, !.requests = @ + 1]
  <2>1. /\ A \in Handler /\ A.attrs = Append(a, "request_id") /\ A.requests = n
    BY <1>2, <1>3, <1>4
  <2>2. Times("request_id", Append(a, "request_id")) = n + 1
    BY <1>2, <1>3
  <2> HIDE DEF A
  <2>3. B \in Handler
    <3>1. PICK m \in Nat : m = A.requests + 1
      BY <1>1, <2>1
    <3> DEFINE C == [A EXCEPT !.hasRequest = TRUE]
    <3>2. C \in Handler
      BY <2>1 DEF Handler
    <3>3. B = [C EXCEPT !.requests = m]
      BY <3>1
    <3> HIDE DEF B, C
    <3>4. [C EXCEPT !.requests = m] \in Handler
      BY <3>2 DEF Handler
    <3> QED BY <3>3, <3>4
  <2>4. B.attrs = A.attrs /\ B.requests = A.requests + 1 /\ B.hasRequest
    <3>1. DOMAIN A = {"attrs", "hasRequest", "hasTrace", "level", "requests"}
      BY <2>1 DEF Handler
    <3>2. B.attrs = A.attrs
      BY <3>1
    <3>3. B.requests = A.requests + 1
      BY <3>1
    <3>4. B.hasRequest = TRUE
      BY <3>1
    <3> QED BY <3>2, <3>3, <3>4
  <2> HIDE DEF B
  <2>5. HandlerOK(B)
    BY <1>1, <2>1, <2>2, <2>3, <2>4 DEF HandlerOK
  <2> QED BY <2>5 DEF A, B
<1> QED BY <1>6, <1>7, <1>8, <1>9

LEMMA LogInv ==
  ASSUME LoggingInv, NEW i \in DOMAIN loggers, NEW l \in Levels, NEW keys \in Messages, NEW ctx,
         Log(i, l, keys, ctx)
  PROVE  LoggingInv'
<1> DEFINE h == loggers[i]
           r == Handled(h, Record(l, keys), ctx)
           q == IF l >= LevelOf(h) THEN <<r>> ELSE <<>>
<1>1. /\ at = "running" /\ called' = q /\ written' = Deliver(q, LevelOf(h))
      /\ UNCHANGED <<at, pre, sinks, broken, levels, loggers>>
  BY DEF Log
<1>2. HandlerOK(h) /\ LevelOf(h) = levels[1]
  BY <1>1 DEF LoggingInv, Started, HandlerOK, Handler, LevelOf
<1>3. r \in Entry /\ OnceOK(r)
  BY <1>2, HandledSays DEF HandlerOK, OnceOK
<1> HIDE DEF r
<1>4. q \in Seq(Entry) /\ ToSet(q) \subseteq {r}
  BY <1>3 DEF ToSet
<1>5. pre'.records \in Seq(Queued)
  BY <1>1 DEF LoggingInv
<1> HIDE DEF q
<1> QED BY <1>1, <1>2, <1>3, <1>4, <1>5, Written

LEMMA SetLevelInv ==
  ASSUME LoggingInv, NEW i \in DOMAIN loggers, NEW l \in Levels, SetLevel(i, l)
  PROVE  LoggingInv' /\ \A j \in DOMAIN loggers : levels'[loggers[j].level] = l
<1>1. /\ at = "running" /\ levels' = [levels EXCEPT ![loggers[i].level] = l] /\ called' = <<>>
      /\ written' = Nothing /\ UNCHANGED <<at, pre, sinks, broken, loggers>>
  BY DEF SetLevel
<1>2. Started
  BY <1>1 DEF LoggingInv
<1>3. \A j \in DOMAIN loggers : loggers[j].level = 1
  BY <1>2 DEF Started, HandlerOK, Handler
<1>4. levels \in Seq(Levels) /\ Len(levels) = 1 /\ 1 \in DOMAIN levels
  BY <1>2 DEF Started
<1>5. levels' \in Seq(Levels) /\ Len(levels') = 1 /\ levels'[1] = l
  <2>1. loggers[i].level = 1 /\ 1 \in 1..Len(levels)
    BY <1>3, <1>4
  <2>2. levels' = [levels EXCEPT ![1] = l]
    BY <1>1, <2>1
  <2> QED BY SMTT(30), <1>4, <2>1, <2>2, ExceptSeq
<1>6. Started'
  BY <1>1, <1>2, <1>5 DEF Started, HandlerOK
<1>7. LoggingInv'
  BY <1>1, <1>6, Silent DEF LoggingInv
<1> QED BY <1>3, <1>5, <1>7

LEMMA BreakInv ==
  ASSUME LoggingInv, Break
  PROVE  LoggingInv'
<1>1. /\ at = "running" /\ broken' = TRUE /\ called' = <<>> /\ written' = Nothing
      /\ UNCHANGED <<at, pre, sinks, levels, loggers>>
  BY DEF Break
<1>2. Started'
  BY <1>1 DEF LoggingInv, Started, HandlerOK
<1>3. broken' \in BOOLEAN
  BY <1>1
<1> QED BY <1>1, <1>2, <1>3, Silent DEF LoggingInv

LEMMA LoggingStep ==
  ASSUME LoggingInv, [Next]_vars
  PROVE  LoggingInv'
<1>1. ASSUME NEW l \in Levels, PreRecord(l) PROVE LoggingInv'
  BY <1>1, PreRecordInv
<1>2. ASSUME NEW stderr \in BOOLEAN, NEW file \in BOOLEAN, NEW opens \in BOOLEAN, NEW l \in Levels,
             New(stderr, file, opens, l)
      PROVE  LoggingInv'
  BY <1>2, NewInv
<1>3. CASE Flush
  BY <1>3, FlushInv
<1>4. CASE Decide
  BY <1>4, DecideInv
<1>5. ASSUME NEW i \in DOMAIN loggers,
             \/ For(i) \/ WithRequest(i) \/ WithTrace(i)
             \/ \E keys \in Messages : With(i, keys)
      PROVE  LoggingInv'
  <2>1. at = "running"
    BY <1>5 DEF For, WithRequest, WithTrace, With, Derive
  <2>2. HandlerOK(loggers[i])
    BY <2>1 DEF LoggingInv, Started
  <2> QED BY <1>5, <2>2, AttributedOK, LoggerDerived DEF For, WithRequest, WithTrace, With
<1>6. ASSUME NEW i \in DOMAIN loggers, NEW l \in Levels, SetLevel(i, l) PROVE LoggingInv'
  BY <1>6, SetLevelInv
<1>7. ASSUME NEW i \in DOMAIN loggers, NEW l \in Levels, NEW keys \in Messages, NEW ctx \in Contexts,
             Log(i, l, keys, ctx)
      PROVE  LoggingInv'
  BY <1>7, LogInv
<1>8. CASE Break
  BY <1>8, BreakInv
<1>9. CASE UNCHANGED vars
  BY <1>9 DEF vars, LoggingInv, Started, HandlerOK, OnceOK, NeverMute, ReplayedInOrder, Records
<1> QED BY <1>1, <1>2, <1>3, <1>4, <1>5, <1>6, <1>7, <1>8, <1>9 DEF Next

LEMMA LoggingInvSays ==
  LoggingInv => TypeOK /\ IDsOnce /\ HintsFiltered /\ NeverMute /\ ReplayedInOrder
<1> SUFFICES ASSUME LoggingInv PROVE TypeOK /\ IDsOnce /\ HintsFiltered
  BY DEF LoggingInv
<1>1. ASSUME NEW r \in Records
      PROVE  r \in Entry /\ OnceOK(r)
  <2>1. PICK s \in Sinks : r \in ToSet(written[s])
    BY DEF Records
  <2>2. written[s] \in Seq(Entry)
    BY DEF LoggingInv
  <2> QED BY <2>1, <2>2 DEF LoggingInv, ToSet
<1>2. IDsOnce
  BY <1>1 DEF IDsOnce, OnceOK, Occurrences, Times
<1>3. HintsFiltered
  <2> SUFFICES ASSUME NEW r \in Records PROVE Occurrences("hint", r) = 0
    BY DEF HintsFiltered
  <2>1. r.keys \in Seq(Visible)
    BY <1>1 DEF Entry
  <2>2. "hint" \notin ToSet(r.keys)
    BY <2>1 DEF ToSet, Visible
  <2> QED BY <2>1, <2>2, TimesMember DEF Times, Occurrences
<1>4. TypeOK
  <2>1. CASE at = "starting"
    BY <2>1 DEF LoggingInv, TypeOK, ToSet
  <2>2. CASE at # "starting"
    <3>1. Started
      BY <2>2 DEF LoggingInv
    <3>2. ToSet(sinks) \subseteq Sinks /\ ToSet(levels) \subseteq Levels /\ 1 \in DOMAIN levels
      BY <3>1 DEF Started, ToSet
    <3>3. ASSUME NEW i \in DOMAIN loggers
          PROVE  loggers[i].level \in DOMAIN levels /\ ToSet(loggers[i].attrs) \subseteq Keys \ {"hint"}
      <4>1. loggers[i] \in Handler
        BY <3>1 DEF Started
      <4>2. loggers[i].level = 1 /\ loggers[i].attrs \in Seq(Visible)
        BY <4>1 DEF Handler
      <4> QED BY <3>2, <4>2 DEF ToSet, Visible
    <3> QED BY <3>2, <3>3 DEF LoggingInv, TypeOK
  <2> QED BY <2>1, <2>2
<1> QED BY <1>2, <1>3, <1>4

LEMMA LoggingAtWork ==
  ASSUME [ConsoleNext]_<<part, vars, printerVars, errs>>
  PROVE  [Next]_vars
  BY DEF ConsoleNext

\* For any number of queued records and of loggers derived from each other
\* (console/logger): queued records are replayed in order, a logger has a sink
\* that gets what is enabled, identifiers appear once in a record, hints for
\* the console in none, and one level governs all derived loggers.
THEOREM RecordsDoArrive == ConsoleSpec => RecordsArrive
<1>1. ConsoleInit => LoggingInv
  BY LoggingBegin DEF ConsoleInit
<1>2. LoggingInv /\ [ConsoleNext]_<<part, vars, printerVars, errs>> => LoggingInv'
  BY LoggingAtWork, LoggingStep
<1>3. LoggingInv /\ [ConsoleNext]_<<part, vars, printerVars, errs>> => [LevelShared]_vars
  BY LoggingAtWork, SetLevelInv DEF LevelShared
<1> QED BY <1>1, <1>2, <1>3, LoggingInvSays, PTL DEF ConsoleSpec, RecordsArrive, OneLevel

-----------------------------------------------------------------------------
\* Errors

ErrorNode == [class: Trees!Classes, kind: ErrorKinds \cup DomainKinds \cup {"Unknown"},
              ptr: BOOLEAN, children: Seq(Nat)]

TreesInv == errs \in Seq(ErrorNode) /\ Trees!TypeOK

LEMMA CausesIn ==
  ASSUME NEW S, NEW c \in Seq(S)
  PROVE  {c[i] : i \in DOMAIN c} \subseteq S
  OBVIOUS

\* An error made of errors that exist.
LEMMA MadeOfOthers ==
  ASSUME TreesInv, NEW n \in ErrorNode, n.children \in Seq(Trees!Known),
         Trees!Valid(n.kind) \/ n.class = "domain", errs' = Append(errs, n)
  PROVE  TreesInv'
<1>1. errs \in Seq(ErrorNode)
  BY DEF TreesInv
<1>2. PICK m \in Nat : m = Len(errs)
  BY <1>1
<1>3. /\ errs' \in Seq(ErrorNode) /\ Len(errs') = m + 1 /\ errs'[m + 1] = n
      /\ \A e \in 1..m : errs'[e] = errs[e]
  BY <1>1, <1>2
<1>4. ASSUME NEW e \in 1..(m + 1)
      PROVE  /\ errs'[e].class \in Trees!Classes
             /\ Trees!Valid(errs'[e].kind) \/ errs'[e].class = "domain"
             /\ errs'[e].ptr \in BOOLEAN
             /\ {errs'[e].children[i] : i \in DOMAIN errs'[e].children} \subseteq 1..(m + 1)
  <2>1. CASE e \in 1..m
    <3>1. /\ errs[e].class \in Trees!Classes
          /\ Trees!Valid(errs[e].kind) \/ errs[e].class = "domain"
          /\ errs[e].ptr \in BOOLEAN
          /\ {errs[e].children[i] : i \in DOMAIN errs[e].children} \subseteq 1..m
      BY <1>2, <2>1 DEF TreesInv, Trees!TypeOK, Trees!Known, Trees!Causes
    <3>2. errs'[e] = errs[e] /\ 1..m \subseteq 1..(m + 1)
      BY <1>3, <2>1
    <3> QED BY <3>1, <3>2
  <2>2. CASE e = m + 1
    <3>1. errs'[e] = n
      BY <1>3, <2>2
    <3>2. {n.children[i] : i \in DOMAIN n.children} \subseteq 1..m
      BY <1>2, CausesIn DEF Trees!Known
    <3>3. n.class \in Trees!Classes /\ n.ptr \in BOOLEAN /\ 1..m \subseteq 1..(m + 1)
      BY DEF ErrorNode
    <3> QED BY <3>1, <3>2, <3>3
  <2> QED BY <1>2, <2>1, <2>2
<1>5. Trees!TypeOK'
  BY <1>3, <1>4 DEF Trees!TypeOK, Trees!Known, Trees!Causes, Trees!Valid
<1> QED BY <1>3, <1>5 DEF TreesInv

LEMMA UnwrappedIs ==
  ASSUME NEW S, NEW c \in {0} \cup S
  PROVE  Trees!Unwrapped(c) \in Seq(S)
  BY DEF Trees!Unwrapped

LEMMA RetargetKeeps ==
  ASSUME TreesInv, NEW e \in Trees!Known, NEW c \in Trees!Known, Trees!Retarget(e, c)
  PROVE  TreesInv'
<1>1. errs \in Seq(ErrorNode)
  BY DEF TreesInv
<1>2. PICK m \in Nat : m = Len(errs)
  BY <1>1
<1> DEFINE n == [errs[e] EXCEPT !.children = <<c>>]
<1>3. errs[e] \in ErrorNode /\ e \in 1..m /\ c \in 1..m
  BY <1>1, <1>2 DEF Trees!Known
<1>4. /\ n \in ErrorNode /\ n.children = <<c>> /\ n.class = errs[e].class
      /\ n.kind = errs[e].kind /\ n.ptr = errs[e].ptr
  <2>1. <<c>> \in Seq(Nat)
    BY <1>3
  <2> QED BY <1>3, <2>1 DEF ErrorNode
<1>5. errs' = [errs EXCEPT ![e] = n]
  BY DEF Trees!Retarget
<1> HIDE DEF n
<1>6. /\ errs' \in Seq(ErrorNode) /\ Len(errs') = m /\ errs'[e] = n
      /\ \A d \in (1..m) \ {e} : errs'[d] = errs[d]
  BY <1>1, <1>2, <1>3, <1>4, <1>5
<1>7. {n.children[i] : i \in DOMAIN n.children} \subseteq 1..m
  <2>1. n.children \in Seq(1..m)
    BY <1>3, <1>4
  <2> QED BY <2>1, CausesIn
<1>8. ASSUME NEW d \in 1..m
      PROVE  /\ errs'[d].class \in Trees!Classes
             /\ Trees!Valid(errs'[d].kind) \/ errs'[d].class = "domain"
             /\ errs'[d].ptr \in BOOLEAN
             /\ {errs'[d].children[i] : i \in DOMAIN errs'[d].children} \subseteq 1..m
  <2>1. /\ errs[d].class \in Trees!Classes
        /\ Trees!Valid(errs[d].kind) \/ errs[d].class = "domain"
        /\ errs[d].ptr \in BOOLEAN
        /\ {errs[d].children[i] : i \in DOMAIN errs[d].children} \subseteq 1..m
    BY <1>2 DEF TreesInv, Trees!TypeOK, Trees!Known, Trees!Causes
  <2>2. CASE d = e
    BY <1>4, <1>6, <1>7, <2>1, <2>2
  <2>3. CASE d # e
    <3>1. errs'[d] = errs[d]
      BY <1>6, <2>3
    <3> QED BY <2>1, <3>1
  <2> QED BY <2>2, <2>3
<1>9. Trees!TypeOK'
  BY <1>6, <1>8 DEF Trees!TypeOK, Trees!Known, Trees!Causes, Trees!Valid
<1> QED BY <1>6, <1>9 DEF TreesInv

LEMMA TreesStep ==
  TreesInv /\ [Trees!Next]_errs => TreesInv'
<1> SUFFICES ASSUME TreesInv, [Trees!Next]_errs PROVE TreesInv'
  OBVIOUS
<1>1. Trees!Known \subseteq Nat /\ \A c : c \in Seq(Trees!Known) => c \in Seq(Nat)
  <2>1. Len(errs) \in Nat
    BY DEF TreesInv
  <2>2. Trees!Known \subseteq Nat
    BY <2>1 DEF Trees!Known
  <2>3. ASSUME NEW c \in Seq(Trees!Known) PROVE c \in Seq(Nat)
    <3>1. c = [i \in 1..Len(c) |-> c[i]] /\ Len(c) \in Nat
      OBVIOUS
    <3>2. \A i \in 1..Len(c) : c[i] \in Trees!Known
      OBVIOUS
    <3>3. \A i \in 1..Len(c) : c[i] \in Nat
      BY <2>2, <3>2
    <3> QED BY <3>1, <3>3
  <2> QED BY <2>2, <2>3
<1>2. ASSUME NEW kind \in ErrorKinds \cup {"Unknown"}, NEW cause \in {0} \cup Trees!Known,
             NEW u \in BOOLEAN, Trees!New(kind, cause, u)
      PROVE  TreesInv'
  <2> DEFINE c == IF u THEN Trees!Unwrapped(cause) ELSE <<>>
             n == [class |-> "errx", kind |-> kind, ptr |-> TRUE, children |-> c]
  <2>1. c \in Seq(Trees!Known)
    BY UnwrappedIs
  <2>2. errs' = Append(errs, n)
    BY <1>2 DEF Trees!New
  <2> HIDE DEF c
  <2>3. c \in Seq(Nat)
    BY <1>1, <2>1
  <2>4. n \in ErrorNode /\ n.children = c /\ n.kind = kind
    BY <2>3 DEF ErrorNode, Trees!Classes
  <2>5. Trees!Valid(n.kind)
    BY <2>4 DEF Trees!Valid
  <2> HIDE DEF n
  <2> QED BY <2>1, <2>2, <2>4, <2>5, MadeOfOthers
<1>3. ASSUME NEW kind \in DomainKinds, NEW cause \in {0} \cup Trees!Known,
             NEW ptr \in BOOLEAN, Trees!Domain(kind, cause, ptr)
      PROVE  TreesInv'
  <2> DEFINE c == Trees!Unwrapped(cause)
             n == [class |-> "domain", kind |-> kind, ptr |-> ptr, children |-> c]
  <2>1. c \in Seq(Trees!Known)
    BY UnwrappedIs
  <2>2. errs' = Append(errs, n)
    BY <1>3 DEF Trees!Domain
  <2> HIDE DEF c
  <2>3. c \in Seq(Nat)
    BY <1>1, <2>1
  <2>4. n \in ErrorNode /\ n.children = c /\ n.class = "domain"
    BY <2>3 DEF ErrorNode, Trees!Classes
  <2> HIDE DEF n
  <2> QED BY <2>1, <2>2, <2>4, MadeOfOthers
<1>4. ASSUME NEW k \in 1..MaxJoined, NEW c \in [1..k -> Trees!Known], Trees!Join(c)
      PROVE  TreesInv'
  <2> DEFINE n == [class |-> "join", kind |-> "Unknown", ptr |-> TRUE, children |-> c]
  <2>1. c \in Seq(Trees!Known)
    <3>1. k \in Nat
      BY TreesConstants DEF Trees!ErrorConstants
    <3> QED BY <3>1
  <2>2. errs' = Append(errs, n)
    BY <1>4 DEF Trees!Join
  <2>3. c \in Seq(Nat)
    BY <1>1, <2>1
  <2>4. n \in ErrorNode /\ n.children = c /\ n.kind = "Unknown"
    BY <2>3 DEF ErrorNode, Trees!Classes
  <2>5. Trees!Valid(n.kind)
    BY <2>4 DEF Trees!Valid
  <2> HIDE DEF n
  <2> QED BY <2>1, <2>2, <2>4, <2>5, MadeOfOthers
<1>5. CASE UNCHANGED errs
  BY <1>5 DEF TreesInv, Trees!TypeOK, Trees!Known, Trees!Causes
<1> QED BY <1>2, <1>3, <1>4, <1>5, RetargetKeeps DEF Trees!Next

LEMMA TreesBegin ==
  Trees!Init => TreesInv
<1>1. ASSUME errs = <<>> PROVE TreesInv
  <2>1. errs \in Seq(ErrorNode) /\ 1..Len(errs) = {}
    BY <1>1
  <2> QED BY <2>1 DEF TreesInv, Trees!TypeOK, Trees!Known
<1> QED BY <1>1 DEF Trees!Init

LEMMA TreesAtWork ==
  ASSUME [ConsoleNext]_<<part, vars, printerVars, errs>>
  PROVE  [Trees!Next]_errs
  BY DEF ConsoleNext, Made

\* Whatever is printed, logged and wrapped: a logger's level exists and its
\* attributes have no hints, the mutex of a printer belongs to one of the
\* goroutines that print or to nobody, and errors are made of errors that exist.
THEOREM ConsoleTypes ==
  ConsoleSpec => []TypesOK
<1> DEFINE I == LoggingInv /\ PrinterInv /\ TreesInv
<1>1. ConsoleInit => I
  BY LoggingBegin, PrinterInit, TreesBegin, PrintersConstants DEF ConsoleInit
<1>2. I /\ [ConsoleNext]_<<part, vars, printerVars, errs>> => I'
  BY LoggingAtWork, LoggingStep, PrinterAtWork, PrinterNext, PrintersConstants,
     TreesAtWork, TreesStep
<1>3. I => TypesOK
  BY LoggingInvSays, PrinterTypes DEF TypesOK, TreesInv
<1> QED BY <1>1, <1>2, <1>3, PTL DEF ConsoleSpec
=============================================================================
