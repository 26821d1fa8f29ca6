------------------------------ MODULE Printer ------------------------------
(***************************************************************************)
(* console/printer: goroutines print through printers derived from one     *)
(* (WithIndent) and through the slog handler of one (Slog, with its        *)
(* presentation hints), while another changes the level.  Derived printers *)
(* share the level, the streams and one write mutex.                       *)
(*                                                                         *)
(* A message reaches its stream in parts: the bytes of a line may take     *)
(* several writes, and a table is one line after the other.                *)
(***************************************************************************)
EXTENDS Integers, Sequences, FiniteSets

CONSTANTS
    Programs,  \* programs that print: their goroutines and the bounds on the
               \* messages of each and on the indentation of printers and hints
    NoOne      \* no goroutine

PrinterConstants ==
    \A program \in Programs : /\ NoOne \notin program.goroutines
                              /\ program.messages \in Nat /\ program.indent \in Nat

\* slog's levels, in their order.
Debug == 1
Info == 2
Warn == 3
Error == 4
Levels == Debug..Error

Streams == {"stdout", "stderr"}

VARIABLES
    program,   \* one of Programs, for the whole behaviour
    redirect,  \* the options WithOutToErr and WithErrToOut
    level,     \* the shared level
    mu,        \* the shared mutex: its holder, or NoOne
    stream,    \* stream -> the part written last
    g          \* goroutine -> its printer, its handler and its message

vars == <<program, redirect, level, mu, stream, g>>

NoPart == [by |-> NoOne, part |-> 1, of |-> 1]
NoMessage ==
    [kind |-> "none", indent |-> 0, own |-> 0, hinted |-> 0, success |-> FALSE, parts |-> 0]
Fresh == [indent |-> 0, hints |-> [indent |-> 0, success |-> FALSE], group |-> FALSE,
          given |-> [indent |-> 0, success |-> FALSE],
          pc |-> "idle", message |-> NoMessage, sent |-> 0, count |-> 0]

Init ==
    /\ program \in Programs
    /\ redirect \in [outToErr : BOOLEAN, errToOut : BOOLEAN]
    /\ level \in Levels
    /\ mu = NoOne
    /\ stream = [s \in Streams |-> NoPart]
    /\ g = [p \in program.goroutines |-> Fresh]

\* resolveStreams.
outW == IF redirect.outToErr THEN "stderr" ELSE "stdout"
errW == IF redirect.errToOut THEN "stdout" ELSE "stderr"

\* Mutant: tables and raw text go to os.Stdout.
WriterRaw(kind) ==
    IF kind \in {"Warn", "Error"} THEN errW ELSE IF kind \in {"Table", "Print"} THEN "stdout" ELSE outW

\* The writer each method hands to writeLine, writeRaw and renderTable.
Writer(kind) == IF kind \in {"Warn", "Error"} THEN errW ELSE outW

\* The level each method is gated by.
Gate(kind) ==
    CASE kind = "Verbose" -> Debug
      [] kind = "Warn" -> Warn
      [] kind = "Error" -> Error
      [] OTHER -> Info
Kinds == {"Info", "Success", "Warn", "Error", "Verbose", "Print", "Table"}

-----------------------------------------------------------------------------
\* Printers and handlers

Idle(p) == g[p].pc = "idle"

\* Indentations may be negative, as int is, within the bound.
Deltas == -program.indent..program.indent

\* WithIndent; the printer that is left has a handler without hints.
WithIndent(p, n) ==
    /\ Idle(p)
    /\ g[p].indent + n \in Deltas
    /\ g' = [g EXCEPT ![p] = [Fresh EXCEPT !.indent = g[p].indent + n, !.count = g[p].count]]
    /\ UNCHANGED <<program, redirect, level, mu, stream>>

\* Attributes that are hints: the success hint, and some indentation.
Hints == [indent : Deltas, success : {"absent", "true", "false"}]

\* What the caller means: indentations add up, the last success counts.
Meant(given, hint) ==
    [indent |-> given.indent + hint.indent,
     success |-> IF hint.success = "absent" THEN given.success ELSE hint.success = "true"]

\* Mutant: the indentation replaces the one before.
WithAttrsReplaces(p, hint) ==
    /\ Idle(p)
    /\ g[p].hints.indent + hint.indent \in Deltas
    /\ g' = [g EXCEPT ![p].hints = IF g[p].group THEN @
                                   ELSE [indent |-> hint.indent, success |-> @.success],
                      ![p].given = IF g[p].group THEN @ ELSE Meant(@, hint)]
    /\ UNCHANGED <<program, redirect, level, mu, stream>>

\* WithAttrs: below a group the key is not a hint's; a success hint is taken
\* whatever its value.
WithAttrs(p, hint) ==
    /\ Idle(p)
    /\ g[p].hints.indent + hint.indent \in Deltas
    /\ g' = [g EXCEPT ![p].hints = IF g[p].group THEN @
                                   ELSE [indent |-> @.indent + hint.indent,
                                         success |-> @.success \/ hint.success # "absent"],
                      ![p].given = IF g[p].group THEN @ ELSE Meant(@, hint)]
    /\ UNCHANGED <<program, redirect, level, mu, stream>>

WithGroup(p) ==
    /\ Idle(p) /\ ~g[p].group
    /\ g' = [g EXCEPT ![p].group = TRUE]
    /\ UNCHANGED <<program, redirect, level, mu, stream>>

SetLevel(l) ==
    /\ level' = l
    /\ UNCHANGED <<program, redirect, mu, stream, g>>

-----------------------------------------------------------------------------
\* Messages

\* A method is called: its gate is looked at, and then it needs the mutex.  The
\* next message is printed with a printer derived anew.
Begin(p, message) ==
    /\ Idle(p) /\ g[p].count < program.messages
    /\ level <= Gate(message.kind)
    /\ g' = [g EXCEPT ![p] = [Fresh EXCEPT !.pc = "lock", !.message = message,
                                           !.count = g[p].count + 1]]
    /\ UNCHANGED <<program, redirect, level, mu, stream>>

\* Below nothing there is no indentation.
indentPrefix(indent) == IF indent <= 0 THEN 0 ELSE indent

\* A method of the printer; a table is not indented.
Call(p, kind) ==
    LET indent == IF kind = "Table" THEN 0 ELSE g[p].indent IN
    Begin(p, [kind |-> kind, indent |-> indentPrefix(indent), own |-> indent, hinted |-> 0,
              success |-> kind = "Success", parts |-> IF kind = "Table" THEN 3 ELSE 2])

\* Handle: the hints of the record are added to those of the handler, a printer
\* is derived when they add up to an indentation, and the method is chosen by
\* the level.
Handle(p, l, hint) ==
    LET hints == IF g[p].group THEN g[p].hints
                 ELSE [indent |-> g[p].hints.indent + hint.indent,
                       success |-> IF hint.success = "absent" THEN g[p].hints.success
                                   ELSE hint.success = "true"]
        meant == IF g[p].group THEN g[p].given ELSE Meant(g[p].given, hint)
    IN /\ l >= level
       /\ Begin(p, [kind |-> IF l >= Error THEN "Error" ELSE IF l >= Warn THEN "Warn"
                             ELSE IF hints.success /\ l >= Info THEN "Success"
                             ELSE IF l >= Info THEN "Info" ELSE "Verbose",
                    indent |-> indentPrefix(g[p].indent
                                            + IF hints.indent > 0 THEN hints.indent ELSE 0),
                    own |-> g[p].indent, hinted |-> meant.indent, success |-> meant.success,
                    parts |-> 2])

\* Mutant: there is a mutex for the normal output only.
LockOut(p) ==
    /\ g[p].pc = "lock"
    /\ IF g[p].message.kind \in {"Warn", "Error"} THEN UNCHANGED mu ELSE mu = NoOne /\ mu' = p
    /\ g' = [g EXCEPT ![p].pc = "write"]
    /\ UNCHANGED <<program, redirect, level, stream>>

Lock(p) ==
    /\ g[p].pc = "lock"
    /\ mu = NoOne
    /\ mu' = p
    /\ g' = [g EXCEPT ![p].pc = "write"]
    /\ UNCHANGED <<program, redirect, level, stream>>

\* Mutant: the last part is taken for one before it.
WriteOneMore(p) ==
    /\ g[p].pc = "write"
    /\ stream' = [stream EXCEPT ![Writer(g[p].message.kind)] =
                     [by |-> p, part |-> g[p].sent + 1, of |-> g[p].message.parts]]
    /\ IF g[p].sent = g[p].message.parts
       THEN g' = [g EXCEPT ![p] = [Fresh EXCEPT !.count = g[p].count]] /\ mu' = NoOne
       ELSE g' = [g EXCEPT ![p].sent = @ + 1] /\ UNCHANGED mu
    /\ UNCHANGED <<program, redirect, level>>

\* The next part is written; the mutex is given back after the last.
Write(p) ==
    /\ g[p].pc = "write"
    /\ LET m == g[p].message
           w == Writer(m.kind)
           part == [by |-> p, part |-> g[p].sent + 1, of |-> m.parts]
           last == part.part = m.parts
       IN /\ stream' = [stream EXCEPT ![w] = part]
          /\ g' = [g EXCEPT ![p] = IF last THEN [Fresh EXCEPT !.count = g[p].count]
                                           ELSE [g[p] EXCEPT !.sent = part.part]]
          /\ mu' = IF last /\ mu = p THEN NoOne ELSE mu
    /\ UNCHANGED <<program, redirect, level>>

Next ==
    \/ \E p \in program.goroutines :
         \/ \E n \in Deltas : WithIndent(p, n)
         \/ \E hint \in Hints : WithAttrs(p, hint)
         \/ WithGroup(p)
         \/ \E kind \in Kinds : Call(p, kind)
         \/ \E l \in Levels, hint \in Hints : Handle(p, l, hint)
         \/ Lock(p)
         \/ Write(p)
    \/ \E l \in Levels : SetLevel(l)

Spec == Init /\ [][Next]_vars

-----------------------------------------------------------------------------
\* Properties

\* Every variable has its type; the mutex is held by the goroutine that writes.
TypeOK ==
    /\ program \in Programs
    /\ redirect \in [outToErr : BOOLEAN, errToOut : BOOLEAN]
    /\ level \in Levels
    /\ mu \in program.goroutines \cup {NoOne}
    /\ \A p \in program.goroutines :
         /\ g[p].message.kind \in Kinds \cup {"none"}
         /\ g[p].pc = "write" => g[p].sent < g[p].message.parts

\* "concurrent goroutines never interleave partial lines", nor the lines of a
\* table: in each stream a message is whole before the next begins, also where
\* both kinds of output go to the same stream.
WholeMessages ==
    [][\A s \in Streams : stream'[s] # stream[s] =>
          IF stream[s].part = stream[s].of THEN stream'[s].part = 1
          ELSE stream'[s] = [stream[s] EXCEPT !.part = @ + 1]]_vars

\* "keep stdout clean for a machine-readable payload": with WithOutToErr alone
\* nothing is ever written to stdout, and with WithErrToOut alone nothing to
\* stderr.
StreamClean ==
    /\ redirect.outToErr /\ ~redirect.errToOut => stream["stdout"] = NoPart
    /\ redirect.errToOut /\ ~redirect.outToErr => stream["stderr"] = NoPart

\* "Hints compose": a line is indented by what its printer, its handler and its
\* record add up to, through every derivation, where the hints add up to some
\* indentation; where they do not, by what its printer alone has.
IndentsAdd ==
    \A p \in program.goroutines :
        LET m == g[p].message IN
        m.indent = indentPrefix(IF m.hinted >= 0 THEN m.own + m.hinted ELSE m.own)

\* hints.go says of the hint: "HintIndent carries an integer indent delta for
\* printer output."  A negative one takes indentation away.
\* (The code departs from this: "Departures observed" in the README.)
IndentIsDelta ==
    \A p \in program.goroutines :
        LET m == g[p].message IN m.indent = indentPrefix(m.own + m.hinted)

\* The README's table of hints: "`console.success` | bool | render an Info
\* record as Success".  A record is rendered so only when the hint says true.
\* (The code departs from this: "Departures observed" in the README.)
SuccessAsGiven == \A p \in program.goroutines : g[p].message.kind = "Success" => g[p].message.success
=============================================================================
