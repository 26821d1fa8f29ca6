------------------------------ MODULE Console -------------------------------
(***************************************************************************)
(* What a program says: the logger (Logging), the printer (Printer) and    *)
(* the errors that are reported (ErrorTrees).  A behaviour is one of one   *)
(* part, and the variables of the others stay as they are.                 *)
(***************************************************************************)
EXTENDS Logging

CONSTANTS
    Programs, NoOne,                                \* see Printer
    ErrorKinds, DomainKinds, MaxErrors, MaxJoined   \* see ErrorTrees

VARIABLES
    part,  \* "logger", "printer" or "errors"
    program, redirect, level, mu, stream, g,
    errs

Printer == INSTANCE Printer
Trees == INSTANCE ErrorTrees WITH Kinds <- ErrorKinds

ASSUME PrintersConstants == Printer!PrinterConstants
ASSUME TreesConstants == Trees!ErrorConstants

printerVars == <<program, redirect, level, mu, stream, g>>

ConsoleInit ==
    /\ part \in {"logger", "printer", "errors"}
    /\ Init /\ Printer!Init /\ Trees!Init
    /\ part # "printer" => /\ program.indent = 0 /\ level = Printer!Info
                           /\ ~redirect.outToErr /\ ~redirect.errToOut

\* All messages are printed, or all errors made.
Printed == (\A w \in program.goroutines : g[w].count = program.messages) /\ UNCHANGED printerVars
Made == Len(errs) = MaxErrors /\ UNCHANGED errs

ConsoleNext ==
    /\ \/ part = "logger" /\ Next /\ UNCHANGED <<printerVars, errs>>
       \/ part = "printer" /\ (Printer!Next \/ Printed) /\ UNCHANGED <<vars, errs>>
       \/ part = "errors" /\ (Trees!Next \/ Made) /\ UNCHANGED <<vars, printerVars>>
    /\ UNCHANGED part

ConsoleSpec == ConsoleInit /\ [][ConsoleNext]_<<part, vars, printerVars, errs>>

-----------------------------------------------------------------------------
\* Every variable of the three modules has its type: a mutex has one holder, and
\* errors are made of errors that exist.
TypesOK == TypeOK /\ Printer!TypeOK /\ Trees!TypeOK

\* Records that were queued before there was a logger are replayed in order, a
\* logger always has a sink, identifiers appear once in a record, hints for the
\* console in none, and one level governs all loggers derived from each other.
RecordsArrive ==
    /\ [](IDsOnce /\ HintsFiltered /\ NeverMute /\ ReplayedInOrder)
    /\ OneLevel

\* The lines of messages and tables of several goroutines are never mixed on a
\* stream, also where both kinds of output go to one stream; with WithOutToErr
\* alone nothing is ever written to stdout, and with WithErrToOut alone nothing
\* to stderr; and a line is indented by what its printer, its handler and its
\* record add up to, the hints only where their sum is not negative.
MessagesWhole ==
    /\ [](Printer!StreamClean /\ Printer!IndentsAdd)
    /\ Printer!WholeMessages
=============================================================================
