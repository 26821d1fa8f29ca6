------------------------------ MODULE Logging ------------------------------
(***************************************************************************)
(* The console/logger package in a program that starts the way its README  *)
(* shows: records are queued in a PreLogger until the configuration is     *)
(* known, New opens the writers, Flush replays the queue, Count decides    *)
(* whether to go on, and then loggers are derived from each other and used *)
(* while the level changes and a log file may stop working.                *)
(*                                                                         *)
(* Levels are 0 (debug) to 3 (error).  A record is its level and the keys  *)
(* of its attributes; "hint" stands for the keys with the prefix console.  *)
(***************************************************************************)
EXTENDS Naturals, Sequences, FiniteSets, SequencesExt

CONSTANTS
    MaxQueued,   \* bound: records queued before the logger exists
    MaxLoggers   \* bound: loggers in existence

ASSUME LoggingConstants == MaxQueued \in Nat /\ MaxLoggers \in Nat \ {0}

Levels == 0..3
Warn == 2
Error == 3
Keys == {"program", "unit", "run_id", "request_id", "trace_id", "hint", "user"}

VARIABLES
    at,       \* where main is
    pre,      \* the PreLogger: its queue and whether it is flushed
    sinks,    \* the writers of the logger
    broken,   \* the log file has stopped working
    levels,   \* the LevelVars there are
    loggers,  \* the loggers: attributes, flags of the contextHandler, LevelVar
    written,  \* what the last call wrote, for each sink
    called,   \* history: what the last call was to write, in order
    failed,   \* history: the file could not be opened
    errors    \* history: error records queued at startup

vars == <<at, pre, sinks, broken, levels, loggers, written, called, failed, errors>>

Sinks == {"stderr", "file"}
Nothing == [s \in Sinks |-> <<>>]

Init ==
    /\ at = "starting"
    /\ pre = [records |-> <<>>, flushed |-> FALSE]
    /\ sinks = <<>>
    /\ broken = FALSE
    /\ levels = <<>>
    /\ loggers = <<>>
    /\ written = Nothing
    /\ called = <<>>
    /\ failed = FALSE
    /\ errors = 0

-----------------------------------------------------------------------------
\* Handlers

Record(level, keys) == [level |-> level, keys |-> keys]

\* The elements of a sequence that are in a set, in their order.
Kept(seq, T) ==
    LET kept[n \in 0..Len(seq)] ==
            IF n = 0 THEN <<>>
            ELSE IF seq[n] \in T THEN Append(kept[n - 1], seq[n]) ELSE kept[n - 1]
    IN kept[Len(seq)]

WithoutHints(keys) == Kept(keys, Keys \ {"hint"})

\* contextHandler.Handle: identifiers of the context, unless stamped already.
ContextKeys(h, ctx) ==
       (IF "request_id" \in ctx /\ ~h.hasRequest THEN <<"request_id">> ELSE <<>>)
    \o (IF "trace_id" \in ctx /\ ~h.hasTrace THEN <<"trace_id">> ELSE <<>>)

\* Mutant: records are forwarded as they are.
HandledUnfiltered(h, r, ctx) ==
    Record(r.level, h.attrs \o r.keys \o ContextKeys(h, ctx))

Handled(h, r, ctx) ==
    Record(r.level, h.attrs \o WithoutHints(r.keys \o ContextKeys(h, ctx)))

\* One handler takes what it is given; several are asked by the fanHandler
\* whether the level is enabled.  A writer that fails is passed over.
Delivers(s, level, min) ==
    /\ Contains(sinks, s)
    /\ s = "file" => ~broken
    /\ Len(sinks) > 1 => level >= min

Deliver(records, min) ==
    [s \in Sinks |-> Kept(records, {r \in ToSet(records) : Delivers(s, r.level, min)})]

LevelOf(h) == levels[h.level]

-----------------------------------------------------------------------------
\* Startup

PreRecord(level) ==
    /\ at = "starting"
    /\ Len(pre.records) < MaxQueued
    /\ pre' = [pre EXCEPT !.records = Append(@, Record(level, <<"user">>))]
    /\ errors' = errors + (IF level >= Error THEN 1 ELSE 0)
    /\ UNCHANGED <<at, sinks, broken, levels, loggers, written, called, failed>>

\* Mutant: stderr is only used when it was asked for.
resolveWritersMute(stderr, file, opens) ==
    (IF stderr THEN <<"stderr">> ELSE <<>>) \o (IF file /\ opens THEN <<"file">> ELSE <<>>)

resolveWriters(stderr, file, opens) ==
    LET asked == (IF stderr THEN <<"stderr">> ELSE <<>>)
                 \o (IF file /\ opens THEN <<"file">> ELSE <<>>)
    IN IF asked = <<>> THEN <<"stderr">> ELSE asked

Root == [attrs |-> <<"program", "unit", "run_id">>, hasRequest |-> FALSE,
         hasTrace |-> FALSE, level |-> 1, requests |-> 0]

\* New never fails; a file that cannot be opened is warned about.
New(stderr, file, opens, level) ==
    LET degraded == IF file /\ ~opens /\ Warn >= level
                    THEN <<Record(Warn, Root.attrs \o <<"user">>)>> ELSE <<>>
    IN /\ at = "starting"
       /\ at' = "created"
       /\ sinks' = resolveWriters(stderr, file, opens)
       /\ levels' = <<level>>
       /\ loggers' = <<Root>>
       /\ called' = degraded
       /\ written' = [s \in Sinks |-> IF Contains(sinks', s) THEN degraded ELSE <<>>]
       /\ failed' = (file /\ ~opens)
       /\ UNCHANGED <<pre, broken, errors>>

\* Mutant: the queue is replayed backwards.
FlushBackwards ==
    LET records == Reverse([i \in DOMAIN pre.records |-> Handled(loggers[1], pre.records[i], {})])
    IN /\ at = "created"
       /\ at' = "flushed"
       /\ called' = [i \in DOMAIN pre.records |-> Handled(loggers[1], pre.records[i], {})]
       /\ written' = Deliver(records, LevelOf(loggers[1]))
       /\ pre' = [records |-> <<>>, flushed |-> TRUE]
       /\ UNCHANGED <<sinks, broken, levels, loggers, failed, errors>>

\* Flush hands the records to the handler, past the logger's own level check.
Flush ==
    LET records == [i \in DOMAIN pre.records |-> Handled(loggers[1], pre.records[i], {})]
    IN /\ at = "created"
       /\ at' = "flushed"
       /\ called' = records
       /\ written' = Deliver(records, LevelOf(loggers[1]))
       /\ pre' = [records |-> <<>>, flushed |-> TRUE]
       /\ UNCHANGED <<sinks, broken, levels, loggers, failed, errors>>

Count(level) == Cardinality({i \in DOMAIN pre.records : pre.records[i].level >= level})

\* The program exits when errors are counted.
Decide ==
    /\ at = "flushed"
    /\ at' = IF Count(Error) > 0 THEN "exited" ELSE "running"
    /\ called' = <<>>
    /\ written' = Nothing
    /\ UNCHANGED <<pre, sinks, broken, levels, loggers, failed, errors>>

-----------------------------------------------------------------------------
\* Running

\* A logger derived from another one: its attributes without hints.
Derive(h) ==
    /\ at = "running"
    /\ Len(loggers) < MaxLoggers
    /\ loggers' = Append(loggers, h)
    /\ called' = <<>>
    /\ written' = Nothing
    /\ UNCHANGED <<at, pre, sinks, broken, levels, failed, errors>>

\* Mutant: attributes of loggers are not filtered.
AttributedUnfiltered(h, keys) == [h EXCEPT !.attrs = @ \o keys]

Attributed(h, keys) == [h EXCEPT !.attrs = @ \o WithoutHints(keys)]

\* Mutant: the new handler starts without the flags.
ForUnmarked(i) == Derive([Attributed(loggers[i], <<"unit">>) EXCEPT !.hasRequest = FALSE])

\* Mutant: a child logger gets a level of its own.
ForOwnLevel(i) ==
    /\ at = "running"
    /\ Len(loggers) < MaxLoggers
    /\ levels' = Append(levels, LevelOf(loggers[i]))
    /\ loggers' = Append(loggers, [Attributed(loggers[i], <<"unit">>)
                                     EXCEPT !.level = Len(levels) + 1])
    /\ called' = <<>>
    /\ written' = Nothing
    /\ UNCHANGED <<at, pre, sinks, broken, failed, errors>>

For(i) == Derive(Attributed(loggers[i], <<"unit">>))

WithRequest(i) ==
    Derive([Attributed(loggers[i], <<"request_id">>)
              EXCEPT !.hasRequest = TRUE, !.requests = @ + 1])

WithTrace(i) ==
    Derive([Attributed(loggers[i], <<"trace_id">>) EXCEPT !.hasTrace = TRUE])

With(i, keys) == Derive(Attributed(loggers[i], keys))

\* SetLevel on any logger of the tree.
SetLevel(i, level) ==
    /\ at = "running"
    /\ levels' = [levels EXCEPT ![loggers[i].level] = level]
    /\ called' = <<>>
    /\ written' = Nothing
    /\ UNCHANGED <<at, pre, sinks, broken, loggers, failed, errors>>

\* External: slog asks Enabled before it builds a record.
Log(i, level, keys, ctx) ==
    LET h == loggers[i]
        records == IF level >= LevelOf(h) THEN <<Handled(h, Record(level, keys), ctx)>> ELSE <<>>
    IN /\ at = "running"
       /\ called' = records
       /\ written' = Deliver(records, LevelOf(h))
       /\ UNCHANGED <<at, pre, sinks, broken, levels, loggers, failed, errors>>

\* The log file's writes fail from now on.
Break ==
    /\ at = "running" /\ Contains(sinks, "file") /\ ~broken
    /\ broken' = TRUE
    /\ called' = <<>>
    /\ written' = Nothing
    /\ UNCHANGED <<at, pre, sinks, levels, loggers, failed, errors>>

Messages == {<<"user">>, <<"hint", "user", "hint">>}
Contexts == {{}, {"request_id", "trace_id"}}

Next ==
    \/ \E level \in Levels : PreRecord(level)
    \/ \E stderr, file, opens \in BOOLEAN, level \in Levels : New(stderr, file, opens, level)
    \/ Flush
    \/ Decide
    \/ \E i \in DOMAIN loggers :
          \/ For(i) \/ WithRequest(i) \/ WithTrace(i)
          \/ \E keys \in Messages : With(i, keys)
          \/ \E level \in Levels : SetLevel(i, level)
          \/ \E level \in Levels, keys \in Messages, ctx \in Contexts : Log(i, level, keys, ctx)
    \/ Break

Spec == Init /\ [][Next]_vars

-----------------------------------------------------------------------------
\* Properties

Records == UNION {ToSet(written[s]) : s \in Sinks}
Occurrences(k, r) == Cardinality({i \in DOMAIN r.keys : r.keys[i] = k})

\* The program is somewhere, and loggers use LevelVars that exist.
TypeOK ==
    /\ at \in {"starting", "created", "flushed", "running", "exited"}
    /\ ToSet(sinks) \subseteq Sinks
    /\ \A i \in DOMAIN loggers : /\ loggers[i].level \in DOMAIN levels
                                 /\ ToSet(loggers[i].attrs) \subseteq Keys \ {"hint"}
    /\ ToSet(levels) \subseteq Levels

\* However loggers were derived from each other, the identifiers of a context
\* do not appear beside stamped ones: a record has as many request ids as
\* WithRequest was called on the way to its logger, or one at most.
IDsOnce ==
    \A r \in Records :
        \/ Occurrences("request_id", r) <= 1
        \/ \E i \in DOMAIN loggers : Occurrences("request_id", r) = loggers[i].requests

\* Hints for the printer reach no log, whether on the logger or the record.
HintsFiltered == \A r \in Records : Occurrences("hint", r) = 0

\* A logger has a writer whatever could be opened, and a record that is
\* enabled is written by every writer that works, whichever of them fails.
NeverMute ==
    at # "starting" =>
        /\ sinks # <<>>
        /\ \A s \in ToSet(sinks) : (s = "file" => ~broken) =>
              \A r \in ToSet(called) : r.level >= levels[1] => r \in ToSet(written[s])

\* What was queued is replayed in order.
ReplayedInOrder ==
    at = "flushed" =>
        \A s \in Sinks : Contains(sinks, s) =>
            LET due == {r \in Records \cup ToSet(called) : r.level >= levels[1]}
            IN Kept(written[s], due) = Kept(called, due)

LevelShared ==
    \A i \in DOMAIN loggers, level \in Levels :
        SetLevel(i, level) => \A j \in DOMAIN loggers : levels'[loggers[j].level] = level

\* After SetLevel on any logger of the tree no logger of it writes below that
\* level.
OneLevel == [][LevelShared]_vars

\* What the bootstrap pattern of the README is for: a program that queued an
\* error does not run.
\* (The code departs from this: "Departures observed" in the README.)
ErrorsStop == at = "running" => errors = 0

\* What the comment of New says: when the file cannot be opened the logger
\* "falls back to stderr and emits a warning about the degradation".
\* (The code departs from this: "Departures observed" in the README.)
DegradationTold ==
    at = "created" /\ failed => \E s \in Sinks : written[s] # <<>>
=============================================================================
