----------------------------- MODULE LogBuffer -----------------------------
(***************************************************************************)
(* The buffer in which config keeps the diagnostics of its initialization  *)
(* until the caller has a logger (config/log.go): Load adds records, at    *)
(* most MaxRecords are kept, and FlushLogs takes them under the mutex and  *)
(* hands them to the logger after releasing it.                            *)
(***************************************************************************)
EXTENDS Naturals, Sequences, FiniteSets, SequencesExt, Functions

CONSTANTS
    Goroutines,
    MaxRecords,  \* maxLogRecords
    MaxAdded     \* bound: records added

BufferConstants ==
    /\ IsFiniteSet(Goroutines)
    /\ MaxRecords \in Nat \ {0}
    /\ MaxAdded \in Nat

VARIABLES
    added,      \* records added so far, numbered from 1
    records,    \* the buffer
    discarded,  \* how many were dropped since the last flush
    taken,      \* what each goroutine has taken and not yet delivered
    delivered,  \* what the logger was given, in order
    reported    \* how many dropped records the logger was told of

vars == <<added, records, discarded, taken, delivered, reported>>

Idle == [records |-> <<>>, discarded |-> 0]

Init ==
    /\ added = 0
    /\ records = <<>>
    /\ discarded = 0
    /\ taken = [g \in Goroutines |-> Idle]
    /\ delivered = <<>>
    /\ reported = 0

\* Mutant: a full buffer drops its oldest record without counting it.
addSilent ==
    /\ added < MaxAdded
    /\ added' = added + 1
    /\ records' = Append(IF Len(records) = MaxRecords THEN Tail(records) ELSE records, added')
    /\ UNCHANGED <<discarded, taken, delivered, reported>>

\* Mutant: a full buffer drops the new record.
addNot ==
    LET full == Len(records) = MaxRecords
    IN /\ added < MaxAdded
       /\ added' = added + 1
       /\ records' = IF full THEN records ELSE Append(records, added')
       /\ discarded' = IF full THEN discarded + 1 ELSE discarded
       /\ UNCHANGED <<taken, delivered, reported>>

\* Mutant: one record too many is kept.
addLate ==
    LET full == Len(records) > MaxRecords
    IN /\ added < MaxAdded
       /\ added' = added + 1
       /\ records' = Append(IF full THEN Tail(records) ELSE records, added')
       /\ discarded' = IF full THEN discarded + 1 ELSE discarded
       /\ UNCHANGED <<taken, delivered, reported>>

\* A full buffer drops its oldest record.
add ==
    LET full == Len(records) = MaxRecords
    IN /\ added < MaxAdded
       /\ added' = added + 1
       /\ records' = Append(IF full THEN Tail(records) ELSE records, added')
       /\ discarded' = IF full THEN discarded + 1 ELSE discarded
       /\ UNCHANGED <<taken, delivered, reported>>

\* Mutant: the buffer is emptied only after delivery.
flushTakeKeeps(g) ==
    /\ taken[g] = Idle
    /\ taken' = [taken EXCEPT ![g] = [records |-> records, discarded |-> discarded]]
    /\ UNCHANGED <<added, records, discarded, delivered, reported>>

\* Under the mutex: records and count are taken and the buffer is emptied.
flushTake(g) ==
    /\ taken[g] = Idle
    /\ taken' = [taken EXCEPT ![g] = [records |-> records, discarded |-> discarded]]
    /\ records' = <<>>
    /\ discarded' = 0
    /\ UNCHANGED <<added, delivered, reported>>

\* The warning about dropped records comes first.
flushWarn(g) ==
    /\ taken[g].discarded > 0
    /\ reported' = reported + taken[g].discarded
    /\ taken' = [taken EXCEPT ![g].discarded = 0]
    /\ UNCHANGED <<added, records, discarded, delivered>>

flushDeliver(g) ==
    /\ taken[g].discarded = 0
    /\ taken[g].records # <<>>
    /\ delivered' = Append(delivered, Head(taken[g].records))
    /\ taken' = [taken EXCEPT ![g].records = Tail(@)]
    /\ UNCHANGED <<added, records, discarded, reported>>

flush(g) == flushTake(g) \/ flushWarn(g) \/ flushDeliver(g)

Next == add \/ \E g \in Goroutines : flush(g)

Spec == Init /\ [][Next]_vars

-----------------------------------------------------------------------------
\* Properties

\* The buffer stays within its limit.
TypeOK ==
    /\ added \in 0..MaxAdded
    /\ Len(records) <= MaxRecords
    /\ discarded \in Nat
    /\ reported \in Nat

InFlight(g) == Len(taken[g].records) + taken[g].discarded

\* Every record that was added is in the buffer, on its way or delivered, or
\* it is counted: the logger is told of exactly the records it does not get.
Conserved ==
    added = Len(records) + discarded + Len(delivered) + reported
              + SumFunction([g \in Goroutines |-> InFlight(g)])

\* No record is delivered twice, however flushes overlap with each other and
\* with additions.
AtMostOnce ==
    /\ IsInjective(delivered)
    /\ \A g \in Goroutines :
          /\ ToSet(taken[g].records) \cap (ToSet(delivered) \cup ToSet(records)) = {}
          /\ \A h \in Goroutines \ {g} :
                ToSet(taken[g].records) \cap ToSet(taken[h].records) = {}

\* The buffer holds the newest records, in order and without gaps.
NewestKept == records = [i \in 1..Len(records) |-> added - Len(records) + i]
=============================================================================
