---------------------------- MODULE SQLiteStore -----------------------------
(***************************************************************************)
(* The SQLiteStore of the certs package (sqlite_store.go).  The authority  *)
(* database holds the state twice, as a document and as tables; the ledger *)
(* is a second database.  Both use rollback journals and no busy timeout.  *)
(* Each process has one connection to the authority database.              *)
(*                                                                         *)
(* The locks of SQLite (external) are modelled by what they allow: a       *)
(* deferred transaction holds SHARED from its first SELECT to its end, one *)
(* connection at a time is RESERVED from its first write, and a commit     *)
(* needs that no other connection is SHARED.  Whoever does not get a lock  *)
(* gets SQLITE_BUSY and rolls back.  A statement outside a transaction     *)
(* holds SHARED only for itself.                                           *)
(***************************************************************************)
EXTENDS Integers

CONSTANTS
    Procs,       \* processes that have opened the store
    Serials,     \* serials a signature may draw
    MaxRevision  \* bound: revisions

SQLiteConstants == MaxRevision \in Nat

VARIABLES
    doc,     \* authority_state.document
    tables,  \* the revision of topology_state and the other tables, 0 if empty
    ledger,  \* rows of ledger.sqlite
    conn     \* each process: its connection and the operation on it

vars == <<doc, tables, ledger, conn>>

\* A document: its revision and the ledger rows its mutation was computed from.
NoDoc == [rev |-> 0, seen |-> {}]
NoRow == [rev |-> 0, serial |-> 0]
Idle == [pc |-> "idle", lock |-> "none", snap |-> NoDoc, seen |-> {},
         row |-> NoRow, result |-> "none"]

Row == [rev: 1..MaxRevision, serial: Serials]
Document == [rev: 0..MaxRevision, seen: SUBSET Row]

Init ==
    /\ doc = NoDoc /\ tables = 0
    /\ ledger = {}
    /\ conn = [p \in Procs |-> Idle]

OtherLocks(p) == {conn[q].lock : q \in Procs \ {p}}

\* The operation ends: its transaction is over and its locks are gone.
Done(p, result) == conn' = [conn EXCEPT ![p] = [Idle EXCEPT !.result = result]]

-----------------------------------------------------------------------------
\* update

\* Mutant: the document is read before the transaction begins.
UpdateBeginUnlocked(p) ==
    /\ conn[p].pc = "idle"
    /\ conn' = [conn EXCEPT ![p] = [Idle EXCEPT !.pc = "begun", !.snap = doc]]
    /\ UNCHANGED <<doc, tables, ledger>>

\* BeginTx and the first SELECT.  Inside the transaction the document and the
\* tables cannot change, so the parity check sees both at one revision.
UpdateBegin(p) ==
    /\ conn[p].pc = "idle"
    /\ conn' = [conn EXCEPT ![p] = [Idle EXCEPT !.pc = "begun", !.lock = "shared",
                                                !.snap = doc]]
    /\ UNCHANGED <<doc, tables, ledger>>

\* Mutant: the ledger is listed for the present revision only.
UpdateMutateListed(p) ==
    /\ conn[p].pc = "begun"
    /\ conn[p].snap.rev < MaxRevision
    /\ tables = conn[p].snap.rev
    /\ conn' = [conn EXCEPT ![p].pc = "mutated",
                            ![p].seen = {r \in ledger : r.rev = conn[p].snap.rev}]
    /\ UNCHANGED <<doc, tables, ledger>>

\* validateSQLiteParity inside the transaction, listLedger on the other
\* database, validateLedgerRecords and the mutation.
UpdateMutate(p) ==
    /\ conn[p].pc = "begun"
    /\ conn[p].snap.rev < MaxRevision
    /\ tables = conn[p].snap.rev
    /\ conn' = [conn EXCEPT ![p].pc = "mutated", ![p].seen = ledger]
    /\ UNCHANGED <<doc, tables, ledger>>

\* A check fails, or the mutation fails or finds nothing to do: rollback.
UpdateNothing(p) ==
    /\ conn[p].pc = "begun"
    /\ Done(p, "none")
    /\ UNCHANGED <<doc, tables, ledger>>

\* syncSQLiteTables and the new document: the first write takes RESERVED.
UpdateWrite(p) ==
    /\ conn[p].pc = "mutated"
    /\ IF "reserved" \in OtherLocks(p) THEN Done(p, "busy")
       ELSE conn' = [conn EXCEPT ![p].pc = "written", ![p].lock = "reserved"]
    /\ UNCHANGED <<doc, tables, ledger>>

\* Commit, or SQLITE_BUSY and rollback while another connection reads.
UpdateCommit(p) ==
    /\ conn[p].pc = "written"
    /\ IF "shared" \in OtherLocks(p)
       THEN Done(p, "busy") /\ UNCHANGED <<doc, tables>>
       ELSE /\ doc' = [rev |-> conn[p].snap.rev + 1, seen |-> conn[p].seen]
            /\ tables' = conn[p].snap.rev + 1
            /\ Done(p, "ok")
    /\ UNCHANGED ledger

-----------------------------------------------------------------------------
\* load: the document and the tables are read by statements of their own.

\* Mutant: no row is read as revision 0 instead of NotFoundError.
LoadDocumentMissing(p) ==
    /\ conn[p].pc = "idle"
    /\ conn' = [conn EXCEPT ![p] = [Idle EXCEPT !.pc = "loading", !.snap = doc]]
    /\ UNCHANGED <<doc, tables, ledger>>

LoadDocument(p) ==
    /\ conn[p].pc = "idle"
    /\ doc # NoDoc
    /\ conn' = [conn EXCEPT ![p] = [Idle EXCEPT !.pc = "loading", !.snap = doc]]
    /\ UNCHANGED <<doc, tables, ledger>>

\* A manager's Status, or the load of a signature that goes on.
LoadParity(p) ==
    /\ conn[p].pc = "loading"
    /\ IF tables # conn[p].snap.rev THEN Done(p, "drift")
       ELSE \/ Done(p, "ok")
            \/ \E n \in Serials :
                 conn' = [conn EXCEPT ![p] =
                            [Idle EXCEPT !.pc = "signing",
                                         !.row = [rev |-> conn[p].snap.rev, serial |-> n]]]
    /\ UNCHANGED <<doc, tables, ledger>>

-----------------------------------------------------------------------------
\* appendLedger

\* Mutant: the state is read outside the transaction that covers the insert.
AppendBeginUnlocked(p) ==
    /\ conn[p].pc = "signing"
    /\ IF doc.rev = conn[p].row.rev
       THEN conn' = [conn EXCEPT ![p].pc = "appending"]
       ELSE Done(p, "conflict")
    /\ UNCHANGED <<doc, tables, ledger>>

\* The read-only transaction and validateLedgerAuthority.
AppendBegin(p) ==
    /\ conn[p].pc = "signing"
    /\ IF doc.rev = conn[p].row.rev
       THEN conn' = [conn EXCEPT ![p].pc = "appending", ![p].lock = "shared"]
       ELSE Done(p, "conflict")
    /\ UNCHANGED <<doc, tables, ledger>>

\* The insert: UNIQUE(issuer, issuer_version, serial) refuses a second row.
\* The ledger's own lock is held for the statement only; if another connection
\* has it the insert is SQLITE_BUSY.
AppendInsert(p) ==
    /\ conn[p].pc = "appending"
    /\ \/ /\ conn[p].row \notin ledger
          /\ ledger' = ledger \cup {conn[p].row}
          /\ Done(p, "ok")
       \/ /\ conn[p].row \in ledger
          /\ Done(p, "conflict")
          /\ UNCHANGED ledger
       \/ /\ \E q \in Procs \ {p} : conn[q].pc \in {"appending", "begun"}
          /\ Done(p, "busy")
          /\ UNCHANGED ledger
    /\ UNCHANGED <<doc, tables>>

\* The process dies; SQLite rolls its transaction back.
Crash(p) ==
    /\ conn[p].pc # "idle"
    /\ Done(p, "none")
    /\ UNCHANGED <<doc, tables, ledger>>

Step(p) ==
    \/ UpdateBegin(p) \/ UpdateMutate(p) \/ UpdateNothing(p)
    \/ UpdateWrite(p) \/ UpdateCommit(p)
    \/ LoadDocument(p) \/ LoadParity(p)
    \/ AppendBegin(p) \/ AppendInsert(p)
    \/ Crash(p)

Next == \E p \in Procs : Step(p)

Spec == Init /\ [][Next]_vars

-----------------------------------------------------------------------------
\* Properties

\* Every variable has its type.
TypeOK ==
    /\ doc \in Document
    /\ tables \in 0..MaxRevision
    /\ ledger \in SUBSET Row
    /\ conn \in [Procs ->
         [pc: {"idle", "begun", "mutated", "written", "loading", "signing", "appending"},
          lock: {"none", "shared", "reserved"}, snap: Document, seen: SUBSET Row,
          row: Row \cup {NoRow},
          result: {"none", "ok", "busy", "conflict", "drift"}]]

\* A commit replaces only the document its transaction has read, whatever other
\* processes do between BeginTx and Commit.
NoLostUpdate ==
    [][\E p \in Procs : conn[p].pc = "written" /\ conn[p].snap = doc]_doc

\* A row is inserted only while its revision is the authority's: no update
\* commits between validateLedgerAuthority and the insert.
AppendsCurrent == [][\A r \in ledger' \ ledger : r.rev = doc.rev]_ledger

\* A row that a committed mutation has not seen was signed under the revision it
\* replaces: leaves of earlier revisions are all in the list that the deadline
\* of a retired root is computed from.
MissesOnlyCurrent == [][\A r \in ledger \ doc'.seen : r.rev = doc.rev]_doc

\* Of two overlapping updates at most one is committed; a row is inserted only
\* under the revision the authority database has at that moment, although it is
\* another database; and a committed mutation has seen all rows but some of the
\* revision it replaces.
SQLiteSerial == NoLostUpdate /\ AppendsCurrent /\ MissesOnlyCurrent

\* A committed mutation was computed from the whole ledger, so that the deadline
\* of a retired root covers every leaf signed under it ("required trust
\* window", PruneRoot).
\* (The code departs from this: "Departures observed" in the README.)
SeenComplete == [][doc'.seen = ledger]_doc

\* An update that meets another controller's is answered by what the other one
\* stored, never by the database's lock (README: "If another controller stages
\* a transaction concurrently, Ensure returns ConflictError").  It is stated of
\* the first write: there SQLite answers SQLITE_BUSY at once, whatever busy
\* timeout a connection has, because waiting would be a deadlock.
\* (The code departs from this: "Departures observed" in the README.)
RacesAnswered ==
    [][\A p \in Procs : conn[p].pc = "mutated" => conn'[p].result # "busy"]_conn

\* A load succeeds whatever other processes commit meanwhile (README: "Both
\* managers expose fresh persisted status through Status"): document and tables
\* always change in one transaction, so it never finds them apart.
\* (The code departs from this: "Departures observed" in the README.)
LoadsAgree == \A p \in Procs : conn[p].result # "drift"
=============================================================================
