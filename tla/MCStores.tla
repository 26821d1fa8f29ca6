------------------------------ MODULE MCStores ------------------------------
(***************************************************************************)
(* The stores of the certs package: the FileStore, and the SQLite store as *)
(* transactions (SQLiteStore) and as files (SQLiteFiles).  A behaviour is  *)
(* one of one of these views, and the variables of the others stay as they *)
(* are.                                                                    *)
(***************************************************************************)
EXTENDS FileStore, TLC

CONSTANTS
    p1, p2, p3,
    Views,             \* among "filestore", "transactions" and "files"
    SQLiteSerials,     \* serials a signature over SQLite may draw
    Owners,            \* processes that run as the configured owner
    FilesDeployments,  \* ways the files of SQLite may be used
    MaxFaults          \* bound: dying processes and failing calls in SQLiteFiles

-----------------------------------------------------------------------------
\* FileStore: two processes whose writes may fail and that may die, without a
\* purge; and one process that provisions, signs, purges and provisions again.
SafeDeployments == {[procs |-> {p1, p2}, purges |-> FALSE, faults |-> TRUE],
                    [procs |-> {p1}, purges |-> TRUE, faults |-> FALSE]}

\* Processes that also purge, while everything they do succeeds.
PurgeDeployments == {[procs |-> Procs, purges |-> TRUE, faults |-> FALSE]}

\* Sound where no process is told apart from another.
Symmetry == Permutations(Procs)

\* SQLiteFiles: two owners and a signing process without purges; one owner that
\* purges and provisions again.
SafeFilesDeployments == {[procs |-> {p1, p2, p3}, purges |-> FALSE],
                         [procs |-> {p1}, purges |-> TRUE]}

-----------------------------------------------------------------------------
VARIABLES
    view,                     \* one of Views
    doc, tables, rows, conn,  \* SQLiteStore
    file, dir, ledgerFile, provisions, opener, faults, use  \* SQLiteFiles

sqliteVars == <<doc, tables, rows, conn>>
filesVars == <<file, dir, ledgerFile, provisions, opener, faults, use>>

SQLite == INSTANCE SQLiteStore WITH Serials <- SQLiteSerials, ledger <- rows

Files == INSTANCE SQLiteFiles WITH
    Deployments <- FilesDeployments, ledger <- ledgerFile, authorities <- provisions,
    proc <- opener, deployment <- use

ASSUME StoresConstants == SQLite!SQLiteConstants /\ Files!SQLiteFilesConstants

MCInit ==
    /\ view \in Views
    /\ Init /\ SQLite!Init /\ Files!Init
    /\ view # "filestore" => deployment = CHOOSE d \in Deployments : d.purges
    /\ view # "files" => use.purges

MCNext ==
    /\ \/ view = "filestore" /\ Next /\ UNCHANGED <<sqliteVars, filesVars>>
       \/ view = "transactions" /\ SQLite!Next /\ UNCHANGED <<vars, filesVars>>
       \/ view = "files" /\ Files!Next /\ UNCHANGED <<vars, sqliteVars>>
    /\ UNCHANGED view

\* The fairness of SQLiteFiles.
MCSpec ==
    /\ MCInit /\ [][MCNext]_<<view, vars, sqliteVars, filesVars>>
    /\ \A p \in Owners :
         /\ WF_filesVars(view = "files" /\ p \in use.procs /\ Files!Provide(p))
         /\ SF_filesVars(view = "files" /\ p \in use.procs /\ Files!ProvisionBegin(p))

-----------------------------------------------------------------------------
\* Every variable of the three modules has its type.
TypesOK == TypeOK /\ SQLite!TypeOK /\ Files!TypeOK

\* In both stores a ledger holds records of its own authority only, unless a
\* purge stopped before it removed the ledger; whoever reads it under a lock
\* sees whole lines; and a committed authority has a ledger that opens, wherever
\* provisioning was interrupted before.
LedgersSound ==
    /\ WholeUnderLock /\ LedgerBelongs
    /\ Files!LedgerBelongs /\ Files!Usable

\* Nothing is written behind a line that a dying process left torn, and an
\* authority that has inherited rows of another one is not changed or signed
\* for: the ledger check stops both.
DamageStops == NothingAfterTorn /\ Files!ForeignLedgerStops

\* Over SQLite, of two overlapping updates at most one is committed; a row is
\* inserted only under the revision the authority database has at that moment,
\* although it is another database; and a committed mutation has seen all rows
\* but some of the revision it replaces.
SQLiteSerial == SQLite!SQLiteSerial

\* A controller that tries again provisions the authority in the end, unless
\* an attempt died between making a file and setting its mode.
FilesProvisionsOrLeft == view = "files" => Files!ProvisionsOrLeft

\* A mutation has seen every row that is in the ledger when it is committed:
\* the trust window of a retired root is computed from them.
\* (The code departs from this: "Departures observed" in the README.)
SQLiteSeenComplete == SQLite!SeenComplete
=============================================================================
