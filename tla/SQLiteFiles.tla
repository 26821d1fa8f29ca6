---------------------------- MODULE SQLiteFiles -----------------------------
(***************************************************************************)
(* The files of a SQLiteStore of the certs package (sqlite_store.go): how  *)
(* NewSQLiteStore makes the authority database, how the first update makes *)
(* the ledger's directory and database, and how purge removes them one by  *)
(* one.  SQLite creates a file with its own mode and os.Mkdir obeys the    *)
(* umask, so what was just made has the wrong mode ("raw") until the chmod *)
(* and chown that follow; what is found is only checked.                   *)
(*                                                                         *)
(* The store is the split-principal one: Owners run authority managers,    *)
(* the other processes open the database read-only and sign.  A statement  *)
(* or transaction on an open database is one step here; SQLiteStore takes  *)
(* it apart.  A purge runs while no other process uses the store.          *)
(***************************************************************************)
EXTENDS Integers

CONSTANTS
    Procs,           \* processes that use the store
    Owners,          \* those that run as the configured owner
    Deployments,     \* ways the store may be used, see Deployment
    MaxAuthorities,  \* bound: authorities provisioned one after the other
    MaxRevision,     \* bound: revisions of one authority
    MaxFaults        \* bound: processes that die and system calls that fail

\* Who uses the store and whether the authority may be purged.
Deployment == [procs: SUBSET Procs, purges: BOOLEAN]

SQLiteFilesConstants ==
    /\ Owners \subseteq Procs
    /\ Deployments \subseteq Deployment
    /\ MaxAuthorities \in Nat /\ MaxRevision \in Nat /\ MaxFaults \in Nat

VARIABLES
    file,         \* the authority database: its mode and the state it holds
    dir,          \* mode of the ledger's directory
    ledger,       \* ledger.sqlite: its mode, the authorities it has rows of
    authorities,  \* authorities provisioned so far
    proc,         \* each process: where it is, the revision it signs under
    faults,       \* faults so far
    deployment    \* one of Deployments, for the whole behaviour

vars == <<file, dir, ledger, authorities, proc, faults, deployment>>

Phase == {"absent", "raw", "proper"}
NoFile == [phase |-> "absent", id |-> 0, rev |-> 0]
NoLedger == [phase |-> "absent", ids |-> {}]
Closed == [pc |-> "closed", rev |-> 0]

Init ==
    /\ file = NoFile /\ dir = "absent" /\ ledger = NoLedger
    /\ authorities = 0 /\ faults = 0
    /\ proc = [p \in Procs |-> Closed]
    /\ deployment \in Deployments

At(p, pc) == proc[p].pc = pc
Goto(p, pc) == proc' = [proc EXCEPT ![p].pc = pc]

\* The mode a just created file or directory has after chmod and chown; the
\* calls fail when the name is gone.
Fixed(phase) == IF phase = "absent" THEN phase ELSE "proper"

\* validateSQLiteLedgerDirectory, validateSQLiteLedgerFile and the same checks
\* on the authority.
Accepts(phase) == phase = "proper"

-----------------------------------------------------------------------------
\* NewSQLiteStore and Close

\* Lstat of the authority.  A file that is there must have its mode already,
\* and only the owner may make it.
OpenStat(p) ==
    /\ At(p, "closed")
    /\ \/ file.phase = "absent" /\ p \in Owners /\ Goto(p, "migrate")
       \/ Accepts(file.phase) /\ Goto(p, IF p \in Owners THEN "migrate" ELSE "open")
    /\ UNCHANGED <<file, dir, ledger, authorities, faults, deployment>>

\* The first statement creates the file; all of them may be repeated, and none
\* touches the state.
migrate(f) == IF f.phase = "absent" THEN [f EXCEPT !.phase = "raw"] ELSE f

OpenMigrate(p) ==
    /\ At(p, "migrate")
    /\ file' = migrate(file)
    /\ Goto(p, "chmod")
    /\ UNCHANGED <<dir, ledger, authorities, faults, deployment>>

\* Mutant: the mode is left as SQLite made it.
OpenChmodNot(p) ==
    /\ At(p, "chmod")
    /\ Goto(p, "open")
    /\ UNCHANGED <<file, dir, ledger, authorities, faults, deployment>>

OpenChmod(p) ==
    /\ At(p, "chmod")
    /\ file' = [file EXCEPT !.phase = Fixed(@)]
    /\ Goto(p, "open")
    /\ UNCHANGED <<dir, ledger, authorities, faults, deployment>>

Close(p) ==
    /\ At(p, "open")
    /\ proc' = [proc EXCEPT ![p] = Closed]
    /\ UNCHANGED <<file, dir, ledger, authorities, faults, deployment>>

-----------------------------------------------------------------------------
\* The first update: the state is written inside the transaction, openLedger
\* runs, and the transaction commits.

Provisioning(p) == proc[p].pc \in {"dir", "dirmode", "ledger", "ledgermode", "commit"}

\* A second writer does not get the database (SQLITE_BUSY) and tries again.
ProvisionBegin(p) ==
    /\ At(p, "open") /\ p \in Owners
    /\ file.rev = 0 /\ authorities < MaxAuthorities
    /\ \A q \in Procs : ~Provisioning(q)
    /\ Goto(p, "dir")
    /\ UNCHANGED <<file, dir, ledger, authorities, faults, deployment>>

\* Mutant: the directory must not exist.
ProvisionDirOnce(p) ==
    /\ At(p, "dir")
    /\ \/ /\ dir = "absent"
          /\ dir' = "raw"
          /\ Goto(p, "dirmode")
       \/ /\ dir # "absent"
          /\ Goto(p, "open")
          /\ UNCHANGED dir
    /\ UNCHANGED <<file, ledger, authorities, faults, deployment>>

ProvisionDir(p) ==
    /\ At(p, "dir")
    /\ \/ /\ dir = "absent"
          /\ dir' = "raw"
          /\ Goto(p, "dirmode")
       \/ /\ dir # "absent"
          /\ Goto(p, IF Accepts(dir) THEN "ledger" ELSE "open")
          /\ UNCHANGED dir
    /\ UNCHANGED <<file, ledger, authorities, faults, deployment>>

ProvisionDirMode(p) ==
    /\ At(p, "dirmode")
    /\ dir' = Fixed(dir)
    /\ Goto(p, "ledger")
    /\ UNCHANGED <<file, ledger, authorities, faults, deployment>>

\* A ledger that is there is checked; otherwise the statements create it.
ProvisionLedger(p) ==
    /\ At(p, "ledger")
    /\ \/ /\ ledger.phase = "absent"
          /\ ledger' = [ledger EXCEPT !.phase = "raw"]
          /\ Goto(p, "ledgermode")
       \/ /\ ledger.phase # "absent"
          /\ Goto(p, IF Accepts(ledger.phase) THEN "commit" ELSE "open")
          /\ UNCHANGED ledger
    /\ UNCHANGED <<file, dir, authorities, faults, deployment>>

ProvisionLedgerMode(p) ==
    /\ At(p, "ledgermode")
    /\ ledger' = [ledger EXCEPT !.phase = Fixed(@)]
    /\ Goto(p, "commit")
    /\ UNCHANGED <<file, dir, authorities, faults, deployment>>

ProvisionCommit(p) ==
    /\ At(p, "commit")
    /\ authorities' = authorities + 1
    /\ file' = [file EXCEPT !.id = authorities', !.rev = 1]
    /\ Goto(p, "open")
    /\ UNCHANGED <<dir, ledger, faults, deployment>>

-----------------------------------------------------------------------------
\* What an authority does afterwards

\* openLedgerReadOnly and openLedgerWriteExisting check both modes.
LedgerOpens == Accepts(dir) /\ Accepts(ledger.phase)

\* validateLedgerRecords: a row is signed by a key of the authority.
Belong == ledger.ids \subseteq {file.id}

\* Mutant: the ledger's rows are not compared with the state.
UpdateAnyway(p) ==
    /\ At(p, "open") /\ p \in Owners
    /\ file.rev \in 1..(MaxRevision - 1)
    /\ LedgerOpens
    /\ file' = [file EXCEPT !.rev = @ + 1]
    /\ UNCHANGED <<dir, ledger, authorities, proc, faults, deployment>>

\* update of an authority that is there.
Update(p) ==
    /\ At(p, "open") /\ p \in Owners
    /\ file.rev \in 1..(MaxRevision - 1)
    /\ LedgerOpens /\ Belong
    /\ file' = [file EXCEPT !.rev = @ + 1]
    /\ UNCHANGED <<dir, ledger, authorities, proc, faults, deployment>>

\* Mutant: a database without an authority is signed under as well.
SignLoadUnprovisioned(p) ==
    /\ At(p, "open")
    /\ LedgerOpens /\ Belong
    /\ proc' = [proc EXCEPT ![p] = [pc |-> "signing", rev |-> file.rev]]
    /\ UNCHANGED <<file, dir, ledger, authorities, faults, deployment>>

\* SignCSR loads the state and validates the ledger against it ...
SignLoad(p) ==
    /\ At(p, "open")
    /\ file.rev > 0 /\ LedgerOpens /\ Belong
    /\ proc' = [proc EXCEPT ![p] = [pc |-> "signing", rev |-> file.rev]]
    /\ UNCHANGED <<file, dir, ledger, authorities, faults, deployment>>

\* ... and appendLedger records the leaf, or finds another revision.
SignAppend(p) ==
    /\ At(p, "signing")
    /\ \/ /\ file.rev = proc[p].rev /\ LedgerOpens
          /\ ledger' = [ledger EXCEPT !.ids = @ \cup {file.id}]
       \/ /\ file.rev # proc[p].rev
          /\ UNCHANGED ledger
    /\ proc' = [proc EXCEPT ![p] = [pc |-> "open", rev |-> 0]]
    /\ UNCHANGED <<file, dir, authorities, faults, deployment>>

-----------------------------------------------------------------------------
\* purge

\* Purge has loaded the state; the database is closed and removed.
PurgeFile(p) ==
    /\ deployment.purges
    /\ At(p, "open") /\ p \in Owners
    /\ file.rev > 0
    /\ file' = NoFile
    /\ Goto(p, "purgeledger")
    /\ UNCHANGED <<dir, ledger, authorities, faults, deployment>>

\* Mutant: only the authority database is removed.
PurgeLedgerKept(p) ==
    /\ At(p, "purgeledger")
    /\ proc' = [proc EXCEPT ![p] = Closed]
    /\ UNCHANGED <<file, dir, ledger, authorities, faults, deployment>>

PurgeLedger(p) ==
    /\ At(p, "purgeledger")
    /\ ledger' = NoLedger
    /\ Goto(p, "purgedir")
    /\ UNCHANGED <<file, dir, authorities, faults, deployment>>

\* The store has no database after it: its process has to open a new one.
PurgeDir(p) ==
    /\ At(p, "purgedir")
    /\ dir' = "absent"
    /\ proc' = [proc EXCEPT ![p] = Closed]
    /\ UNCHANGED <<file, ledger, authorities, faults, deployment>>

-----------------------------------------------------------------------------
\* The process dies, or the next system call of its operation fails: a
\* transaction that has not committed is rolled back, files stay as they are.
Fault(p) ==
    /\ faults < MaxFaults
    /\ ~At(p, "closed")
    /\ faults' = faults + 1
    /\ \/ proc' = [proc EXCEPT ![p] = Closed]
       \/ /\ Provisioning(p) \/ At(p, "signing")
          /\ proc' = [proc EXCEPT ![p] = [pc |-> "open", rev |-> 0]]
    /\ UNCHANGED <<file, dir, ledger, authorities, deployment>>

\* NewSQLiteStore and Ensure until there is an authority.
Provide(p) ==
    \/ OpenStat(p) \/ OpenMigrate(p) \/ OpenChmod(p)
    \/ ProvisionBegin(p) \/ ProvisionDir(p) \/ ProvisionDirMode(p)
    \/ ProvisionLedger(p) \/ ProvisionLedgerMode(p) \/ ProvisionCommit(p)

Step(p) ==
    \/ Provide(p) \/ Close(p)
    \/ Update(p) \/ SignLoad(p) \/ SignAppend(p)
    \/ PurgeFile(p) \/ PurgeLedger(p) \/ PurgeDir(p)
    \/ Fault(p)

Next == \E p \in deployment.procs : Step(p)

Spec == Init /\ [][Next]_vars

\* A controller opens the store and calls Ensure again and again (README: "A
\* periodic authority controller"), so it does not stop on the way; one that
\* closes the store opens it again, and keeps it open long enough for Ensure to
\* begin from time to time.
FairSpec ==
    /\ Spec
    /\ \A p \in Owners : /\ WF_vars(p \in deployment.procs /\ Provide(p))
                         /\ SF_vars(p \in deployment.procs /\ ProvisionBegin(p))

-----------------------------------------------------------------------------
\* Properties

\* Every variable has its type; there is an authority only in a database.
TypeOK ==
    /\ file \in [phase: Phase, id: 0..authorities, rev: 0..MaxRevision]
    /\ file.phase = "absent" => file = NoFile
    /\ dir \in Phase
    /\ ledger \in [phase: Phase, ids: SUBSET (1..authorities)]
    /\ authorities \in 0..MaxAuthorities
    /\ proc \in [Procs ->
         [pc: {"closed", "migrate", "chmod", "open", "dir", "dirmode", "ledger",
               "ledgermode", "commit", "signing", "purgeledger", "purgedir"},
          rev: 0..MaxRevision]]
    /\ faults \in 0..MaxFaults
    /\ deployment \in Deployments

\* An authority that has been committed has its ledger, with the modes every
\* later update and signature demands, and its database is one every later
\* NewSQLiteStore accepts, whenever processes die.
Usable == file.rev > 0 => file.phase = "proper" /\ LedgerOpens

\* A process opens the store and finds an authority only with its own rows in
\* the ledger, unless a purge was interrupted.
LedgerBelongs ==
    faults = 0 \/ ~deployment.purges => (file.rev > 0 => Belong)

\* An interrupted purge leaves its ledger to the next authority.  That one then
\* neither changes its state nor signs: both stop at the foreign rows.
ForeignLedgerStops ==
    [][file.rev > 0 /\ ~Belong => ledger' \in {ledger, NoLedger} /\ file' \in {file, NoFile}]_vars

\* The file, the directory or the ledger of a failed attempt has the wrong mode.
Left == file.phase = "raw" \/ dir = "raw" \/ ledger.phase = "raw"

\* Without purges the store comes to have an authority, however the processes
\* interleave and die, unless an attempt stopped between making a file and
\* setting its mode.
ProvisionsOrLeft == ~deployment.purges => <>[](file.rev > 0 \/ Left)

\* Without purges the store comes to have an authority (README: "Ensure
\* provisions missing material").
\* (The code departs from this: "Departures observed" in the README.)
Provisions == ~deployment.purges => <>(file.rev > 0)
=============================================================================
