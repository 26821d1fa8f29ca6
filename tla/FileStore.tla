----------------------------- MODULE FileStore ------------------------------
(***************************************************************************)
(* The FileStore of the certs package (file_store.go, security_unix.go):   *)
(* ca.json replaced by rename, ca.lock and ledger/ledger.lock taken with   *)
(* flock, the ledger appended line by line, and a purge that removes one   *)
(* file after the other and ca.lock itself last.                           *)
(*                                                                         *)
(* Processes run updates (AuthorityManager), purges and signatures         *)
(* (IssuerManager).  The issuance mode is Ledger; every mutation is taken  *)
(* to renew the issuer version, so a record's version is its revision.     *)
(* flock locks an inode: a process that opened ca.lock keeps waiting for,  *)
(* and gets, the lock of the file it opened, also when the name is gone.   *)
(***************************************************************************)
EXTENDS Integers

CONSTANTS
    Procs,          \* processes that have opened the store
    Serials,        \* serials a signature may draw
    Deployments,    \* ways the store may be used, see Deployment
    MaxAuthorities, \* bound: authorities provisioned one after the other
    MaxRevision,    \* bound: revisions of one authority
    MaxInodes       \* bound: ca.lock files created one after the other

\* Who uses the store, whether the authority may be purged, and whether a
\* process may die and a write may fail.
Deployment == [procs: SUBSET Procs, purges: BOOLEAN, faults: BOOLEAN]

ASSUME FileStoreConstants ==
    /\ Deployments \subseteq Deployment
    /\ MaxAuthorities \in Nat /\ MaxRevision \in Nat \ {0} /\ MaxInodes \in Nat

VARIABLES
    state,        \* ca.json
    ledger,       \* ledger/: its permissions, its lines, a line cut short
    lockFile,     \* inode named ca.lock, 0 if there is none
    inodes,       \* inodes made for ca.lock so far
    authorities,  \* authorities provisioned so far
    proc,         \* the processes
    deployment    \* one of Deployments, for the whole behaviour

vars == <<state, ledger, lockFile, inodes, authorities, proc, deployment>>

NoState == [id |-> 0, rev |-> 0, seen |-> {}]
NoRecord == [id |-> 0, rev |-> 0, serial |-> 0]
NoLedger == [phase |-> "absent", recs |-> {}, partial |-> FALSE]
Idle == [op |-> "none", pc |-> "idle", fd |-> 0, held |-> "none",
         ledgerLock |-> FALSE, snap |-> NoState, seen |-> {}, rec |-> NoRecord]

Record == [id: 1..MaxAuthorities, rev: 1..MaxRevision, serial: Serials]
Document == [id: 0..MaxAuthorities, rev: 0..MaxRevision, seen: SUBSET Record]

Init ==
    /\ state = NoState
    /\ ledger = NoLedger
    /\ lockFile = 0 /\ inodes = 0 /\ authorities = 0
    /\ proc = [p \in Procs |-> Idle]
    /\ deployment \in Deployments

-----------------------------------------------------------------------------
\* Locks

\* withLock opens ca.lock, and creates it if it is not there; Purge first
\* loads the state it is asked to remove.
OpenLock(p, op) ==
    /\ proc[p].pc = "idle"
    /\ op = "purge" => deployment.purges /\ state # NoState
    /\ IF lockFile = 0
       THEN /\ inodes < MaxInodes
            /\ inodes' = inodes + 1
            /\ lockFile' = inodes + 1
       ELSE UNCHANGED <<inodes, lockFile>>
    /\ proc' = [proc EXCEPT ![p] = [Idle EXCEPT !.op = op, !.pc = "open", !.fd = lockFile']]
    /\ UNCHANGED <<deployment, state, ledger, authorities>>

\* Locks another process holds on the same inode.
OtherLocks(p) ==
    {proc[q].held : q \in {x \in Procs \ {p} : proc[x].fd = proc[p].fd}} \ {"none"}

\* acquireFileLock and acquireFileReadLock poll until flock succeeds.
AcquireLock(p) ==
    /\ proc[p].pc = "open"
    /\ IF proc[p].op = "sign" THEN "ex" \notin OtherLocks(p) ELSE OtherLocks(p) = {}
    /\ proc' = [proc EXCEPT ![p].pc = "locked",
                            ![p].held = IF proc[p].op = "sign" THEN "sh" ELSE "ex"]
    /\ UNCHANGED <<deployment, state, ledger, lockFile, inodes, authorities>>

LedgerLocked(p) == \E q \in Procs \ {p} : proc[q].ledgerLock

\* The context is done while the process waits for a lock.
Cancel(p) ==
    /\ proc[p].pc \in {"open", "append"}
    /\ proc' = [proc EXCEPT ![p] = Idle]
    /\ UNCHANGED <<deployment, state, ledger, lockFile, inodes, authorities>>

\* Closing the files gives up both locks.  A purge that got this far removes
\* the name of the lock file afterwards, without the lock.
Release(p) ==
    /\ proc[p].pc \in {"release", "purged"}
    /\ proc' = [proc EXCEPT ![p] = IF proc[p].pc = "purged"
                                   THEN [Idle EXCEPT !.op = "purge", !.pc = "unlink"]
                                   ELSE Idle]
    /\ UNCHANGED <<deployment, state, ledger, lockFile, inodes, authorities>>

-----------------------------------------------------------------------------
\* update

UpdateLoad(p) ==
    /\ proc[p].pc = "locked" /\ proc[p].op = "update"
    /\ proc' = [proc EXCEPT ![p].snap = state,
                            ![p].pc = IF state = NoState THEN "fresh" ELSE "loaded"]
    /\ UNCHANGED <<deployment, state, ledger, lockFile, inodes, authorities>>

\* validateLedgerRecords; a record's id stands for the key that signed it.
Belong(s, recs) == \A r \in recs : r.rev <= s.rev /\ r.id = s.id

Readable == ledger.phase = "ready" /\ ~ledger.partial

\* validateLedgerStorage, readLedger (here without ledger.lock) and
\* validateLedgerRecords.
UpdateCheck(p) ==
    /\ proc[p].pc = "loaded"
    /\ proc' = [proc EXCEPT ![p].pc =
                  IF Readable /\ Belong(proc[p].snap, ledger.recs) THEN "checked"
                  ELSE "release"]
    /\ UNCHANGED <<deployment, state, ledger, lockFile, inodes, authorities>>

\* The mutation.  ledgerTrustDeadline lists the ledger again, now under
\* ledger.lock; a mutation may also find nothing to do or fail.
UpdateMutate(p) ==
    /\ proc[p].pc = "checked"
    /\ proc[p].snap.rev < MaxRevision
    /\ ~LedgerLocked(p)
    /\ proc' = IF Readable
               THEN [proc EXCEPT ![p].pc = "mutated", ![p].seen = ledger.recs]
               ELSE [proc EXCEPT ![p].pc = "release"]
    /\ UNCHANGED <<deployment, state, ledger, lockFile, inodes, authorities>>

UpdateNothing(p) ==
    /\ proc[p].pc = "checked"
    /\ proc' = [proc EXCEPT ![p].pc = "release"]
    /\ UNCHANGED <<deployment, state, ledger, lockFile, inodes, authorities>>

\* ensureLedger makes the directory and its files and then sets their mode and
\* owner; what it finds there already it only checks.
EnsureLedger(p) ==
    /\ proc[p].pc = "fresh"
    /\ authorities < MaxAuthorities
    /\ \/ /\ ledger.phase = "absent"
          /\ ledger' = [ledger EXCEPT !.phase = "raw"]
          /\ proc' = [proc EXCEPT ![p].pc = "creating"]
       \/ /\ ledger.phase # "absent"
          /\ proc' = [proc EXCEPT ![p].pc =
                        IF ledger.phase = "ready" THEN "mutated" ELSE "release"]
          /\ UNCHANGED ledger
    /\ UNCHANGED <<deployment, state, lockFile, inodes, authorities>>

EnsureLedgerMode(p) ==
    /\ proc[p].pc = "creating"
    /\ \/ /\ ledger' = [ledger EXCEPT !.phase = "ready"]
          /\ proc' = [proc EXCEPT ![p].pc = "mutated"]
       \/ /\ deployment.faults
          /\ proc' = [proc EXCEPT ![p].pc = "release"]
          /\ UNCHANGED ledger
    /\ UNCHANGED <<deployment, state, lockFile, inodes, authorities>>

\* The document the mutation produced from the one that was loaded.
Mutated(p) ==
    IF proc[p].snap = NoState THEN [id |-> authorities + 1, rev |-> 1, seen |-> {}]
    ELSE [proc[p].snap EXCEPT !.rev = @ + 1, !.seen = proc[p].seen]

\* writeState: nothing is visible before the rename.
WriteState(p) ==
    /\ proc[p].pc = "mutated"
    /\ proc[p].snap = NoState => authorities < MaxAuthorities
    /\ \/ /\ state' = Mutated(p)
          /\ authorities' = IF proc[p].snap = NoState THEN authorities + 1 ELSE authorities
       \/ /\ deployment.faults
          /\ UNCHANGED <<state, authorities>>
    /\ proc' = [proc EXCEPT ![p].pc = "release"]
    /\ UNCHANGED <<deployment, ledger, lockFile, inodes>>

-----------------------------------------------------------------------------
\* purge

PurgeState(p) ==
    /\ proc[p].pc = "locked" /\ proc[p].op = "purge"
    /\ state' = NoState
    /\ proc' = [proc EXCEPT ![p].pc = "purging"]
    /\ UNCHANGED <<deployment, ledger, lockFile, inodes, authorities>>

\* Mutant: the ledger is left in place.
PurgeLedgerKept(p) ==
    /\ proc[p].pc = "purging"
    /\ proc' = [proc EXCEPT ![p].pc = "purged"]
    /\ UNCHANGED <<deployment, state, ledger, lockFile, inodes, authorities>>

PurgeLedger(p) ==
    /\ proc[p].pc = "purging"
    /\ ledger' = NoLedger
    /\ proc' = [proc EXCEPT ![p].pc = "purged"]
    /\ UNCHANGED <<deployment, state, lockFile, inodes, authorities>>

PurgeLock(p) ==
    /\ proc[p].pc = "unlink"
    /\ lockFile' = 0
    /\ proc' = [proc EXCEPT ![p] = Idle]
    /\ UNCHANGED <<deployment, state, ledger, inodes, authorities>>

-----------------------------------------------------------------------------
\* Signing: load, lookupLedger, appendLedger

\* Mutant: a missing ca.json is read as an empty authority.
LoadMissing(p) ==
    /\ proc[p].pc = "idle"
    /\ \E n \in Serials :
         proc' = [proc EXCEPT ![p] =
                    [Idle EXCEPT !.op = "sign", !.pc = "view",
                                 !.rec = [id |-> state.id, rev |-> state.rev, serial |-> n]]]
    /\ UNCHANGED <<deployment, state, ledger, lockFile, inodes, authorities>>

Load(p) ==
    /\ proc[p].pc = "idle"
    /\ state # NoState
    /\ \E n \in Serials :
         proc' = [proc EXCEPT ![p] =
                    [Idle EXCEPT !.op = "sign", !.pc = "view",
                                 !.rec = [id |-> state.id, rev |-> state.rev, serial |-> n]]]
    /\ UNCHANGED <<deployment, state, ledger, lockFile, inodes, authorities>>

SameKey(r, x) == r.rev = x.rev /\ r.serial = x.serial

\* lookupLedger reads the file without a lock.  If the serial is free and the
\* ledger's storage is in order, appendLedger opens ca.lock for reading.
LookupLedger(p) ==
    /\ proc[p].pc = "view"
    /\ proc' = [proc EXCEPT ![p] =
                  IF /\ Readable
                     /\ \A x \in ledger.recs : ~SameKey(proc[p].rec, x)
                     /\ lockFile # 0
                  THEN [@ EXCEPT !.pc = "open", !.fd = lockFile]
                  ELSE Idle]
    /\ UNCHANGED <<deployment, state, ledger, lockFile, inodes, authorities>>

\* Mutant: the record is not compared with the state it is recorded under.
AppendLoadUnchecked(p) ==
    /\ proc[p].pc = "locked" /\ proc[p].op = "sign"
    /\ proc' = [proc EXCEPT ![p].pc = IF state # NoState THEN "append" ELSE "release"]
    /\ UNCHANGED <<deployment, state, ledger, lockFile, inodes, authorities>>

\* load and validateLedgerAuthority under the read lock.
AppendLoad(p) ==
    /\ proc[p].pc = "locked" /\ proc[p].op = "sign"
    /\ proc' = [proc EXCEPT ![p].pc =
                  IF state # NoState /\ state.rev = proc[p].rec.rev THEN "append"
                  ELSE "release"]
    /\ UNCHANGED <<deployment, state, ledger, lockFile, inodes, authorities>>

\* Mutant: the records are read before ledger.lock is taken.
AppendLockUnlocked(p) ==
    /\ proc[p].pc = "append"
    /\ proc' = [proc EXCEPT ![p].pc = "appending"]
    /\ UNCHANGED <<deployment, state, ledger, lockFile, inodes, authorities>>

AppendLock(p) ==
    /\ proc[p].pc = "append"
    /\ ~LedgerLocked(p)
    /\ proc' = [proc EXCEPT ![p].pc = "appending", ![p].ledgerLock = TRUE]
    /\ UNCHANGED <<deployment, state, ledger, lockFile, inodes, authorities>>

\* Mutant: an incomplete last line is skipped.
AppendReadLenient(p) ==
    /\ proc[p].pc = "appending"
    /\ IF ledger.phase = "ready" /\ \A x \in ledger.recs : ~SameKey(proc[p].rec, x)
       THEN /\ ledger' = [ledger EXCEPT !.partial = TRUE]
            /\ proc' = [proc EXCEPT ![p].pc = "writing"]
       ELSE /\ proc' = [proc EXCEPT ![p].pc = "release"]
            /\ UNCHANGED ledger
    /\ UNCHANGED <<deployment, state, lockFile, inodes, authorities>>

\* appendLedgerRecord reads the ledger, refuses a serial that is on record and
\* starts to write the line.
AppendRead(p) ==
    /\ proc[p].pc = "appending"
    /\ IF Readable /\ \A x \in ledger.recs : ~SameKey(proc[p].rec, x)
       THEN /\ ledger' = [ledger EXCEPT !.partial = TRUE]
            /\ proc' = [proc EXCEPT ![p].pc = "writing"]
       ELSE /\ proc' = [proc EXCEPT ![p].pc = "release"]
            /\ UNCHANGED ledger
    /\ UNCHANGED <<deployment, state, lockFile, inodes, authorities>>

AppendWrite(p) ==
    /\ proc[p].pc = "writing"
    /\ \/ ledger' = [ledger EXCEPT !.partial = FALSE, !.recs = @ \cup {proc[p].rec}]
       \/ deployment.faults /\ UNCHANGED ledger
    /\ proc' = [proc EXCEPT ![p].pc = "release"]
    /\ UNCHANGED <<deployment, state, lockFile, inodes, authorities>>

-----------------------------------------------------------------------------
\* The process dies; the kernel drops its locks.
Crash(p) ==
    /\ deployment.faults
    /\ proc[p].pc # "idle"
    /\ proc' = [proc EXCEPT ![p] = Idle]
    /\ UNCHANGED <<deployment, state, ledger, lockFile, inodes, authorities>>

Step(p) ==
    \/ \E op \in {"update", "purge"} : OpenLock(p, op)
    \/ AcquireLock(p) \/ Cancel(p) \/ Release(p)
    \/ UpdateLoad(p) \/ UpdateCheck(p) \/ UpdateMutate(p) \/ UpdateNothing(p)
    \/ EnsureLedger(p) \/ EnsureLedgerMode(p) \/ WriteState(p)
    \/ PurgeState(p) \/ PurgeLedger(p) \/ PurgeLock(p)
    \/ Load(p) \/ LookupLedger(p)
    \/ AppendLoad(p) \/ AppendLock(p) \/ AppendRead(p) \/ AppendWrite(p)
    \/ Crash(p)

Next == \E p \in deployment.procs : Step(p)

Spec == Init /\ [][Next]_vars

-----------------------------------------------------------------------------
\* Properties

\* Every variable has its type.
TypeOK ==
    /\ deployment \in Deployments
    /\ state \in Document
    /\ ledger \in [phase: {"absent", "raw", "ready"}, recs: SUBSET Record, partial: BOOLEAN]
    /\ inodes \in 0..MaxInodes
    /\ lockFile \in 0..inodes
    /\ authorities \in 0..MaxAuthorities
    /\ proc \in [Procs ->
         [op: {"none", "update", "purge", "sign"},
          pc: {"idle", "open", "locked", "release", "fresh", "creating", "loaded",
               "checked", "mutated", "purging", "purged", "unlink", "view",
               "append", "appending", "writing"},
          fd: 0..inodes, held: {"none", "sh", "ex"}, ledgerLock: BOOLEAN,
          snap: Document, seen: SUBSET Record, rec: Record \cup {NoRecord}]]

\* Some process is in the middle of writing its line.
Writing == \E p \in Procs : proc[p].pc = "writing"

\* The last line is cut short for good: a write failed or its process died.
Torn == ledger.partial /\ ~Writing

\* While no purge overlaps with another operation, every change of ca.json and of the ledger is one step
\* of AtomicStore: updates do not overwrite each other, the ledger a mutation
\* reads does not grow before the mutation is written, and a record is only
\* appended to the document it was signed under.  Failed writes and deaths of
\* processes are stuttering steps.
Atomic == INSTANCE AtomicStore
            WITH records <- IF state = NoState THEN {} ELSE ledger.recs
AtomicSpec == Atomic!Spec

\* A reader that holds ca.lock or ledger.lock never sees the unfinished line of
\* a running append, only one that was cut short for good.
WholeUnderLock ==
    \A p \in Procs : proc[p].pc \in {"loaded", "checked", "appending"} =>
        ~Writing

\* After a line was cut short nothing is recorded behind it and no update
\* replaces the document: every later reader stops at the damage.
NothingAfterTorn ==
    [][Torn => UNCHANGED <<state, ledger>> /\ ~Writing']_vars

\* An update replaces only the document it has read, so of two concurrent
\* updates the second one sees what the first one wrote (README: "If another
\* controller stages a transaction concurrently, Ensure returns
\* ConflictError").
\* (The code departs from this: "Departures observed" in the README.)
NoLostUpdate ==
    [][state' # NoState =>
         \E p \in Procs : proc[p].pc = "mutated" /\ proc[p].snap = state]_state

\* The ledger of an authority holds only its own records: the check
\* validateLedgerRecords makes before every update and signature.
LedgerBelongs == state # NoState => Belong(state, ledger.recs)

\* Concurrent signatures do not disturb each other (TestConcurrentLedgerSigning
\* expects every one of them to succeed): lookupLedger, which reads the ledger
\* without its lock, gives up only because the serial is on record.
\* (The code departs from this: "Departures observed" in the README.)
SignersUndisturbed ==
    [][\A p \in Procs : proc[p].pc = "view" /\ proc'[p].pc = "idle" =>
         \E x \in ledger.recs : SameKey(proc[p].rec, x)]_proc

\* Provisioning can be repeated after an attempt that failed or died (README:
\* "Ensure provisions missing material"): ensureLedger goes on with what the
\* attempt left behind.
\* (The code departs from this: "Departures observed" in the README.)
ProvisionResumes ==
    [][\A p \in Procs : proc[p].pc = "fresh" => proc'[p].pc # "release"]_proc
=============================================================================
