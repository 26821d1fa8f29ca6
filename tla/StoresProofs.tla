---------------------------- MODULE StoresProofs ----------------------------
(***************************************************************************)
(* Proofs about the two stores of an authority, each by itself and as      *)
(* MCStores puts them side by side.                                        *)
(*                                                                         *)
(* FileStore: with any number of processes, and with failing writes and    *)
(* dying processes, the two flocks make the files behave as the            *)
(* AtomicStore, as long as nobody purges while others use the store.       *)
(*                                                                         *)
(* SQLite: the locks of one database, without a busy timeout and across a  *)
(* second database, are enough to make updates and appends serial, for any *)
(* number of processes and any crashes; and its files, made one by one     *)
(* with a mode that is set afterwards, are usable whenever they hold an    *)
(* authority, wherever a process died.                                     *)
(***************************************************************************)
EXTENDS MCStores, TLAPS

-----------------------------------------------------------------------------
\* FileStore

(***************************************************************************)
(* Where an authority is purged, one process uses the store and what it    *)
(* does succeeds.  Without this the store loses updates: run filepurge.    *)
(***************************************************************************)
PurgesAlone ==
    \A d \in Deployments :
        d.purges => ~d.faults /\ \A p, q \in d.procs : p = q

Process ==
    [op: {"none", "update", "purge", "sign"},
     pc: {"idle", "open", "locked", "release", "fresh", "creating", "loaded",
          "checked", "mutated", "purging", "purged", "unlink", "view",
          "append", "appending", "writing"},
     fd: 0..inodes, held: {"none", "sh", "ex"}, ledgerLock: BOOLEAN,
     snap: Document, seen: SUBSET Record, rec: Record \cup {NoRecord}]

(***************************************************************************)
(* The inductive invariant.  LockOK: which locks go with which step, and   *)
(* that every open descriptor is the present ca.lock, for it is only       *)
(* unlinked by a process that is alone.  SignOK, UpdateOK and PurgeOK:     *)
(* what a process that holds a lock knows of the files.                    *)
(***************************************************************************)
Unlocked == {"idle", "open", "view", "unlink"}

LockOK(c) ==
    /\ c.op = "none" => c = Idle
    /\ c.pc = "idle" => c = Idle
    /\ c.pc \in {"idle", "view", "unlink"} <=> c.fd = 0
    /\ c.fd # 0 => c.fd = lockFile
    /\ c.held = IF c.pc \in Unlocked THEN "none" ELSE IF c.op = "sign" THEN "sh" ELSE "ex"
    /\ c.ledgerLock => c.pc \in {"appending", "writing", "release"} /\ c.op = "sign"
    /\ c.pc \in {"appending", "writing"} => c.ledgerLock
    /\ c.pc \in {"fresh", "creating", "loaded", "checked", "mutated"} => c.op = "update"
    /\ c.pc \in {"purging", "purged", "unlink"} => c.op = "purge"
    /\ c.pc \in {"view", "append", "appending", "writing"} => c.op = "sign"
    /\ c.op = "purge" => deployment.purges

SignOK(c) ==
    /\ c.op = "sign" => c.rec \in Record /\ c.rec.id = state.id /\ c.rec.rev <= state.rev
    /\ c.pc \in {"append", "appending", "writing"} => c.rec.rev = state.rev
    /\ c.pc = "writing" => ledger.partial /\ c.rec \notin ledger.recs

UpdateOK(c) ==
    /\ c.pc \in {"fresh", "creating"} => state = NoState
    /\ c.pc \in {"loaded", "checked"} => state # NoState
    /\ c.pc \in {"fresh", "creating", "loaded", "checked", "mutated"} => c.snap = state
    /\ c.pc = "mutated" =>
          /\ ~ledger.partial
          /\ state # NoState => c.seen = ledger.recs /\ state.rev < MaxRevision

PurgeOK(c) == c.pc = "purging" => state = NoState

ProcOK(c) == LockOK(c) /\ SignOK(c) /\ UpdateOK(c) /\ PurgeOK(c)

Exclusive(c, d) ==
    /\ c.held = "ex" => d.held = "none"
    /\ c.ledgerLock => ~d.ledgerLock

\* The files: what no process is needed for to know.
FilesOK ==
    /\ state = NoState \/ (state.id >= 1 /\ state.rev >= 1)
    /\ state = NoState =>
          \/ ledger.recs = {} /\ ~ledger.partial
          \/ \E p \in Procs : proc[p].pc = "purging"
    /\ LedgerBelongs
    /\ ledger.partial => Writing \/ deployment.faults

Inv ==
    /\ TypeOK
    /\ \A p \in Procs : ProcOK(proc[p])
    /\ \A p, q \in Procs : p # q => Exclusive(proc[p], proc[q])
    /\ \A p \in Procs \ deployment.procs : proc[p] = Idle
    /\ FilesOK

-----------------------------------------------------------------------------
\* Typing

LEMMA IdleType ==
  ASSUME inodes \in Nat
  PROVE  /\ Idle \in Process /\ NoState \in Document
         /\ Idle.op = "none" /\ Idle.pc = "idle" /\ Idle.fd = 0 /\ Idle.held = "none"
         /\ Idle.ledgerLock = FALSE /\ Idle.rec = NoRecord
<1>1. NoState \in Document /\ NoState.rev = 0 /\ NoState.id = 0
  BY FileStoreConstants DEF NoState, Document
<1> QED BY <1>1 DEF Idle, Process

LEMMA Types ==
  ASSUME Inv
  PROVE  /\ proc \in [Procs -> Process]
         /\ \A p \in Procs : proc[p] \in Process /\ ProcOK(proc[p])
         /\ inodes \in Nat /\ lockFile \in Nat /\ authorities \in Nat
         /\ MaxInodes \in Nat /\ MaxAuthorities \in Nat /\ MaxRevision \in Nat
         /\ MaxRevision >= 1
         /\ deployment \in Deployment /\ deployment.procs \subseteq Procs
         /\ state \in Document /\ state.id \in 0..MaxAuthorities /\ state.rev \in 0..MaxRevision
         /\ ledger.recs \in SUBSET Record /\ ledger.partial \in BOOLEAN
<1>1. TypeOK /\ \A p \in Procs : ProcOK(proc[p])
  BY DEF Inv
<1>2. MaxInodes \in Nat /\ MaxAuthorities \in Nat /\ MaxRevision \in Nat /\ MaxRevision >= 1
  BY FileStoreConstants
<1>3. proc \in [Procs -> Process]
  BY <1>1 DEF TypeOK, Process
<1>4. inodes \in Nat /\ lockFile \in Nat /\ authorities \in Nat
  BY <1>1, <1>2 DEF TypeOK
<1>5. deployment \in Deployment /\ deployment.procs \subseteq Procs
  BY <1>1, FileStoreConstants DEF TypeOK, Deployment
<1>6. state \in Document /\ state.id \in 0..MaxAuthorities /\ state.rev \in 0..MaxRevision
  BY <1>1 DEF TypeOK, Document
<1>7. ledger.recs \in SUBSET Record /\ ledger.partial \in BOOLEAN
  BY <1>1 DEF TypeOK
<1> QED BY <1>1, <1>2, <1>3, <1>4, <1>5, <1>6, <1>7

\* A process has only read-only company if it holds ca.lock for reading, and
\* none at all if it holds it for writing.
LEMMA OthersOutside ==
  ASSUME Inv, NEW p \in Procs, NEW q \in Procs, p # q, proc[p].held = "ex"
  PROVE  /\ proc[q].pc \in Unlocked /\ proc[q].held = "none" /\ ~proc[q].ledgerLock
<1>1. proc[q] \in Process /\ LockOK(proc[q]) /\ proc[q].held = "none"
  BY Types DEF Inv, Exclusive, ProcOK
<1>2. proc[q].pc \in Unlocked
  BY <1>1 DEF LockOK
<1> QED BY <1>1, <1>2 DEF LockOK, Unlocked

\* In a deployment that purges, nobody else does anything.
LEMMA Alone ==
  ASSUME PurgesAlone, Inv, NEW p \in deployment.procs, deployment.purges,
         NEW q \in Procs, p # q
  PROVE  proc[q] = Idle /\ ~deployment.faults
<1>1. deployment \in Deployments
  BY DEF Inv, TypeOK
<1>2. q \notin deployment.procs /\ ~deployment.faults
  BY <1>1 DEF PurgesAlone
<1> QED BY <1>2 DEF Inv

\* The parts of the invariant after a step of one process.
LEMMA Assemble ==
  ASSUME Inv, NEW p \in deployment.procs, NEW c, proc' = [proc EXCEPT ![p] = c],
         deployment' = deployment, TypeOK', ProcOK(proc[p])',
         \A q \in Procs \ {p} : ProcOK(proc[q])',
         \A q \in Procs \ {p} : Exclusive(c, proc[q]) /\ Exclusive(proc[q], c),
         FilesOK'
  PROVE  Inv'
<1>1. p \in Procs /\ proc \in [Procs -> Process]
  BY Types
<1>2. proc'[p] = c /\ \A q \in Procs : q # p => proc'[q] = proc[q]
  BY <1>1
<1>3. \A r, q \in Procs : r # q => Exclusive(proc'[r], proc'[q])
  <2> SUFFICES ASSUME NEW r \in Procs, NEW q \in Procs, r # q
               PROVE  Exclusive(proc'[r], proc'[q])
    OBVIOUS
  <2>1. CASE r = p
    BY <1>2, <2>1
  <2>2. CASE q = p
    BY <1>2, <2>2
  <2>3. CASE r # p /\ q # p
    BY <1>2, <2>3 DEF Inv
  <2> QED BY <2>1, <2>2, <2>3
<1>4. (\A r, q \in Procs : r # q => Exclusive(proc[r], proc[q]))'
  BY <1>3 DEF Exclusive
<1>5. (\A q \in Procs \ deployment.procs : proc[q] = Idle)'
  BY <1>2 DEF Inv, Idle, NoState, NoRecord
<1> QED BY <1>4, <1>5 DEF Inv

\* A step of one process that leaves the files alone.
LEMMA ProcStep ==
  ASSUME Inv, NEW p \in deployment.procs, NEW c \in Process,
         proc' = [proc EXCEPT ![p] = c],
         UNCHANGED <<deployment, state, ledger, lockFile, inodes, authorities>>,
         ProcOK(c),
         \A q \in Procs \ {p} : Exclusive(c, proc[q]) /\ Exclusive(proc[q], c),
         proc[p].pc = "writing" => deployment.faults,
         proc[p].pc # "purging"
  PROVE  Inv'
<1>1. p \in Procs /\ proc \in [Procs -> Process]
  BY Types
<1>2. proc'[p] = c /\ \A q \in Procs : q # p => proc'[q] = proc[q]
  BY <1>1
<1>3. TypeOK'
  <2>1. proc' \in [Procs -> Process]
    BY <1>1
  <2> QED BY <2>1 DEF Inv, TypeOK, Process
<1>4. ProcOK(proc[p])'
  BY <1>2 DEF ProcOK, LockOK, SignOK, UpdateOK, PurgeOK
<1>5. ASSUME NEW q \in Procs \ {p} PROVE ProcOK(proc[q])'
  <2>1. ProcOK(proc[q]) /\ proc'[q] = proc[q]
    BY <1>2 DEF Inv
  <2> QED BY <2>1 DEF ProcOK, LockOK, SignOK, UpdateOK, PurgeOK
<1>6. FilesOK'
  <2>1. FilesOK
    BY DEF Inv
  <2>2. Writing => Writing' \/ deployment.faults
    BY <1>2 DEF Writing
  <2>3. (\E q \in Procs : proc[q].pc = "purging") => (\E q \in Procs : proc[q].pc = "purging")'
    BY <1>2
  <2> QED BY <2>1, <2>2, <2>3 DEF FilesOK, LedgerBelongs, Belong
<1> QED BY <1>3, <1>4, <1>5, <1>6, Assemble

\* A step that leaves the files alone and takes no lock.
LEMMA QuietStep ==
  ASSUME Inv, NEW p \in deployment.procs, NEW c \in Process,
         proc' = [proc EXCEPT ![p] = c],
         UNCHANGED <<deployment, state, ledger, lockFile, inodes, authorities>>,
         ProcOK(c),
         c.held \in {"none", proc[p].held}, c.ledgerLock => proc[p].ledgerLock,
         proc[p].pc = "writing" => deployment.faults,
         proc[p].pc # "purging"
  PROVE  Inv'
<1>1. p \in Procs
  BY Types
<1>2. ASSUME NEW q \in Procs \ {p} PROVE Exclusive(c, proc[q]) /\ Exclusive(proc[q], c)
  <2>1. Exclusive(proc[p], proc[q]) /\ Exclusive(proc[q], proc[p])
    BY <1>1 DEF Inv
  <2> QED BY <2>1 DEF Exclusive
<1> QED BY <1>2, ProcStep

\* An operation ends.
LEMMA IdleStep ==
  ASSUME Inv, NEW p \in deployment.procs, proc' = [proc EXCEPT ![p] = Idle],
         UNCHANGED <<deployment, state, ledger, lockFile, inodes, authorities>>,
         proc[p].pc = "writing" => deployment.faults,
         proc[p].pc # "purging"
  PROVE  Inv'
<1>1. /\ Idle \in Process /\ Idle.op = "none" /\ Idle.pc = "idle" /\ Idle.fd = 0
      /\ Idle.held = "none" /\ Idle.ledgerLock = FALSE
  BY Types, IdleType
<1>2. ProcOK(Idle)
  BY <1>1 DEF ProcOK, LockOK, SignOK, UpdateOK, PurgeOK, Unlocked
<1> QED BY <1>1, <1>2, QuietStep

\* What a process holds lets it only go on or stop: it keeps its locks.
LEMMA KeepStep ==
  ASSUME Inv, NEW p \in deployment.procs, NEW c \in Process,
         proc' = [proc EXCEPT ![p] = c],
         UNCHANGED <<deployment, state, ledger, lockFile, inodes, authorities>>,
         proc[p].pc \notin Unlocked, c.pc \notin Unlocked,
         c.op = proc[p].op, c.fd = proc[p].fd, c.held = proc[p].held,
         c.ledgerLock = proc[p].ledgerLock, c.rec = proc[p].rec,
         c.pc \in {"fresh", "creating", "loaded", "checked", "mutated"} => c.op = "update",
         c.pc \in {"append", "appending", "writing"} => c.op = "sign",
         c.pc \notin {"purging", "purged", "writing"},
         c.pc \in {"appending", "release"} \/ ~c.ledgerLock,
         c.pc = "appending" => c.ledgerLock,
         c.pc \in {"append", "appending"} => c.rec.rev = state.rev,
         UpdateOK(c),
         proc[p].pc = "writing" => deployment.faults,
         proc[p].pc # "purging"
  PROVE  Inv'
<1>1. p \in Procs /\ proc[p] \in Process
  BY Types
<1>2. LockOK(proc[p]) /\ SignOK(proc[p])
  BY <1>1 DEF Inv, ProcOK
<1>3. LockOK(c)
  <2>1. proc[p].op # "none" /\ proc[p].pc \notin {"idle", "view", "unlink"} /\ c.fd # 0
    <3>1. Idle.pc = "idle"
      BY DEF Idle
    <3> QED BY <1>2, <3>1 DEF LockOK, Unlocked
  <2>2. c.pc \notin {"idle", "view", "unlink"}
    BY DEF Unlocked
  <2>3. c.fd = lockFile /\ c.held = (IF c.op = "sign" THEN "sh" ELSE "ex")
    BY <1>2, <2>1 DEF LockOK
  <2>4. c.ledgerLock => c.op = "sign"
    BY <1>2 DEF LockOK
  <2>5. c.op = "purge" => deployment.purges
    BY <1>2 DEF LockOK
  <2> QED BY <2>1, <2>2, <2>3, <2>4, <2>5 DEF LockOK
<1>4. SignOK(c) /\ PurgeOK(c)
  BY <1>2 DEF SignOK, PurgeOK
<1> QED BY <1>3, <1>4, QuietStep DEF ProcOK

LEMMA ReleaseStep ==
  ASSUME Inv, NEW p \in deployment.procs, proc' = [proc EXCEPT ![p].pc = "release"],
         UNCHANGED <<deployment, state, ledger, lockFile, inodes, authorities>>,
         proc[p].pc \notin Unlocked,
         proc[p].pc = "writing" => deployment.faults,
         proc[p].pc # "purging"
  PROVE  Inv'
<1> DEFINE c == [proc[p] EXCEPT !.pc = "release"]
<1>1. p \in Procs /\ proc[p] \in Process /\ LockOK(proc[p]) /\ proc \in [Procs -> Process]
  BY Types DEF ProcOK
<1>2. /\ c \in Process /\ c.pc = "release" /\ proc' = [proc EXCEPT ![p] = c]
      /\ c.op = proc[p].op /\ c.fd = proc[p].fd /\ c.held = proc[p].held
      /\ c.ledgerLock = proc[p].ledgerLock /\ c.rec = proc[p].rec
  BY <1>1 DEF Process
<1> HIDE DEF c
<1>3. UpdateOK(c)
  BY <1>2 DEF UpdateOK
<1>4. c.pc \notin Unlocked
  BY <1>2 DEF Unlocked
<1> QED BY <1>2, <1>3, <1>4, KeepStep

-----------------------------------------------------------------------------
\* Locks

LEMMA OpenLockInv ==
  ASSUME PurgesAlone, Inv, NEW p \in deployment.procs, NEW op \in {"update", "purge"},
         OpenLock(p, op)
  PROVE  Inv'
<1> DEFINE c == [Idle EXCEPT !.op = op, !.pc = "open", !.fd = lockFile']
<1>1. /\ proc[p].pc = "idle" /\ proc' = [proc EXCEPT ![p] = c]
      /\ UNCHANGED <<deployment, state, ledger, authorities>>
      /\ op = "purge" => deployment.purges
  BY DEF OpenLock
<1>2. /\ p \in Procs /\ proc \in [Procs -> Process] /\ inodes \in Nat /\ lockFile \in 0..inodes
      /\ MaxInodes \in Nat /\ inodes \in 0..MaxInodes
  BY Types DEF Inv, TypeOK
<1>3. \/ lockFile # 0 /\ UNCHANGED <<lockFile, inodes>>
      \/ lockFile = 0 /\ inodes' = inodes + 1 /\ lockFile' = inodes + 1 /\ inodes < MaxInodes
  BY DEF OpenLock
<1>4. /\ inodes' \in 0..MaxInodes /\ lockFile' \in 0..inodes' /\ lockFile' # 0
      /\ inodes' \in Nat /\ inodes <= inodes'
  BY <1>2, <1>3
<1>5. NoState \in Document
  BY <1>2, IdleType
<1>6. Idle \in Process'
  BY <1>4, <1>5 DEF Idle, Process, Document, Record, NoRecord
<1>7. /\ c \in Process' /\ c.op = op /\ c.pc = "open" /\ c.fd = lockFile'
      /\ c.held = "none" /\ c.ledgerLock = FALSE
  <2>1. Idle.held = "none" /\ Idle.ledgerLock = FALSE
    BY DEF Idle
  <2> QED BY <1>4, <1>6, <2>1 DEF Process
<1> HIDE DEF c
<1>8. proc'[p] = c /\ \A q \in Procs : q # p => proc'[q] = proc[q]
  BY <1>1, <1>2
<1>9. TypeOK'
  <2>1. \A q \in Procs : proc[q] \in Process'
    BY <1>2, <1>4 DEF Process
  <2>2. proc' \in [Procs -> Process']
    BY <1>1, <1>2, <1>7, <2>1
  <2> QED BY <1>1, <1>4, <2>2 DEF Inv, TypeOK, Process, Document, Record
<1>10. ProcOK(proc[p])'
  BY <1>1, <1>4, <1>7, <1>8 DEF ProcOK, LockOK, SignOK, UpdateOK, PurgeOK, Unlocked
<1>11. ASSUME NEW q \in Procs \ {p} PROVE ProcOK(proc[q])'
  <2>1. ProcOK(proc[q]) /\ proc'[q] = proc[q]
    BY <1>8 DEF Inv
  <2>2. proc[q].fd # 0 => proc[q].fd = lockFile'
    BY <1>3, <2>1 DEF ProcOK, LockOK
  <2> QED BY <1>1, <2>1, <2>2 DEF ProcOK, LockOK, SignOK, UpdateOK, PurgeOK
<1>12. FilesOK'
  <2>1. FilesOK
    BY DEF Inv
  <2>2. Writing => Writing'
    BY <1>1, <1>8 DEF Writing
  <2>3. (\E q \in Procs : proc[q].pc = "purging") => (\E q \in Procs : proc[q].pc = "purging")'
    BY <1>1, <1>8
  <2> QED BY <1>1, <2>1, <2>2, <2>3 DEF FilesOK, LedgerBelongs, Belong
<1>13. \A q \in Procs \ {p} : Exclusive(c, proc[q]) /\ Exclusive(proc[q], c)
  BY <1>7 DEF Exclusive
<1> QED BY <1>1, <1>9, <1>10, <1>11, <1>12, <1>13, Assemble

LEMMA AcquireLockInv ==
  ASSUME Inv, NEW p \in deployment.procs, AcquireLock(p)
  PROVE  Inv'
<1> DEFINE c == [proc[p] EXCEPT !.pc = "locked", !.held = IF proc[p].op = "sign" THEN "sh" ELSE "ex"]
<1>1. p \in Procs /\ proc \in [Procs -> Process] /\ proc[p] \in Process /\ ProcOK(proc[p])
  BY Types
<1>2. /\ proc[p].pc = "open" /\ proc' = [proc EXCEPT ![p] = c]
      /\ UNCHANGED <<deployment, state, ledger, lockFile, inodes, authorities>>
      /\ IF proc[p].op = "sign" THEN "ex" \notin OtherLocks(p) ELSE OtherLocks(p) = {}
  BY <1>1 DEF AcquireLock
<1>3. /\ c \in Process /\ c.pc = "locked" /\ c.op = proc[p].op /\ c.fd = proc[p].fd
      /\ c.ledgerLock = proc[p].ledgerLock /\ c.rec = proc[p].rec
      /\ c.held = IF c.op = "sign" THEN "sh" ELSE "ex"
  BY <1>1 DEF Process
<1> HIDE DEF c
<1>4. proc[p].op # "none" /\ proc[p].fd # 0 /\ proc[p].fd = lockFile /\ ~proc[p].ledgerLock
  <2>1. Idle.pc = "idle"
    BY DEF Idle
  <2> QED BY <1>1, <1>2, <2>1 DEF ProcOK, LockOK
<1>5. ProcOK(c)
  BY <1>1, <1>2, <1>3, <1>4 DEF ProcOK, LockOK, SignOK, UpdateOK, PurgeOK, Unlocked
<1>6. ASSUME NEW q \in Procs \ {p} PROVE Exclusive(c, proc[q]) /\ Exclusive(proc[q], c)
  <2>1. proc[q] \in Process /\ LockOK(proc[q])
    BY Types DEF ProcOK
  <2>2. CASE proc[q].held = "none"
    BY <1>3, <1>4, <2>2 DEF Exclusive
  <2>3. CASE proc[q].held # "none"
    <3>1. proc[q].pc \notin {"idle", "view", "unlink"}
      BY <2>1, <2>3 DEF LockOK, Unlocked
    <3>2. proc[q].fd = proc[p].fd
      BY <1>4, <2>1, <3>1 DEF LockOK
    <3>3. proc[q].held \in OtherLocks(p)
      BY <2>3, <3>2 DEF OtherLocks
    <3>4. c.op = "sign" /\ c.held = "sh" /\ proc[q].held # "ex"
      BY <1>2, <1>3, <3>3
    <3> QED BY <1>3, <1>4, <3>4 DEF Exclusive
  <2> QED BY <2>2, <2>3
<1> QED BY <1>2, <1>3, <1>5, <1>6, ProcStep

LEMMA LeaveInv ==
  ASSUME PurgesAlone, Inv, NEW p \in deployment.procs,
         Cancel(p) \/ Release(p) \/ Crash(p)
  PROVE  Inv'
<1>1. p \in Procs /\ proc[p] \in Process /\ ProcOK(proc[p])
  BY Types
<1>2. CASE Cancel(p)
  BY <1>2, IdleStep DEF Cancel
<1>3. CASE Release(p) /\ proc[p].pc # "purged"
  BY <1>3, IdleStep DEF Release
<1>4. CASE Release(p) /\ proc[p].pc = "purged"
  <2> DEFINE c == [Idle EXCEPT !.op = "purge", !.pc = "unlink"]
  <2>1. /\ proc' = [proc EXCEPT ![p] = c]
        /\ UNCHANGED <<deployment, state, ledger, lockFile, inodes, authorities>>
    BY <1>4 DEF Release
  <2>2. /\ c \in Process /\ c.op = "purge" /\ c.pc = "unlink" /\ c.fd = 0
        /\ c.held = "none" /\ c.ledgerLock = FALSE
    <3>1. Idle \in Process /\ Idle.fd = 0 /\ Idle.held = "none" /\ Idle.ledgerLock = FALSE
      BY Types, IdleType
    <3> QED BY <3>1 DEF Process
  <2> HIDE DEF c
  <2>3. deployment.purges
    BY <1>1, <1>4 DEF ProcOK, LockOK
  <2>4. ProcOK(c)
    BY <2>2, <2>3 DEF ProcOK, LockOK, SignOK, UpdateOK, PurgeOK, Unlocked
  <2> QED BY <1>4, <2>1, <2>2, <2>4, QuietStep
<1>5. CASE Crash(p)
  <2>1. deployment.faults
    BY <1>5 DEF Crash
  <2>2. deployment \in Deployments
    BY DEF Inv, TypeOK
  <2>3. ~deployment.purges
    BY <2>1, <2>2 DEF PurgesAlone
  <2>4. proc[p].pc # "purging"
    BY <1>1, <2>3 DEF ProcOK, LockOK
  <2> QED BY <1>5, <2>1, <2>4, IdleStep DEF Crash
<1> QED BY <1>2, <1>3, <1>4, <1>5

-----------------------------------------------------------------------------
\* update

LEMMA UpdateReadInv ==
  ASSUME Inv, NEW p \in deployment.procs,
         UpdateLoad(p) \/ UpdateCheck(p) \/ UpdateMutate(p) \/ UpdateNothing(p)
  PROVE  Inv'
<1>1. /\ p \in Procs /\ proc \in [Procs -> Process] /\ proc[p] \in Process
      /\ LockOK(proc[p]) /\ UpdateOK(proc[p])
      /\ state \in Document /\ ledger.recs \in SUBSET Record
  BY Types DEF ProcOK
<1>2. CASE UpdateLoad(p)
  <2> DEFINE pc == IF state = NoState THEN "fresh" ELSE "loaded"
             c == [proc[p] EXCEPT !.snap = state, !.pc = pc]
  <2>1. /\ proc[p].pc = "locked" /\ proc[p].op = "update" /\ proc' = [proc EXCEPT ![p] = c]
        /\ UNCHANGED <<deployment, state, ledger, lockFile, inodes, authorities>>
    BY <1>1, <1>2 DEF UpdateLoad
  <2>2. pc \in {"fresh", "loaded"} /\ (pc = "fresh" <=> state = NoState)
    OBVIOUS
  <2> HIDE DEF pc
  <2>3. /\ c \in Process /\ c.pc = pc /\ c.op = proc[p].op /\ c.fd = proc[p].fd
        /\ c.held = proc[p].held /\ c.ledgerLock = proc[p].ledgerLock /\ c.rec = proc[p].rec
        /\ c.snap = state
    BY <1>1, <2>2 DEF Process
  <2> HIDE DEF c
  <2>4. UpdateOK(c) /\ c.pc \notin Unlocked /\ proc[p].pc \notin Unlocked /\ ~c.ledgerLock
    BY <1>1, <2>1, <2>2, <2>3 DEF UpdateOK, Unlocked, LockOK
  <2> QED BY <2>1, <2>2, <2>3, <2>4, KeepStep
<1>3. CASE UpdateCheck(p)
  <2>1. /\ proc[p].pc = "loaded"
        /\ UNCHANGED <<deployment, state, ledger, lockFile, inodes, authorities>>
        /\ \/ proc' = [proc EXCEPT ![p].pc = "release"]
           \/ proc' = [proc EXCEPT ![p].pc = "checked"]
    BY <1>3 DEF UpdateCheck
  <2>2. CASE proc' = [proc EXCEPT ![p].pc = "release"]
    BY <2>1, <2>2, ReleaseStep DEF Unlocked
  <2>3. CASE proc' = [proc EXCEPT ![p].pc = "checked"]
    <3> DEFINE c == [proc[p] EXCEPT !.pc = "checked"]
    <3>1. /\ c \in Process /\ c.pc = "checked" /\ c.op = proc[p].op /\ c.fd = proc[p].fd
          /\ c.held = proc[p].held /\ c.ledgerLock = proc[p].ledgerLock /\ c.rec = proc[p].rec
          /\ c.snap = proc[p].snap /\ proc' = [proc EXCEPT ![p] = c]
      BY <1>1, <2>3 DEF Process
    <3> HIDE DEF c
    <3>2. UpdateOK(c) /\ c.pc \notin Unlocked /\ proc[p].pc \notin Unlocked /\ ~c.ledgerLock
      BY <1>1, <2>1, <3>1 DEF UpdateOK, Unlocked, LockOK
    <3>3. c.op = "update"
      BY <1>1, <2>1, <3>1 DEF LockOK
    <3> QED BY <2>1, <3>1, <3>2, <3>3, KeepStep
  <2> QED BY <2>1, <2>2, <2>3
<1>4. CASE UpdateMutate(p)
  <2>1. /\ proc[p].pc = "checked" /\ proc[p].snap.rev < MaxRevision
        /\ UNCHANGED <<deployment, state, ledger, lockFile, inodes, authorities>>
        /\ \/ proc' = [proc EXCEPT ![p].pc = "release"]
           \/ Readable /\ proc' = [proc EXCEPT ![p].pc = "mutated", ![p].seen = ledger.recs]
    BY <1>4 DEF UpdateMutate
  <2>2. CASE proc' = [proc EXCEPT ![p].pc = "release"]
    BY <2>1, <2>2, ReleaseStep DEF Unlocked
  <2>3. CASE Readable /\ proc' = [proc EXCEPT ![p].pc = "mutated", ![p].seen = ledger.recs]
    <3> DEFINE c == [proc[p] EXCEPT !.pc = "mutated", !.seen = ledger.recs]
    <3>1. /\ c \in Process /\ c.pc = "mutated" /\ c.op = proc[p].op /\ c.fd = proc[p].fd
          /\ c.held = proc[p].held /\ c.ledgerLock = proc[p].ledgerLock /\ c.rec = proc[p].rec
          /\ c.snap = proc[p].snap /\ c.seen = ledger.recs /\ proc' = [proc EXCEPT ![p] = c]
      BY <1>1, <2>3 DEF Process
    <3> HIDE DEF c
    <3>2. UpdateOK(c)
      BY <1>1, <2>1, <2>3, <3>1 DEF UpdateOK, Readable
    <3>3. c.op = "update" /\ c.pc \notin Unlocked /\ proc[p].pc \notin Unlocked /\ ~c.ledgerLock
      BY <1>1, <2>1, <3>1 DEF LockOK, Unlocked
    <3> QED BY <2>1, <3>1, <3>2, <3>3, KeepStep
  <2> QED BY <2>1, <2>2, <2>3
<1>5. CASE UpdateNothing(p)
  <2>1. proc[p].pc \notin Unlocked /\ proc[p].pc \notin {"writing", "purging"}
    BY <1>5 DEF UpdateNothing, Unlocked
  <2> QED BY <1>5, <2>1, ReleaseStep DEF UpdateNothing
<1> QED BY <1>2, <1>3, <1>4, <1>5

\* A step of the process that holds ca.lock for writing which changes the
\* document or the ledger's phase: the others only wait or look on.
LEMMA WriterStep ==
  ASSUME Inv, NEW p \in deployment.procs, NEW c \in Process,
         proc' = [proc EXCEPT ![p] = c],
         UNCHANGED <<deployment, lockFile, inodes>>,
         proc[p].held = "ex", c.held \in {"none", "ex"}, ~c.ledgerLock,
         state' \in Document, authorities' \in 0..MaxAuthorities,
         ledger' \in [phase: {"absent", "raw", "ready"}, recs: SUBSET Record, partial: BOOLEAN],
         ProcOK(proc[p])',
         \A q \in Procs \ {p} : proc[q].op = "sign" =>
             state'.id = state.id /\ state.rev <= state'.rev,
         FilesOK'
  PROVE  Inv'
<1>1. p \in Procs /\ proc \in [Procs -> Process] /\ state.rev \in Int
  BY Types
<1>2. proc'[p] = c /\ \A q \in Procs : q # p => proc'[q] = proc[q]
  BY <1>1
<1>3. TypeOK'
  <2>1. proc' \in [Procs -> Process]
    BY <1>1
  <2>2. deployment \in Deployments /\ inodes \in 0..MaxInodes /\ lockFile \in 0..inodes
    BY DEF Inv, TypeOK
  <2> QED BY <2>1, <2>2 DEF TypeOK, Process
<1>4. ASSUME NEW q \in Procs \ {p} PROVE ProcOK(proc[q])'
  <2>1. /\ proc'[q] = proc[q] /\ ProcOK(proc[q]) /\ proc[q] \in Process
        /\ proc[q].pc \in Unlocked
    BY <1>1, <1>2, Types, OthersOutside
  <2>2. LockOK(proc[q])'
    BY <2>1 DEF ProcOK, LockOK
  <2>3. proc[q].op = "sign" => proc[q].rec.rev \in Int /\ state'.rev \in Int
    BY <2>1, FileStoreConstants DEF ProcOK, SignOK, Record, Document
  <2>4. SignOK(proc[q])'
    BY <1>1, <2>1, <2>3 DEF ProcOK, SignOK, Unlocked
  <2>5. UpdateOK(proc[q])' /\ PurgeOK(proc[q])'
    BY <2>1 DEF UpdateOK, PurgeOK, Unlocked
  <2> QED BY <2>2, <2>4, <2>5 DEF ProcOK
<1>5. ASSUME NEW q \in Procs \ {p} PROVE Exclusive(c, proc[q]) /\ Exclusive(proc[q], c)
  BY <1>1, OthersOutside DEF Exclusive
<1> QED BY <1>3, <1>4, <1>5, Assemble

\* While a process writes ca.json or provisions, no line is being written.
LEMMA WriterFiles ==
  ASSUME Inv, NEW p \in Procs, proc[p].held = "ex"
  PROVE  /\ ~Writing
         /\ \A q \in Procs : proc[q].pc = "purging" => q = p
<1>1. proc[p] \in Process /\ LockOK(proc[p])
  BY Types DEF ProcOK
<1>2. proc[p].pc # "writing"
  BY <1>1 DEF LockOK, Unlocked
<1>3. \A q \in Procs : q # p => proc[q].pc \in Unlocked
  BY OthersOutside
<1> QED BY <1>2, <1>3 DEF Writing, Unlocked

LEMMA EnsureLedgerInv ==
  ASSUME Inv, NEW p \in deployment.procs, EnsureLedger(p) \/ EnsureLedgerMode(p)
  PROVE  Inv'
<1>1. /\ p \in Procs /\ proc \in [Procs -> Process] /\ proc[p] \in Process
      /\ LockOK(proc[p]) /\ UpdateOK(proc[p]) /\ state \in Document
      /\ authorities \in 0..MaxAuthorities
      /\ ledger \in [phase: {"absent", "raw", "ready"}, recs: SUBSET Record, partial: BOOLEAN]
      /\ FilesOK
  BY Types DEF ProcOK, Inv, TypeOK
<1>2. /\ proc[p].pc \in {"fresh", "creating"}
      /\ UNCHANGED <<deployment, state, lockFile, inodes, authorities>>
      /\ \/ proc' = [proc EXCEPT ![p].pc = "release"] /\ ledger' = ledger
         \/ /\ ledger' = ledger \/ \E f \in {"raw", "ready"} : ledger' = [ledger EXCEPT !.phase = f]
            /\ \E pc \in {"creating", "mutated"} : proc' = [proc EXCEPT ![p].pc = pc]
  BY DEF EnsureLedger, EnsureLedgerMode
<1>3. proc[p].held = "ex" /\ state = NoState /\ proc[p].op = "update" /\ ~proc[p].ledgerLock
  BY <1>1, <1>2 DEF LockOK, UpdateOK, Unlocked
<1>4. ledger.recs = {} /\ ~ledger.partial
  BY <1>1, <1>2, <1>3, WriterFiles DEF FilesOK
<1>5. CASE proc' = [proc EXCEPT ![p].pc = "release"] /\ ledger' = ledger
  BY <1>2, <1>5, ReleaseStep DEF Unlocked
<1>6. ASSUME ledger' = ledger \/ \E f \in {"raw", "ready"} : ledger' = [ledger EXCEPT !.phase = f],
             NEW pc \in {"creating", "mutated"}, proc' = [proc EXCEPT ![p].pc = pc]
      PROVE  Inv'
  <2> DEFINE c == [proc[p] EXCEPT !.pc = pc]
  <2>1. /\ c \in Process /\ c.pc = pc /\ c.op = proc[p].op /\ c.fd = proc[p].fd
        /\ c.held = proc[p].held /\ c.ledgerLock = proc[p].ledgerLock /\ c.rec = proc[p].rec
        /\ c.snap = proc[p].snap /\ proc' = [proc EXCEPT ![p] = c]
    BY <1>1, <1>6 DEF Process
  <2> HIDE DEF c
  <2>2. /\ ledger' \in [phase: {"absent", "raw", "ready"}, recs: SUBSET Record, partial: BOOLEAN]
        /\ ledger'.recs = {} /\ ~ledger'.partial
    BY <1>1, <1>4, <1>6
  <2>3. proc'[p] = c
    BY <1>1, <2>1
  <2>4. LockOK(proc[p])'
    BY <1>1, <1>2, <1>3, <2>1, <2>3 DEF LockOK, Unlocked
  <2>5. ProcOK(proc[p])'
    BY <1>1, <1>2, <1>3, <2>1, <2>2, <2>3, <2>4
       DEF ProcOK, SignOK, UpdateOK, PurgeOK
  <2>6. FilesOK'
    BY <1>2, <1>3, <2>2 DEF FilesOK, LedgerBelongs
  <2>7. /\ c.held \in {"none", "ex"} /\ ~c.ledgerLock
        /\ state' \in Document /\ authorities' \in 0..MaxAuthorities
        /\ state'.id = state.id /\ state.rev <= state'.rev
        /\ UNCHANGED <<deployment, lockFile, inodes>>
    BY <1>1, <1>2, <1>3, <2>1, Types
  <2> QED BY <1>3, <2>1, <2>2, <2>5, <2>6, <2>7, WriterStep
<1> QED BY <1>2, <1>5, <1>6

LEMMA WriteStateInv ==
  ASSUME Inv, NEW p \in deployment.procs, WriteState(p)
  PROVE  Inv'
<1>1. /\ p \in Procs /\ proc \in [Procs -> Process] /\ proc[p] \in Process
      /\ LockOK(proc[p]) /\ SignOK(proc[p]) /\ UpdateOK(proc[p])
      /\ authorities \in 0..MaxAuthorities
      /\ ledger \in [phase: {"absent", "raw", "ready"}, recs: SUBSET Record, partial: BOOLEAN]
      /\ FilesOK
  BY Types DEF ProcOK, Inv, TypeOK
<1>2. /\ proc[p].pc = "mutated" /\ proc' = [proc EXCEPT ![p].pc = "release"]
      /\ UNCHANGED <<deployment, ledger, lockFile, inodes>>
      /\ proc[p].snap = NoState => authorities < MaxAuthorities
      /\ \/ UNCHANGED <<state, authorities>>
         \/ /\ state' = Mutated(p)
            /\ authorities' = IF proc[p].snap = NoState THEN authorities + 1 ELSE authorities
  BY DEF WriteState
<1>3. /\ proc[p].held = "ex" /\ proc[p].snap = state /\ ~proc[p].ledgerLock /\ ~ledger.partial
      /\ proc[p].op = "update" /\ proc[p].op # "sign"
      /\ state # NoState => proc[p].seen = ledger.recs /\ state.rev < MaxRevision
  BY <1>1, <1>2 DEF LockOK, UpdateOK, Unlocked
<1>4. CASE UNCHANGED <<state, authorities>>
  BY <1>2, <1>4, ReleaseStep DEF Unlocked
<1>5. CASE /\ state' = Mutated(p)
           /\ authorities' = IF proc[p].snap = NoState THEN authorities + 1 ELSE authorities
  <2> DEFINE c == [proc[p] EXCEPT !.pc = "release"]
  <2>1. /\ c \in Process /\ c.pc = "release" /\ c.op = proc[p].op /\ c.fd = proc[p].fd
        /\ c.held = proc[p].held /\ c.ledgerLock = proc[p].ledgerLock
        /\ proc' = [proc EXCEPT ![p] = c]
    BY <1>1, <1>2 DEF Process
  <2> HIDE DEF c
  <2>2. proc'[p] = c
    BY <1>1, <2>1
  <2>3. ProcOK(proc[p])'
    <3>1. LockOK(proc[p])'
      BY <1>1, <1>2, <1>3, <2>1, <2>2 DEF LockOK, Unlocked
    <3> QED BY <1>3, <2>1, <2>2, <3>1 DEF ProcOK, SignOK, UpdateOK, PurgeOK
  <2>4. /\ state \in Document /\ state.id \in 0..MaxAuthorities /\ state.rev \in 0..MaxRevision
        /\ MaxAuthorities \in Nat /\ MaxRevision \in Nat /\ MaxRevision >= 1
        /\ proc[p].seen \in SUBSET Record
    BY <1>1, Types DEF Process
  <2>5. CASE state = NoState
    <3>1. /\ state' = [id |-> authorities + 1, rev |-> 1, seen |-> {}]
          /\ authorities' = authorities + 1 /\ authorities < MaxAuthorities
      BY <1>2, <1>3, <1>5, <2>5 DEF Mutated
    <3>2. authorities' \in 0..MaxAuthorities /\ authorities + 1 \in 1..MaxAuthorities
      BY <1>1, <2>4, <3>1
    <3>3. /\ state' \in Document /\ state'.id >= 1 /\ state'.rev = 1
      BY <2>4, <3>1, <3>2 DEF Document
    <3>4. ledger.recs = {}
      BY <1>1, <1>2, <1>3, <2>5, WriterFiles DEF FilesOK
    <3>5. FilesOK'
      <4>1. state'.id >= 1 /\ state'.rev >= 1
        BY <3>3
      <4>2. state' # NoState
        BY <4>1 DEF NoState
      <4>3. LedgerBelongs'
        BY <1>2, <3>4 DEF LedgerBelongs, Belong
      <4>4. ~ledger'.partial
        BY <1>2, <1>3
      <4> QED BY <4>1, <4>2, <4>3, <4>4 DEF FilesOK
    <3>6. ASSUME NEW q \in Procs \ {p} PROVE proc[q].op # "sign"
      <4>1. SignOK(proc[q])
        BY Types DEF ProcOK
      <4>2. state.id = 0
        BY <2>5 DEF NoState
      <4> QED BY <2>4, <4>1, <4>2 DEF SignOK, Record
    <3> QED BY <1>1, <1>2, <1>3, <2>1, <2>3, <3>2, <3>3, <3>5, <3>6, WriterStep
  <2>6. CASE state # NoState
    <3>1. /\ state' = [state EXCEPT !.rev = state.rev + 1, !.seen = ledger.recs]
          /\ authorities' = authorities
      BY <1>2, <1>3, <1>5, <2>6 DEF Mutated
    <3>2. state.rev + 1 \in 0..MaxRevision /\ state.rev <= state.rev + 1 /\ state.rev + 1 >= 1
      BY <1>3, <2>4, <2>6
    <3>3. /\ state' \in Document /\ state'.id = state.id /\ state'.rev = state.rev + 1
      BY <1>3, <2>4, <2>6, <3>1, <3>2 DEF Document
    <3>4. FilesOK'
      <4>1. state'.id >= 1 /\ state'.rev >= 1
        BY <1>1, <2>6, <3>2, <3>3 DEF FilesOK
      <4>2. state' # NoState
        BY <4>1 DEF NoState
      <4>3. \A r \in ledger.recs : r.rev <= state.rev /\ r.id = state.id
        BY <1>1, <2>6 DEF FilesOK, LedgerBelongs, Belong
      <4>4. \A r \in ledger.recs : r.rev \in Int
        BY <1>1 DEF Record
      <4>5. LedgerBelongs'
        BY <1>2, <2>4, <3>3, <4>3, <4>4 DEF LedgerBelongs, Belong
      <4>6. ~ledger'.partial
        BY <1>2, <1>3
      <4> QED BY <4>1, <4>2, <4>5, <4>6 DEF FilesOK
    <3> QED BY <1>1, <1>2, <1>3, <2>1, <2>3, <3>1, <3>2, <3>3, <3>4, WriterStep
  <2> QED BY <2>5, <2>6
<1> QED BY <1>2, <1>4, <1>5

-----------------------------------------------------------------------------
\* purge

LEMMA PurgeInv ==
  ASSUME PurgesAlone, Inv, NEW p \in deployment.procs,
         PurgeState(p) \/ PurgeLedger(p) \/ PurgeLock(p)
  PROVE  Inv'
<1>1. /\ p \in Procs /\ proc \in [Procs -> Process] /\ proc[p] \in Process
      /\ LockOK(proc[p]) /\ SignOK(proc[p]) /\ PurgeOK(proc[p])
      /\ authorities \in 0..MaxAuthorities
      /\ ledger \in [phase: {"absent", "raw", "ready"}, recs: SUBSET Record, partial: BOOLEAN]
      /\ FilesOK /\ inodes \in Nat /\ Idle \in Process /\ NoState \in Document
  BY Types, IdleType DEF ProcOK, Inv, TypeOK
<1>2. proc[p].op = "purge" /\ deployment.purges
  BY <1>1 DEF PurgeState, PurgeLedger, PurgeLock, LockOK
<1>3. \A q \in Procs \ {p} : proc[q] = Idle
  BY <1>2, Alone
<1>4. Idle.pc = "idle" /\ Idle.op = "none" /\ Idle.fd = 0
  BY DEF Idle
<1>5. CASE PurgeState(p)
  <2> DEFINE c == [proc[p] EXCEPT !.pc = "purging"]
  <2>1. /\ proc[p].pc = "locked" /\ state' = NoState
        /\ UNCHANGED <<deployment, ledger, lockFile, inodes, authorities>>
    BY <1>5 DEF PurgeState
  <2>2. /\ c \in Process /\ c.pc = "purging" /\ c.op = proc[p].op /\ c.fd = proc[p].fd
        /\ c.held = proc[p].held /\ c.ledgerLock = proc[p].ledgerLock
        /\ proc' = [proc EXCEPT ![p] = c]
    BY <1>1, <1>5 DEF Process, PurgeState
  <2> HIDE DEF c
  <2>3. proc'[p] = c
    BY <1>1, <2>2
  <2>4. proc[p].held = "ex" /\ ~proc[p].ledgerLock
    BY <1>1, <1>2, <2>1 DEF LockOK, Unlocked
  <2>5. ProcOK(proc[p])'
    <3>1. LockOK(proc[p])'
      BY <1>1, <1>2, <2>1, <2>2, <2>3 DEF LockOK, Unlocked
    <3> QED BY <1>2, <2>1, <2>2, <2>3, <3>1 DEF ProcOK, SignOK, UpdateOK, PurgeOK
  <2>6. FilesOK'
    <3>1. ledger.partial => deployment.faults
      BY <1>1, <2>4, WriterFiles DEF FilesOK
    <3> QED BY <1>1, <2>1, <2>2, <2>3, <3>1 DEF FilesOK, LedgerBelongs
  <2> QED BY <1>1, <1>3, <1>4, <2>1, <2>2, <2>4, <2>5, <2>6, WriterStep
<1>6. CASE PurgeLedger(p)
  <2> DEFINE c == [proc[p] EXCEPT !.pc = "purged"]
  <2>1. /\ proc[p].pc = "purging" /\ ledger' = NoLedger
        /\ UNCHANGED <<deployment, state, lockFile, inodes, authorities>>
    BY <1>6 DEF PurgeLedger
  <2>2. /\ c \in Process /\ c.pc = "purged" /\ c.op = proc[p].op /\ c.fd = proc[p].fd
        /\ c.held = proc[p].held /\ c.ledgerLock = proc[p].ledgerLock
        /\ proc' = [proc EXCEPT ![p] = c]
    BY <1>1, <1>6 DEF Process, PurgeLedger
  <2> HIDE DEF c
  <2>3. proc'[p] = c
    BY <1>1, <2>2
  <2>4. proc[p].held = "ex" /\ ~proc[p].ledgerLock /\ state = NoState
    BY <1>1, <1>2, <2>1 DEF LockOK, PurgeOK, Unlocked
  <2>5. ProcOK(proc[p])'
    <3>1. LockOK(proc[p])'
      BY <1>1, <1>2, <2>1, <2>2, <2>3 DEF LockOK, Unlocked
    <3> QED BY <1>2, <2>1, <2>2, <2>3, <3>1 DEF ProcOK, SignOK, UpdateOK, PurgeOK
  <2>6. /\ ledger' \in [phase: {"absent", "raw", "ready"}, recs: SUBSET Record, partial: BOOLEAN]
        /\ ledger'.recs = {} /\ ~ledger'.partial
    BY <2>1 DEF NoLedger
  <2>7. FilesOK'
    BY <2>1, <2>4, <2>6 DEF FilesOK, LedgerBelongs
  <2> QED BY <1>1, <1>3, <1>4, <2>1, <2>2, <2>4, <2>5, <2>6, <2>7, WriterStep
<1>7. CASE PurgeLock(p)
  <2>1. /\ proc[p].pc = "unlink" /\ lockFile' = 0 /\ proc' = [proc EXCEPT ![p] = Idle]
        /\ UNCHANGED <<deployment, state, ledger, inodes, authorities>>
    BY <1>7 DEF PurgeLock
  <2>2. \A q \in Procs : proc'[q] = Idle
    BY <1>1, <1>3, <2>1
  <2>3. TypeOK'
    <3>1. proc' \in [Procs -> Process]
      BY <1>1, <2>1
    <3>2. lockFile' \in 0..inodes'
      BY <1>1, <2>1
    <3> QED BY <2>1, <3>1, <3>2 DEF Inv, TypeOK, Process
  <2>4. /\ Idle.held = "none" /\ Idle.ledgerLock = FALSE
    BY DEF Idle
  <2>5. ASSUME NEW q \in Procs PROVE ProcOK(proc[q])'
    <3>1. proc'[q] = Idle
      BY <2>2
    <3>2. LockOK(proc[q])'
      BY <1>4, <2>1, <2>4, <3>1 DEF LockOK, Unlocked, Idle, NoState, NoRecord
    <3> QED BY <1>4, <3>1, <3>2 DEF ProcOK, SignOK, UpdateOK, PurgeOK
  <2>6. FilesOK'
    <3>1. ~Writing
      BY <1>3, <1>4, <2>1 DEF Writing
    <3>2. \A q \in Procs : proc[q].pc # "purging"
      BY <1>3, <1>4, <2>1
    <3> QED BY <1>1, <2>1, <3>1, <3>2 DEF FilesOK, LedgerBelongs, Belong
  <2>7. \A q \in Procs \ {p} : Exclusive(Idle, proc[q]) /\ Exclusive(proc[q], Idle)
    BY <2>4 DEF Exclusive
  <2> QED BY <2>1, <2>3, <2>5, <2>6, <2>7, <1>1, Assemble
<1> QED BY <1>5, <1>6, <1>7

-----------------------------------------------------------------------------
\* Signing

LEMMA LoadInv ==
  ASSUME Inv, NEW p \in deployment.procs, Load(p)
  PROVE  Inv'
<1>1. /\ p \in Procs /\ proc[p].pc = "idle" /\ state # NoState
      /\ UNCHANGED <<deployment, state, ledger, lockFile, inodes, authorities>>
  BY Types DEF Load
<1>2. PICK n \in Serials :
        proc' = [proc EXCEPT ![p] =
                   [Idle EXCEPT !.op = "sign", !.pc = "view",
                                !.rec = [id |-> state.id, rev |-> state.rev, serial |-> n]]]
  BY DEF Load
<1> DEFINE r == [id |-> state.id, rev |-> state.rev, serial |-> n]
           c == [Idle EXCEPT !.op = "sign", !.pc = "view", !.rec = r]
<1>3. proc' = [proc EXCEPT ![p] = c]
  BY <1>2
<1>4. state.id \in 1..MaxAuthorities /\ state.rev \in 1..MaxRevision
  <2>1. state.id \in 0..MaxAuthorities /\ state.rev \in 0..MaxRevision
        /\ MaxAuthorities \in Nat /\ MaxRevision \in Nat
    BY Types
  <2>2. state.id >= 1 /\ state.rev >= 1
    BY <1>1 DEF Inv, FilesOK
  <2> QED BY <2>1, <2>2
<1>5. r \in Record /\ r.id = state.id /\ r.rev = state.rev
  BY <1>4 DEF Record
<1> HIDE DEF r
<1>6. /\ c \in Process /\ c.op = "sign" /\ c.pc = "view" /\ c.fd = 0 /\ c.held = "none"
      /\ c.ledgerLock = FALSE /\ c.rec = r
  <2>1. /\ Idle \in Process /\ Idle.fd = 0 /\ Idle.held = "none" /\ Idle.ledgerLock = FALSE
    BY Types, IdleType
  <2> QED BY <1>5, <2>1 DEF Process
<1> HIDE DEF c
<1>7. ProcOK(c)
  <2>1. c.rec \in Record /\ c.rec.id = state.id /\ c.rec.rev <= state.rev
    BY <1>4, <1>5, <1>6
  <2> QED BY <1>6, <2>1 DEF ProcOK, LockOK, SignOK, UpdateOK, PurgeOK, Unlocked
<1> QED BY <1>1, <1>3, <1>6, <1>7, QuietStep

LEMMA LookupLedgerInv ==
  ASSUME Inv, NEW p \in deployment.procs, LookupLedger(p)
  PROVE  Inv'
<1> DEFINE c == [proc[p] EXCEPT !.pc = "open", !.fd = lockFile]
<1>1. /\ p \in Procs /\ proc \in [Procs -> Process] /\ proc[p] \in Process
      /\ LockOK(proc[p]) /\ SignOK(proc[p]) /\ inodes \in Nat /\ lockFile \in 0..inodes
  BY Types DEF ProcOK, Inv, TypeOK
<1>2. /\ proc[p].pc = "view"
      /\ UNCHANGED <<deployment, state, ledger, lockFile, inodes, authorities>>
      /\ \/ lockFile # 0 /\ proc' = [proc EXCEPT ![p] = c]
         \/ proc' = [proc EXCEPT ![p] = Idle]
  BY <1>1 DEF LookupLedger
<1>3. /\ c \in Process /\ c.pc = "open" /\ c.fd = lockFile /\ c.op = proc[p].op
      /\ c.held = proc[p].held /\ c.ledgerLock = proc[p].ledgerLock /\ c.rec = proc[p].rec
  BY <1>1 DEF Process
<1> HIDE DEF c
<1>4. proc[p].op = "sign" /\ proc[p].held = "none" /\ ~proc[p].ledgerLock
  BY <1>1, <1>2 DEF LockOK, Unlocked
<1>5. lockFile # 0 => ProcOK(c)
  BY <1>1, <1>2, <1>3, <1>4 DEF ProcOK, LockOK, SignOK, UpdateOK, PurgeOK, Unlocked
<1> QED BY <1>2, <1>3, <1>5, QuietStep, IdleStep

LEMMA AppendLockInv ==
  ASSUME Inv, NEW p \in deployment.procs, AppendLoad(p) \/ AppendLock(p)
  PROVE  Inv'
<1>1. /\ p \in Procs /\ proc \in [Procs -> Process] /\ proc[p] \in Process
      /\ LockOK(proc[p]) /\ SignOK(proc[p])
  BY Types DEF ProcOK
<1>2. CASE AppendLoad(p)
  <2>1. /\ proc[p].pc = "locked" /\ proc[p].op = "sign"
        /\ UNCHANGED <<deployment, state, ledger, lockFile, inodes, authorities>>
        /\ \/ proc' = [proc EXCEPT ![p].pc = "release"]
           \/ state.rev = proc[p].rec.rev /\ proc' = [proc EXCEPT ![p].pc = "append"]
    BY <1>2 DEF AppendLoad
  <2>2. CASE proc' = [proc EXCEPT ![p].pc = "release"]
    BY <2>1, <2>2, ReleaseStep DEF Unlocked
  <2>3. CASE state.rev = proc[p].rec.rev /\ proc' = [proc EXCEPT ![p].pc = "append"]
    <3> DEFINE c == [proc[p] EXCEPT !.pc = "append"]
    <3>1. /\ c \in Process /\ c.pc = "append" /\ c.op = proc[p].op /\ c.fd = proc[p].fd
          /\ c.held = proc[p].held /\ c.ledgerLock = proc[p].ledgerLock /\ c.rec = proc[p].rec
          /\ proc' = [proc EXCEPT ![p] = c]
      BY <1>1, <2>3 DEF Process
    <3> HIDE DEF c
    <3>2. UpdateOK(c) /\ c.pc \notin Unlocked /\ proc[p].pc \notin Unlocked /\ ~c.ledgerLock
      BY <1>1, <2>1, <3>1 DEF UpdateOK, Unlocked, LockOK
    <3> QED BY <2>1, <2>3, <3>1, <3>2, KeepStep
  <2> QED BY <2>1, <2>2, <2>3
<1>3. CASE AppendLock(p)
  <2> DEFINE c == [proc[p] EXCEPT !.pc = "appending", !.ledgerLock = TRUE]
  <2>1. /\ proc[p].pc = "append" /\ ~LedgerLocked(p)
        /\ UNCHANGED <<deployment, state, ledger, lockFile, inodes, authorities>>
    BY <1>3 DEF AppendLock
  <2>2. /\ c \in Process /\ c.pc = "appending" /\ c.op = proc[p].op /\ c.fd = proc[p].fd
        /\ c.held = proc[p].held /\ c.ledgerLock = TRUE /\ c.rec = proc[p].rec
        /\ proc' = [proc EXCEPT ![p] = c]
    BY <1>1, <1>3 DEF Process, AppendLock
  <2> HIDE DEF c
  <2>3. proc[p].op = "sign"
    BY <1>1, <2>1 DEF LockOK
  <2>4. ProcOK(c)
    BY <1>1, <2>1, <2>2, <2>3 DEF ProcOK, LockOK, SignOK, UpdateOK, PurgeOK, Unlocked
  <2>5. ASSUME NEW q \in Procs \ {p} PROVE Exclusive(c, proc[q]) /\ Exclusive(proc[q], c)
    <3>1. Exclusive(proc[p], proc[q]) /\ Exclusive(proc[q], proc[p]) /\ ~proc[q].ledgerLock
      BY <1>1, <2>1 DEF Inv, LedgerLocked
    <3> QED BY <2>2, <3>1 DEF Exclusive
  <2> QED BY <2>1, <2>2, <2>4, <2>5, ProcStep
<1> QED BY <1>2, <1>3

\* A step of the process that holds ledger.lock: the others do not write.
LEMMA LedgerStep ==
  ASSUME Inv, NEW p \in deployment.procs, NEW c \in Process,
         proc' = [proc EXCEPT ![p] = c],
         UNCHANGED <<deployment, state, lockFile, inodes, authorities>>,
         proc[p].ledgerLock, proc[p].held = "sh", c.held = "sh",
         ledger' \in [phase: {"absent", "raw", "ready"}, recs: SUBSET Record, partial: BOOLEAN],
         ProcOK(proc[p])', FilesOK'
  PROVE  Inv'
<1>1. p \in Procs /\ proc \in [Procs -> Process]
  BY Types
<1>2. proc'[p] = c /\ \A q \in Procs : q # p => proc'[q] = proc[q]
  BY <1>1
<1>3. TypeOK'
  <2>1. proc' \in [Procs -> Process]
    BY <1>1
  <2> QED BY <2>1 DEF Inv, TypeOK, Process
<1>4. ASSUME NEW q \in Procs \ {p}
      PROVE  ProcOK(proc[q])' /\ ~proc[q].ledgerLock /\ proc[q].held # "ex"
  <2>1. /\ proc'[q] = proc[q] /\ ProcOK(proc[q]) /\ proc[q] \in Process
        /\ ~proc[q].ledgerLock /\ proc[q].held # "ex"
    BY <1>1, <1>2, Types DEF Inv, Exclusive
  <2>2. proc[q].pc \notin {"writing", "fresh", "creating", "loaded", "checked", "mutated"}
    BY <2>1 DEF ProcOK, LockOK, Unlocked
  <2>3. LockOK(proc[q])'
    BY <2>1 DEF ProcOK, LockOK
  <2>4. SignOK(proc[q])'
    BY <2>1, <2>2 DEF ProcOK, SignOK
  <2>5. UpdateOK(proc[q])' /\ PurgeOK(proc[q])'
    BY <2>1, <2>2 DEF ProcOK, UpdateOK, PurgeOK
  <2> QED BY <2>1, <2>3, <2>4, <2>5 DEF ProcOK
<1>5. ASSUME NEW q \in Procs \ {p} PROVE Exclusive(c, proc[q]) /\ Exclusive(proc[q], c)
  BY <1>4 DEF Exclusive
<1> QED BY <1>3, <1>4, <1>5, Assemble

LEMMA AppendInv ==
  ASSUME Inv, NEW p \in deployment.procs, AppendRead(p) \/ AppendWrite(p)
  PROVE  Inv'
<1>1. /\ p \in Procs /\ proc \in [Procs -> Process] /\ proc[p] \in Process
      /\ LockOK(proc[p]) /\ SignOK(proc[p])
      /\ ledger \in [phase: {"absent", "raw", "ready"}, recs: SUBSET Record, partial: BOOLEAN]
      /\ FilesOK
  BY Types DEF ProcOK, Inv, TypeOK
<1>2. /\ proc[p].pc \in {"appending", "writing"}
      /\ UNCHANGED <<deployment, state, lockFile, inodes, authorities>>
  BY DEF AppendRead, AppendWrite
<1>3. /\ proc[p].ledgerLock /\ proc[p].held = "sh" /\ proc[p].op = "sign"
      /\ proc[p].rec \in Record /\ proc[p].rec.id = state.id /\ proc[p].rec.rev = state.rev
  BY <1>1, <1>2 DEF LockOK, SignOK, Unlocked
<1>4. CASE proc' = [proc EXCEPT ![p].pc = "release"] /\ ledger' = ledger
           /\ (proc[p].pc = "writing" => deployment.faults)
  BY <1>2, <1>4, ReleaseStep DEF Unlocked
<1>5. state # NoState /\ Belong(state, ledger.recs)
  <2>1. state.id # 0
    BY <1>3 DEF Record
  <2>2. state # NoState
    BY <2>1 DEF NoState
  <2> QED BY <1>1, <2>2 DEF FilesOK, LedgerBelongs
<1>6. CASE /\ proc[p].pc = "appending" /\ proc[p].rec \notin ledger.recs
           /\ ledger' = [ledger EXCEPT !.partial = TRUE]
           /\ proc' = [proc EXCEPT ![p].pc = "writing"]
  <2> DEFINE c == [proc[p] EXCEPT !.pc = "writing"]
  <2>1. /\ c \in Process /\ c.pc = "writing" /\ c.op = proc[p].op /\ c.fd = proc[p].fd
        /\ c.held = proc[p].held /\ c.ledgerLock = proc[p].ledgerLock /\ c.rec = proc[p].rec
        /\ proc' = [proc EXCEPT ![p] = c]
    BY <1>1, <1>6 DEF Process
  <2> HIDE DEF c
  <2>2. proc'[p] = c
    BY <1>1, <2>1
  <2>3. /\ ledger' \in [phase: {"absent", "raw", "ready"}, recs: SUBSET Record, partial: BOOLEAN]
        /\ ledger'.recs = ledger.recs /\ ledger'.partial
    BY <1>1, <1>6
  <2>4. ProcOK(proc[p])'
    <3>1. LockOK(proc[p])'
      BY <1>1, <1>2, <1>3, <2>1, <2>2 DEF LockOK, Unlocked
    <3>2. SignOK(proc[p])'
      BY <1>1, <1>2, <1>3, <1>6, <2>1, <2>2, <2>3 DEF SignOK
    <3> QED BY <2>1, <2>2, <3>1, <3>2 DEF ProcOK, UpdateOK, PurgeOK
  <2>5. FilesOK'
    <3>1. Writing'
      BY <1>1, <2>1, <2>2 DEF Writing
    <3> QED BY <1>1, <1>2, <1>5, <2>3, <3>1 DEF FilesOK, LedgerBelongs, Belong
  <2> QED BY <1>2, <1>3, <2>1, <2>3, <2>4, <2>5, LedgerStep
<1>7. CASE /\ proc[p].pc = "writing"
           /\ ledger' = [ledger EXCEPT !.partial = FALSE, !.recs = ledger.recs \cup {proc[p].rec}]
           /\ proc' = [proc EXCEPT ![p].pc = "release"]
  <2> DEFINE c == [proc[p] EXCEPT !.pc = "release"]
  <2>1. /\ c \in Process /\ c.pc = "release" /\ c.op = proc[p].op /\ c.fd = proc[p].fd
        /\ c.held = proc[p].held /\ c.ledgerLock = proc[p].ledgerLock /\ c.rec = proc[p].rec
        /\ proc' = [proc EXCEPT ![p] = c]
    BY <1>1, <1>7 DEF Process
  <2> HIDE DEF c
  <2>2. proc'[p] = c
    BY <1>1, <2>1
  <2>3. /\ ledger' \in [phase: {"absent", "raw", "ready"}, recs: SUBSET Record, partial: BOOLEAN]
        /\ ledger'.recs = ledger.recs \cup {proc[p].rec} /\ ~ledger'.partial
    BY <1>1, <1>3, <1>7
  <2>4. ProcOK(proc[p])'
    <3>1. LockOK(proc[p])'
      BY <1>1, <1>2, <1>3, <2>1, <2>2 DEF LockOK, Unlocked
    <3>2. SignOK(proc[p])'
      BY <1>1, <1>2, <1>3, <2>1, <2>2 DEF SignOK
    <3> QED BY <2>1, <2>2, <3>1, <3>2 DEF ProcOK, UpdateOK, PurgeOK
  <2>5. FilesOK'
    <3>1. state.rev \in Int
      BY Types
    <3>2. Belong(state, ledger'.recs)
      BY <1>3, <1>5, <2>3, <3>1 DEF Belong
    <3> QED BY <1>1, <1>2, <1>5, <2>3, <3>2 DEF FilesOK, LedgerBelongs, Belong
  <2> QED BY <1>2, <1>3, <2>1, <2>3, <2>4, <2>5, LedgerStep
<1>8. CASE AppendRead(p)
  <2>1. Readable /\ (\A x \in ledger.recs : ~SameKey(proc[p].rec, x)) => proc[p].rec \notin ledger.recs
    BY DEF SameKey
  <2> QED BY <1>4, <1>6, <1>8, <2>1 DEF AppendRead
<1>9. CASE AppendWrite(p)
  BY <1>4, <1>7, <1>9 DEF AppendWrite
<1> QED BY <1>8, <1>9

-----------------------------------------------------------------------------

LEMMA InitInv ==
  Init => Inv
<1> SUFFICES ASSUME Init PROVE Inv
  OBVIOUS
<1>1. /\ state = NoState /\ ledger = NoLedger /\ lockFile = 0 /\ inodes = 0 /\ authorities = 0
      /\ proc = [p \in Procs |-> Idle] /\ deployment \in Deployments
  BY DEF Init
<1>2. /\ Idle \in Process /\ NoState \in Document
      /\ Idle.op = "none" /\ Idle.pc = "idle" /\ Idle.fd = 0 /\ Idle.held = "none"
      /\ Idle.ledgerLock = FALSE
  BY <1>1, IdleType
<1>3. /\ ledger \in [phase: {"absent", "raw", "ready"}, recs: SUBSET Record, partial: BOOLEAN]
      /\ ledger.recs = {} /\ ~ledger.partial
  BY <1>1 DEF NoLedger
<1>4. TypeOK
  <2>1. proc \in [Procs -> Process]
    BY <1>1, <1>2
  <2>2. inodes \in 0..MaxInodes /\ lockFile \in 0..inodes /\ authorities \in 0..MaxAuthorities
    BY <1>1, FileStoreConstants
  <2> QED BY <1>1, <1>2, <1>3, <2>1, <2>2 DEF TypeOK, Process
<1>5. \A p \in Procs : proc[p] = Idle
  BY <1>1
<1>6. ProcOK(Idle)
  BY <1>2 DEF ProcOK, LockOK, SignOK, UpdateOK, PurgeOK, Unlocked
<1>7. Exclusive(Idle, Idle)
  BY <1>2 DEF Exclusive
<1>8. FilesOK
  BY <1>1, <1>3 DEF FilesOK, LedgerBelongs
<1> QED BY <1>4, <1>5, <1>6, <1>7, <1>8 DEF Inv

LEMMA NextInv ==
  ASSUME PurgesAlone
  PROVE  Inv /\ [Next]_vars => Inv'
<1> SUFFICES ASSUME Inv, [Next]_vars PROVE Inv'
  OBVIOUS
<1>1. ASSUME NEW p \in deployment.procs, Step(p) PROVE Inv'
  BY <1>1, OpenLockInv, AcquireLockInv, LeaveInv, UpdateReadInv, EnsureLedgerInv, WriteStateInv,
     PurgeInv, LoadInv, LookupLedgerInv, AppendLockInv, AppendInv DEF Step
<1>2. CASE UNCHANGED vars
  <2>1. UNCHANGED <<state, ledger, lockFile, inodes, authorities, proc, deployment>>
    BY <1>2 DEF vars
  <2>2. TypeOK'
    BY <2>1 DEF Inv, TypeOK
  <2>3. (\A p \in Procs : ProcOK(proc[p]))'
    BY <2>1 DEF Inv, ProcOK, LockOK, SignOK, UpdateOK, PurgeOK
  <2>4. (\A p, q \in Procs : p # q => Exclusive(proc[p], proc[q]))'
    BY <2>1 DEF Inv, Exclusive
  <2>5. FilesOK'
    BY <2>1 DEF Inv, FilesOK, LedgerBelongs, Belong, Writing
  <2> QED BY <2>1, <2>2, <2>3, <2>4, <2>5 DEF Inv
<1> QED BY <1>1, <1>2 DEF Next

\* The steps that touch neither ca.json nor the ledger.
Beside(p) ==
    \/ \E op \in {"update", "purge"} : OpenLock(p, op)
    \/ AcquireLock(p) \/ Cancel(p) \/ Release(p)
    \/ UpdateLoad(p) \/ UpdateCheck(p) \/ UpdateMutate(p) \/ UpdateNothing(p)
    \/ PurgeLock(p) \/ Load(p) \/ LookupLedger(p) \/ AppendLoad(p) \/ AppendLock(p)
    \/ Crash(p)

LEMMA BesideFiles ==
  ASSUME Inv, NEW p \in deployment.procs, Beside(p)
  PROVE  UNCHANGED <<state, ledger>> /\ (Writing' => Writing)
<1>1. p \in Procs /\ proc \in [Procs -> Process] /\ proc[p] \in Process
  BY Types
<1>2. UNCHANGED <<state, ledger>>
  BY DEF Beside, OpenLock, AcquireLock, Cancel, Release, UpdateLoad, UpdateCheck, UpdateMutate,
     UpdateNothing, PurgeLock, Load, LookupLedger, AppendLoad, AppendLock, Crash
<1>3. \E c : proc' = [proc EXCEPT ![p] = c] /\ c.pc # "writing"
  <2>1. Idle.pc = "idle"
    BY DEF Idle
  <2>2. CASE \E op \in {"update", "purge"} : OpenLock(p, op)
    <3>1. PICK op \in {"update", "purge"} : OpenLock(p, op)
      BY <2>2
    <3> DEFINE c == [Idle EXCEPT !.op = op, !.pc = "open", !.fd = lockFile']
    <3>2. proc' = [proc EXCEPT ![p] = c] /\ c.pc = "open"
      BY <3>1 DEF OpenLock, Idle
    <3> HIDE DEF c
    <3> QED BY <3>2
  <2>3. CASE Cancel(p) \/ PurgeLock(p) \/ Crash(p)
    BY <2>1, <2>3 DEF Cancel, PurgeLock, Crash
  <2>4. CASE Release(p)
    <3> DEFINE c == [Idle EXCEPT !.op = "purge", !.pc = "unlink"]
    <3>1. c.pc = "unlink" /\ (proc' = [proc EXCEPT ![p] = c] \/ proc' = [proc EXCEPT ![p] = Idle])
      BY <2>4 DEF Release, Idle
    <3> HIDE DEF c
    <3> QED BY <2>1, <3>1
  <2>5. CASE Load(p)
    <3>1. PICK n \in Serials :
            proc' = [proc EXCEPT ![p] =
                       [Idle EXCEPT !.op = "sign", !.pc = "view",
                                    !.rec = [id |-> state.id, rev |-> state.rev, serial |-> n]]]
      BY <2>5 DEF Load
    <3> DEFINE c == [Idle EXCEPT !.op = "sign", !.pc = "view",
                                 !.rec = [id |-> state.id, rev |-> state.rev, serial |-> n]]
    <3>2. c.pc = "view" /\ proc' = [proc EXCEPT ![p] = c]
      BY <3>1 DEF Idle
    <3> HIDE DEF c
    <3> QED BY <3>2
  <2>6. CASE LookupLedger(p)
    <3> DEFINE c == [proc[p] EXCEPT !.pc = "open", !.fd = lockFile]
    <3>1. c.pc = "open" /\ (proc' = [proc EXCEPT ![p] = c] \/ proc' = [proc EXCEPT ![p] = Idle])
      BY <1>1, <2>6 DEF LookupLedger, Process
    <3> HIDE DEF c
    <3> QED BY <2>1, <3>1
  <2>7. CASE AcquireLock(p)
    <3> DEFINE c == [proc[p] EXCEPT !.pc = "locked",
                                    !.held = IF proc[p].op = "sign" THEN "sh" ELSE "ex"]
    <3>1. c.pc = "locked" /\ proc' = [proc EXCEPT ![p] = c]
      BY <1>1, <2>7 DEF AcquireLock, Process
    <3> HIDE DEF c
    <3> QED BY <3>1
  <2>8. CASE UpdateLoad(p)
    <3> DEFINE c == [proc[p] EXCEPT !.snap = state,
                                    !.pc = IF state = NoState THEN "fresh" ELSE "loaded"]
    <3>1. c.pc \in {"fresh", "loaded"} /\ proc' = [proc EXCEPT ![p] = c]
      BY <1>1, <2>8 DEF UpdateLoad, Process
    <3> HIDE DEF c
    <3> QED BY <3>1
  <2>9. CASE UpdateMutate(p)
    <3> DEFINE c == [proc[p] EXCEPT !.pc = "mutated", !.seen = ledger.recs]
               d == [proc[p] EXCEPT !.pc = "release"]
    <3>1. /\ c.pc = "mutated" /\ d.pc = "release"
          /\ proc' = [proc EXCEPT ![p] = c] \/ proc' = [proc EXCEPT ![p] = d]
      BY <1>1, <2>9 DEF UpdateMutate, Process
    <3> HIDE DEF c, d
    <3> QED BY <3>1
  <2>10. CASE AppendLock(p)
    <3> DEFINE c == [proc[p] EXCEPT !.pc = "appending", !.ledgerLock = TRUE]
    <3>1. c.pc = "appending" /\ proc' = [proc EXCEPT ![p] = c]
      BY <1>1, <2>10 DEF AppendLock, Process
    <3> HIDE DEF c
    <3> QED BY <3>1
  <2>11. CASE UpdateCheck(p) \/ UpdateNothing(p) \/ AppendLoad(p)
    <3>1. \E pc \in {"checked", "release", "append"} : proc' = [proc EXCEPT ![p].pc = pc]
      BY <2>11 DEF UpdateCheck, UpdateNothing, AppendLoad
    <3>2. PICK pc \in {"checked", "release", "append"} : proc' = [proc EXCEPT ![p].pc = pc]
      BY <3>1
    <3> DEFINE c == [proc[p] EXCEPT !.pc = pc]
    <3>3. c.pc = pc /\ proc' = [proc EXCEPT ![p] = c]
      BY <1>1, <3>2 DEF Process
    <3> HIDE DEF c
    <3> QED BY <3>3
  <2> QED BY <2>2, <2>3, <2>4, <2>5, <2>6, <2>7, <2>8, <2>9, <2>10, <2>11 DEF Beside
<1>4. \A q \in Procs : proc'[q].pc = "writing" => proc[q].pc = "writing"
  BY <1>1, <1>3
<1> QED BY <1>2, <1>4 DEF Writing

\* Damage is final: nobody who could write finds the ledger whole.
LEMMA TornStep ==
  ASSUME PurgesAlone, Inv, NEW p \in deployment.procs, Step(p), Torn
  PROVE  UNCHANGED <<state, ledger>> /\ ~Writing'
<1>1. /\ p \in Procs /\ proc \in [Procs -> Process] /\ proc[p] \in Process
      /\ LockOK(proc[p]) /\ UpdateOK(proc[p]) /\ PurgeOK(proc[p]) /\ FilesOK
  BY Types DEF ProcOK, Inv
<1>2. ledger.partial /\ ~Writing /\ deployment.faults
  BY <1>1 DEF Torn, FilesOK
<1>3. ~deployment.purges
  BY <1>2 DEF PurgesAlone, Inv, TypeOK
<1>4. \A q \in Procs : proc[q].pc # "purging" /\ proc[q].op # "purge"
  BY <1>3, Types DEF ProcOK, LockOK
<1>5. proc[p].pc \notin {"fresh", "creating", "mutated", "writing"}
  BY <1>1, <1>2, <1>4 DEF UpdateOK, FilesOK, Writing
<1>6. CASE Beside(p)
  BY <1>2, <1>6, BesideFiles
<1>7. CASE AppendRead(p)
  <2>1. proc' = [proc EXCEPT ![p].pc = "release"] /\ UNCHANGED <<state, ledger>>
    BY <1>2, <1>7 DEF AppendRead, Readable
  <2>2. \A q \in Procs : proc'[q].pc = "writing" => proc[q].pc = "writing"
    BY <1>1, <2>1 DEF Process
  <2> QED BY <1>2, <2>1, <2>2 DEF Writing
<1>8. ~(\/ EnsureLedger(p) \/ EnsureLedgerMode(p) \/ WriteState(p) \/ PurgeState(p)
        \/ PurgeLedger(p) \/ AppendWrite(p))
  BY <1>1, <1>4, <1>5 DEF EnsureLedger, EnsureLedgerMode, WriteState, PurgeState, PurgeLedger,
     AppendWrite
<1> QED BY <1>6, <1>7, <1>8 DEF Step, Beside

-----------------------------------------------------------------------------

\* The files, the locks and the processes always have their types.
THEOREM FileStoreTypes ==
  ASSUME PurgesAlone
  PROVE  Spec => []TypeOK
<1>1. Inv => TypeOK
  BY DEF Inv
<1> QED BY <1>1, InitInv, NextInv, PTL DEF Spec

LEMMA WholeLedger ==
  ASSUME Inv
  PROVE  WholeUnderLock /\ LedgerBelongs
<1> SUFFICES ASSUME NEW p \in Procs, proc[p].pc \in {"loaded", "checked", "appending"},
                    NEW q \in Procs, proc[q].pc = "writing"
             PROVE  FALSE
  BY DEF Inv, FilesOK, WholeUnderLock, Writing
<1>1. LockOK(proc[p]) /\ LockOK(proc[q])
  BY Types DEF ProcOK
<1>2. CASE proc[p].pc = "appending"
  <2>1. proc[p].ledgerLock /\ proc[q].ledgerLock /\ p # q
    BY <1>1, <1>2 DEF LockOK
  <2> QED BY <2>1 DEF Inv, Exclusive
<1>3. CASE proc[p].pc \in {"loaded", "checked"}
  <2>1. proc[p].held = "ex"
    BY <1>1, <1>3 DEF LockOK, Unlocked
  <2> QED BY <2>1, WriterFiles DEF Writing
<1> QED BY <1>2, <1>3

\* Whoever reads the ledger under ca.lock for writing or under ledger.lock sees
\* no line that is being written, and the ledger holds records of its own
\* authority only, of its present and earlier revisions.
THEOREM LedgerReadWhole ==
  ASSUME PurgesAlone
  PROVE  Spec => [](WholeUnderLock /\ LedgerBelongs)
<1>1. Inv => WholeUnderLock /\ LedgerBelongs
  BY WholeLedger
<1> QED BY <1>1, InitInv, NextInv, PTL DEF Spec

\* A line that was cut short stays the last one and ca.json stays as it is:
\* appendLedgerRecord, update and ensureLedger all stop at the damage.
THEOREM DamageIsFinal ==
  ASSUME PurgesAlone
  PROVE  Spec => NothingAfterTorn
<1>1. Inv /\ [Next]_vars => [Torn => UNCHANGED <<state, ledger>> /\ ~Writing']_vars
  BY TornStep DEF Next
<1> QED BY <1>1, InitInv, NextInv, PTL DEF Spec, NothingAfterTorn

-----------------------------------------------------------------------------
\* The refinement of AtomicStore

\* The ledger as AtomicStore sees it: what a purge has not removed yet, or a
\* provisioning attempt has prepared, is no authority's ledger.
Records == IF state = NoState THEN {} ELSE ledger.recs

\* Every step of a process is one step of AtomicStore or none.
LEMMA AtomicStep ==
  ASSUME PurgesAlone, Inv, NEW p \in deployment.procs, Step(p)
  PROVE  Atomic!Next \/ UNCHANGED <<state, Records>>
<1>1. /\ p \in Procs /\ proc \in [Procs -> Process] /\ proc[p] \in Process
      /\ LockOK(proc[p]) /\ SignOK(proc[p]) /\ UpdateOK(proc[p]) /\ PurgeOK(proc[p]) /\ FilesOK
      /\ ledger \in [phase: {"absent", "raw", "ready"}, recs: SUBSET Record, partial: BOOLEAN]
      /\ state \in Document
  BY Types DEF ProcOK, Inv, TypeOK
<1>2. CASE Beside(p)
  BY <1>2, BesideFiles DEF Records
<1>3. CASE EnsureLedger(p) \/ EnsureLedgerMode(p)
  <2>1. state' = state /\ proc[p].pc \in {"fresh", "creating"}
    BY <1>3 DEF EnsureLedger, EnsureLedgerMode
  <2> QED BY <1>1, <2>1 DEF UpdateOK, Records
<1>4. CASE WriteState(p)
  <2>1. /\ proc[p].pc = "mutated" /\ UNCHANGED ledger
        /\ state' = state \/ state' = Mutated(p)
    BY <1>4 DEF WriteState
  <2>2. /\ proc[p].held = "ex" /\ proc[p].snap = state
        /\ state # NoState => proc[p].seen = ledger.recs
    BY <1>1, <2>1 DEF LockOK, UpdateOK, Unlocked
  <2>3. CASE state' = state
    BY <2>1, <2>3 DEF Records
  <2>4. CASE state = NoState /\ state' = Mutated(p)
    <3>1. state' = [id |-> authorities + 1, rev |-> 1, seen |-> {}]
      BY <2>2, <2>4 DEF Mutated
    <3>2. state'.id = authorities + 1
      BY <3>1
    <3>3. ledger.recs = {}
      BY <1>1, <2>1, <2>2, <2>4, WriterFiles DEF FilesOK
    <3>4. Atomic!Provision(state'.id)
      BY <2>1, <2>4, <3>1, <3>2, <3>3 DEF Atomic!Provision, Atomic!NoState, NoState
    <3> QED BY <2>4, <3>4 DEF Atomic!Next, Atomic!NoState, NoState
  <2>5. CASE state # NoState /\ state' = Mutated(p)
    <3>1. state' = [state EXCEPT !.rev = state.rev + 1, !.seen = ledger.recs]
      BY <2>2, <2>5 DEF Mutated
    <3>2. state' # NoState
      <4>1. state.rev \in Nat
        BY <1>1, FileStoreConstants DEF Document
      <4>2. state'.rev = state.rev + 1
        BY <1>1, <3>1 DEF Document
      <4> QED BY <4>1, <4>2 DEF NoState
    <3>3. Atomic!Update
      BY <2>1, <2>5, <3>1, <3>2 DEF Atomic!Update, Atomic!NoState, NoState
    <3> QED BY <3>3 DEF Atomic!Next
  <2> QED BY <2>1, <2>3, <2>4, <2>5
<1>5. CASE PurgeState(p)
  <2>1. state' = NoState
    BY <1>5 DEF PurgeState
  <2>2. CASE state = NoState
    BY <2>1, <2>2 DEF Records
  <2>3. CASE state # NoState
    <3>1. Atomic!Purge
      BY <2>1, <2>3 DEF Atomic!Purge, Atomic!NoState, NoState
    <3> QED BY <3>1 DEF Atomic!Next
  <2> QED BY <2>2, <2>3
<1>6. CASE PurgeLedger(p)
  <2>1. proc[p].pc = "purging" /\ state' = state
    BY <1>6 DEF PurgeLedger
  <2> QED BY <1>1, <2>1 DEF PurgeOK, Records
<1>7. CASE AppendRead(p)
  <2>1. state' = state /\ ledger'.recs = ledger.recs
    BY <1>1, <1>7 DEF AppendRead
  <2> QED BY <2>1 DEF Records
<1>8. CASE AppendWrite(p)
  <2>1. /\ proc[p].pc = "writing" /\ state' = state
        /\ \/ ledger' = ledger
           \/ ledger' = [ledger EXCEPT !.partial = FALSE, !.recs = ledger.recs \cup {proc[p].rec}]
    BY <1>8 DEF AppendWrite
  <2>2. CASE ledger' = ledger
    BY <2>1, <2>2 DEF Records
  <2>3. CASE ledger' = [ledger EXCEPT !.partial = FALSE, !.recs = ledger.recs \cup {proc[p].rec}]
    <3> DEFINE r == proc[p].rec
    <3>1. ledger'.recs = ledger.recs \cup {r} /\ r \notin ledger.recs /\ r.rev = state.rev
      BY <1>1, <2>1, <2>3 DEF SignOK
    <3>2. state # NoState
      <4>1. state.id # 0
        BY <1>1, <2>1 DEF SignOK, LockOK, Record
      <4> QED BY <4>1 DEF NoState
    <3>3. Atomic!AppendLedger(r)
      BY <2>1, <3>1, <3>2 DEF Atomic!AppendLedger, Atomic!NoState, NoState
    <3> QED BY <2>1, <3>1, <3>2, <3>3 DEF Atomic!Next
  <2> QED BY <2>1, <2>2, <2>3
<1> QED BY <1>2, <1>3, <1>4, <1>5, <1>6, <1>7, <1>8 DEF Step, Beside

LEMMA AtomicActs ==
  ASSUME PurgesAlone, Inv, [Next]_vars
  PROVE  Atomic!Next \/ UNCHANGED <<state, Records>>
<1>1. CASE UNCHANGED vars
  BY <1>1 DEF vars, Records
<1>2. CASE Next
  BY <1>2, AtomicStep DEF Next
<1> QED BY <1>1, <1>2

LEMMA AtomicInit ==
  Init => Atomic!Init
  BY DEF Init, Atomic!Init, Atomic!NoState, NoState, NoLedger

\* FileStore implements AtomicStore, which Authority and Issuance are written
\* over: every update reads and replaces the document in one step and sees the
\* whole ledger, every append is one step under the document it was signed
\* under, whatever other processes do, fail to do or leave when they die.
THEOREM FileStoreIsAtomic ==
  ASSUME PurgesAlone
  PROVE  Spec => AtomicSpec
<1>1. Inv /\ [Next]_vars => [Atomic!Next]_<<state, Records>>
  BY AtomicActs
<1> QED BY <1>1, AtomicInit, InitInv, NextInv, PTL DEF Spec, AtomicSpec, Atomic!Spec, Records

-----------------------------------------------------------------------------
\* SQLite: transactions

Connection ==
    [pc: {"idle", "begun", "mutated", "written", "loading", "signing", "appending"},
     lock: {"none", "shared", "reserved"}, snap: SQLite!Document, seen: SUBSET SQLite!Row,
     row: SQLite!Row \cup {SQLite!NoRow},
     result: {"none", "ok", "busy", "conflict", "drift"}]

(***************************************************************************)
(* What a connection in the middle of an operation knows: an updating one  *)
(* has the document as it is, and if it has listed the ledger it misses at *)
(* most rows of the present revision; an appending one has a row of the    *)
(* present revision.  Both know it because of the lock they hold.          *)
(***************************************************************************)
ConnOK(c) ==
    /\ c.pc \in {"begun", "mutated"} => c.lock = "shared" /\ c.snap = doc
    /\ c.pc = "written" => c.lock = "reserved" /\ c.snap = doc
    /\ c.pc \in {"mutated", "written"} =>
          /\ c.snap.rev < MaxRevision
          /\ \A r \in rows \ c.seen : r.rev = doc.rev
    /\ c.pc = "loading" => c.snap.rev # 0
    /\ c.pc = "signing" => c.row \in SQLite!Row
    /\ c.pc = "appending" => c.lock = "shared" /\ c.row \in SQLite!Row /\ c.row.rev = doc.rev

OneWriter ==
    \A p, q \in Procs : conn[p].pc = "written" /\ conn[q].pc = "written" => p = q

RowsNotNewer == \A r \in rows : r.rev <= doc.rev

SQLiteInv ==
    /\ SQLite!TypeOK
    /\ \A p \in Procs : ConnOK(conn[p])
    /\ OneWriter
    /\ RowsNotNewer
    /\ doc.rev = 0 => doc = SQLite!NoDoc

-----------------------------------------------------------------------------

LEMMA ConnIdle ==
  ASSUME SQLite!SQLiteConstants
  PROVE  /\ SQLite!Idle \in Connection /\ SQLite!NoDoc \in SQLite!Document
         /\ \A result \in {"none", "ok", "busy", "conflict", "drift"} :
               /\ [SQLite!Idle EXCEPT !.result = result] \in Connection
               /\ [SQLite!Idle EXCEPT !.result = result].pc = "idle"
  BY DEF SQLite!SQLiteConstants, SQLite!Idle, Connection, SQLite!NoDoc, SQLite!Document, SQLite!NoRow

\* A step that changes one connection and neither database.
LEMMA ConnStep ==
  ASSUME SQLiteInv, NEW p \in Procs, NEW c \in Connection,
         conn' = [conn EXCEPT ![p] = c], UNCHANGED <<doc, tables, rows>>,
         ConnOK(c),
         c.pc = "written" => \A q \in Procs \ {p} : conn[q].pc # "written"
  PROVE  SQLiteInv'
<1>1. conn \in [Procs -> Connection]
  BY DEF SQLiteInv, SQLite!TypeOK, Connection
<1>2. conn' \in [Procs -> Connection] /\ conn'[p] = c
  BY <1>1
<1>3. \A q \in Procs : q # p => conn'[q] = conn[q]
  BY <1>1
<1>4. SQLite!TypeOK'
  BY <1>2 DEF SQLiteInv, SQLite!TypeOK, Connection
<1>5. ASSUME NEW q \in Procs PROVE ConnOK(conn[q])'
  <2>1. CASE q = p
    BY <1>2, <2>1 DEF ConnOK
  <2>2. CASE q # p
    BY <1>3, <2>2 DEF SQLiteInv, ConnOK
  <2> QED BY <2>1, <2>2
<1>6. OneWriter'
  BY <1>2, <1>3 DEF SQLiteInv, OneWriter
<1> QED BY <1>4, <1>5, <1>6 DEF SQLiteInv, RowsNotNewer

\* The end of an operation that changed nothing.
LEMMA DoneStep ==
  ASSUME SQLite!SQLiteConstants, SQLiteInv, NEW p \in Procs,
         NEW result \in {"none", "ok", "busy", "conflict", "drift"},
         SQLite!Done(p, result), UNCHANGED <<doc, tables, rows>>
  PROVE  SQLiteInv'
<1> DEFINE c == [SQLite!Idle EXCEPT !.result = result]
<1>1. c \in Connection /\ c.pc = "idle"
  BY ConnIdle
<1>2. conn' = [conn EXCEPT ![p] = c]
  BY DEF SQLite!Done
<1> HIDE DEF c
<1>3. ConnOK(c)
  BY <1>1 DEF ConnOK
<1> QED BY <1>1, <1>2, <1>3, ConnStep

LEMMA SQLiteUpdate ==
  ASSUME SQLite!SQLiteConstants, SQLiteInv, NEW p \in Procs,
         SQLite!UpdateBegin(p) \/ SQLite!UpdateMutate(p) \/ SQLite!UpdateNothing(p) \/ SQLite!UpdateWrite(p)
  PROVE  SQLiteInv'
<1>1. conn \in [Procs -> Connection] /\ conn[p] \in Connection /\ ConnOK(conn[p])
  BY DEF SQLiteInv, SQLite!TypeOK, Connection
<1>2. doc \in SQLite!Document /\ rows \in SUBSET SQLite!Row /\ MaxRevision \in Nat
  BY DEF SQLiteInv, SQLite!TypeOK, SQLite!SQLiteConstants
<1>3. CASE SQLite!UpdateBegin(p)
  <2> DEFINE c == [SQLite!Idle EXCEPT !.pc = "begun", !.lock = "shared", !.snap = doc]
  <2>1. conn' = [conn EXCEPT ![p] = c] /\ UNCHANGED <<doc, tables, rows>>
    BY <1>3 DEF SQLite!UpdateBegin
  <2>2. c \in Connection /\ c.pc = "begun" /\ c.lock = "shared" /\ c.snap = doc
    BY ZenonT(30), <1>2, ConnIdle DEF Connection
  <2> HIDE DEF c
  <2>3. ConnOK(c)
    BY <2>2 DEF ConnOK
  <2> QED BY <2>1, <2>2, <2>3, ConnStep
<1>4. CASE SQLite!UpdateMutate(p)
  <2> DEFINE c == [conn[p] EXCEPT !.pc = "mutated", !.seen = rows]
  <2>1. /\ conn' = [conn EXCEPT ![p] = c] /\ UNCHANGED <<doc, tables, rows>>
        /\ conn[p].pc = "begun" /\ conn[p].snap.rev < MaxRevision
    BY <1>1, <1>4 DEF SQLite!UpdateMutate
  <2>2. /\ c \in Connection /\ c.pc = "mutated" /\ c.lock = conn[p].lock
        /\ c.snap = conn[p].snap /\ c.seen = rows
    BY <1>1, <1>2 DEF Connection
  <2> HIDE DEF c
  <2>3. ConnOK(c)
    BY <1>1, <2>1, <2>2 DEF ConnOK
  <2> QED BY <2>1, <2>2, <2>3, ConnStep
<1>5. CASE SQLite!UpdateNothing(p)
  BY <1>5, DoneStep DEF SQLite!UpdateNothing
<1>6. CASE SQLite!UpdateWrite(p)
  <2> DEFINE c == [conn[p] EXCEPT !.pc = "written", !.lock = "reserved"]
  <2>1. /\ UNCHANGED <<doc, tables, rows>> /\ conn[p].pc = "mutated"
        /\ \/ SQLite!Done(p, "busy")
           \/ "reserved" \notin SQLite!OtherLocks(p) /\ conn' = [conn EXCEPT ![p] = c]
    BY <1>1, <1>6 DEF SQLite!UpdateWrite
  <2>2. CASE SQLite!Done(p, "busy")
    BY <2>1, <2>2, DoneStep
  <2>3. CASE "reserved" \notin SQLite!OtherLocks(p) /\ conn' = [conn EXCEPT ![p] = c]
    <3>1. /\ c \in Connection /\ c.pc = "written" /\ c.lock = "reserved"
          /\ c.snap = conn[p].snap /\ c.seen = conn[p].seen
      BY <1>1 DEF Connection
    <3> HIDE DEF c
    <3>2. ConnOK(c)
      BY <1>1, <2>1, <3>1 DEF ConnOK
    <3>3. \A q \in Procs \ {p} : conn[q].pc # "written"
      BY <2>3 DEF SQLite!OtherLocks, SQLiteInv, ConnOK
    <3> QED BY <2>1, <2>3, <3>1, <3>2, <3>3, ConnStep
  <2> QED BY <2>1, <2>2, <2>3
<1> QED BY <1>3, <1>4, <1>5, <1>6

\* Nobody else is between its first read and its end when a commit succeeds.
LEMMA CommitAlone ==
  ASSUME SQLiteInv, NEW p \in Procs, conn[p].pc = "written", "shared" \notin SQLite!OtherLocks(p),
         NEW q \in Procs, q # p
  PROVE  conn[q].pc \in {"idle", "loading", "signing"}
<1>1. conn[q] \in Connection /\ ConnOK(conn[q])
  BY DEF SQLiteInv, SQLite!TypeOK, Connection
<1>2. conn[q].lock # "shared"
  BY DEF SQLite!OtherLocks
<1>3. conn[q].pc # "written"
  BY DEF SQLiteInv, OneWriter
<1> QED BY <1>1, <1>2, <1>3 DEF ConnOK, Connection

LEMMA SQLiteCommit ==
  ASSUME SQLite!SQLiteConstants, SQLiteInv, NEW p \in Procs, SQLite!UpdateCommit(p)
  PROVE  SQLiteInv'
<1>1. conn \in [Procs -> Connection] /\ conn[p] \in Connection /\ ConnOK(conn[p])
      /\ conn[p].pc = "written" /\ rows' = rows
  BY DEF SQLiteInv, SQLite!TypeOK, Connection, SQLite!UpdateCommit
<1>2. doc \in SQLite!Document /\ rows \in SUBSET SQLite!Row /\ MaxRevision \in Nat /\ doc.rev \in 0..MaxRevision
  BY DEF SQLiteInv, SQLite!TypeOK, SQLite!SQLiteConstants, SQLite!Document
<1>3. CASE SQLite!Done(p, "busy") /\ UNCHANGED <<doc, tables>>
  BY <1>1, <1>3, DoneStep
<1>4. CASE /\ "shared" \notin SQLite!OtherLocks(p)
           /\ doc' = [rev |-> conn[p].snap.rev + 1, seen |-> conn[p].seen]
           /\ tables' = conn[p].snap.rev + 1
           /\ SQLite!Done(p, "ok")
  <2> DEFINE c == [SQLite!Idle EXCEPT !.result = "ok"]
  <2>1. c \in Connection /\ c.pc = "idle" /\ conn' = [conn EXCEPT ![p] = c]
    BY <1>4, ConnIdle DEF SQLite!Done
  <2> HIDE DEF c
  <2>2. conn[p].snap = doc /\ doc.rev < MaxRevision /\ conn[p].seen \in SUBSET SQLite!Row
    BY <1>1 DEF ConnOK, Connection
  <2>3. doc'.rev = doc.rev + 1 /\ doc'.rev \in 1..MaxRevision /\ tables' \in 0..MaxRevision
    BY <1>2, <1>4, <2>2
  <2>4. doc' \in SQLite!Document
    BY <1>4, <2>2, <2>3 DEF SQLite!Document
  <2>5. SQLite!TypeOK'
    <3>1. conn' \in [Procs -> Connection]
      BY <1>1, <2>1
    <3> QED BY <1>1, <1>2, <2>3, <2>4, <3>1 DEF SQLite!TypeOK, Connection
  <2>6. ASSUME NEW q \in Procs
        PROVE  conn'[q].pc \in {"idle", "loading", "signing"} /\ ConnOK(conn[q])'
    <3>1. CASE q = p
      BY <1>1, <2>1, <3>1 DEF ConnOK
    <3>2. CASE q # p
      <4>1. conn'[q] = conn[q] /\ conn[q].pc \in {"idle", "loading", "signing"} /\ ConnOK(conn[q])
        BY <1>1, <1>4, <2>1, <3>2, CommitAlone DEF SQLiteInv
      <4> QED BY <4>1 DEF ConnOK
    <3> QED BY <3>1, <3>2
  <2>7. OneWriter'
    BY <2>6 DEF OneWriter
  <2>8. RowsNotNewer'
    BY <1>1, <1>2, <2>3 DEF SQLiteInv, RowsNotNewer, SQLite!Row
  <2> QED BY <2>3, <2>5, <2>6, <2>7, <2>8 DEF SQLiteInv
<1> QED BY <1>1, <1>3, <1>4 DEF SQLite!UpdateCommit

LEMMA SQLiteLoad ==
  ASSUME SQLite!SQLiteConstants, SQLiteInv, NEW p \in Procs,
         SQLite!LoadDocument(p) \/ SQLite!LoadParity(p) \/ SQLite!AppendBegin(p)
  PROVE  SQLiteInv'
<1>1. conn \in [Procs -> Connection] /\ conn[p] \in Connection /\ ConnOK(conn[p])
  BY DEF SQLiteInv, SQLite!TypeOK, Connection
<1>2. doc \in SQLite!Document /\ MaxRevision \in Nat
  BY DEF SQLiteInv, SQLite!TypeOK, SQLite!SQLiteConstants
<1>3. CASE SQLite!LoadDocument(p)
  <2> DEFINE c == [SQLite!Idle EXCEPT !.pc = "loading", !.snap = doc]
  <2>1. conn' = [conn EXCEPT ![p] = c] /\ UNCHANGED <<doc, tables, rows>> /\ doc # SQLite!NoDoc
    BY <1>3 DEF SQLite!LoadDocument
  <2>2. c \in Connection /\ c.pc = "loading" /\ c.snap = doc
    BY <1>2, ConnIdle DEF Connection
  <2> HIDE DEF c
  <2>3. ConnOK(c)
    BY <2>1, <2>2 DEF ConnOK, SQLiteInv
  <2> QED BY <2>1, <2>2, <2>3, ConnStep
<1>4. CASE SQLite!LoadParity(p)
  <2>1. /\ UNCHANGED <<doc, tables, rows>> /\ conn[p].pc = "loading"
        /\ \/ SQLite!Done(p, "drift") \/ SQLite!Done(p, "ok")
           \/ \E n \in SQLiteSerials :
                 conn' = [conn EXCEPT ![p] =
                            [SQLite!Idle EXCEPT !.pc = "signing",
                                         !.row = [rev |-> conn[p].snap.rev, serial |-> n]]]
    BY <1>4 DEF SQLite!LoadParity
  <2>2. CASE SQLite!Done(p, "drift") \/ SQLite!Done(p, "ok")
    BY <2>1, <2>2, DoneStep
  <2>3. ASSUME NEW n \in SQLiteSerials,
               conn' = [conn EXCEPT ![p] =
                            [SQLite!Idle EXCEPT !.pc = "signing",
                                         !.row = [rev |-> conn[p].snap.rev, serial |-> n]]]
        PROVE  SQLiteInv'
    <3> DEFINE r == [rev |-> conn[p].snap.rev, serial |-> n]
               c == [SQLite!Idle EXCEPT !.pc = "signing", !.row = r]
    <3>1. conn' = [conn EXCEPT ![p] = c]
      BY <2>3
    <3>2. conn[p].snap.rev \in 1..MaxRevision
      <4>1. conn[p].snap \in SQLite!Document /\ conn[p].snap.rev # 0
        BY <1>1, <2>1 DEF ConnOK, Connection
      <4>2. conn[p].snap.rev \in 0..MaxRevision
        BY <4>1 DEF SQLite!Document
      <4> QED BY <1>2, <4>1, <4>2
    <3>3. r \in SQLite!Row
      BY <3>2 DEF SQLite!Row
    <3> HIDE DEF r
    <3>4. c \in Connection /\ c.pc = "signing" /\ c.row = r
      BY <3>3, ConnIdle DEF Connection
    <3> HIDE DEF c
    <3>5. ConnOK(c)
      BY <3>3, <3>4 DEF ConnOK
    <3> QED BY <2>1, <3>1, <3>4, <3>5, ConnStep
  <2> QED BY <2>1, <2>2, <2>3
<1>5. CASE SQLite!AppendBegin(p)
  <2> DEFINE c == [conn[p] EXCEPT !.pc = "appending", !.lock = "shared"]
  <2>1. /\ UNCHANGED <<doc, tables, rows>> /\ conn[p].pc = "signing"
        /\ \/ SQLite!Done(p, "conflict")
           \/ doc.rev = conn[p].row.rev /\ conn' = [conn EXCEPT ![p] = c]
    BY <1>1, <1>5 DEF SQLite!AppendBegin
  <2>2. c \in Connection /\ c.pc = "appending" /\ c.lock = "shared" /\ c.row = conn[p].row
    BY <1>1 DEF Connection
  <2> HIDE DEF c
  <2>3. doc.rev = conn[p].row.rev => ConnOK(c)
    BY <1>1, <2>1, <2>2 DEF ConnOK
  <2> QED BY <2>1, <2>2, <2>3, ConnStep, DoneStep
<1> QED BY <1>3, <1>4, <1>5

LEMMA SQLiteInsert ==
  ASSUME SQLite!SQLiteConstants, SQLiteInv, NEW p \in Procs, SQLite!AppendInsert(p)
  PROVE  SQLiteInv'
<1>1. conn \in [Procs -> Connection] /\ conn[p] \in Connection /\ ConnOK(conn[p])
      /\ conn[p].pc = "appending" /\ UNCHANGED <<doc, tables>>
  BY DEF SQLiteInv, SQLite!TypeOK, Connection, SQLite!AppendInsert
<1>2. CASE rows' = rows /\ (SQLite!Done(p, "conflict") \/ SQLite!Done(p, "busy"))
  BY <1>1, <1>2, DoneStep
<1>3. CASE rows' = rows \cup {conn[p].row} /\ SQLite!Done(p, "ok")
  <2> DEFINE c == [SQLite!Idle EXCEPT !.result = "ok"]
  <2>1. c \in Connection /\ c.pc = "idle" /\ conn' = [conn EXCEPT ![p] = c]
    BY <1>3, ConnIdle DEF SQLite!Done
  <2> HIDE DEF c
  <2>2. conn[p].row \in SQLite!Row /\ conn[p].row.rev = doc.rev
    BY <1>1 DEF ConnOK
  <2>3. SQLite!TypeOK'
    <3>1. conn' \in [Procs -> Connection]
      BY <1>1, <2>1
    <3>2. rows' \in SUBSET SQLite!Row
      BY <1>3, <2>2 DEF SQLiteInv, SQLite!TypeOK
    <3> QED BY <1>1, <3>1, <3>2 DEF SQLiteInv, SQLite!TypeOK, Connection
  <2>4. ASSUME NEW q \in Procs PROVE ConnOK(conn[q])'
    <3>1. CASE q = p
      BY <1>1, <2>1, <3>1 DEF ConnOK
    <3>2. CASE q # p
      <4>1. conn'[q] = conn[q] /\ ConnOK(conn[q])
        BY <1>1, <2>1, <3>2 DEF SQLiteInv
      <4> QED BY <1>1, <1>3, <2>2, <4>1 DEF ConnOK
    <3> QED BY <3>1, <3>2
  <2>5. OneWriter'
    BY <1>1, <2>1 DEF SQLiteInv, OneWriter
  <2>6. RowsNotNewer'
    <3>1. doc.rev \in Int
      BY DEF SQLiteInv, SQLite!TypeOK, SQLite!Document
    <3> QED BY <1>1, <1>3, <2>2, <3>1 DEF SQLiteInv, RowsNotNewer
  <2> QED BY <1>1, <2>3, <2>4, <2>5, <2>6 DEF SQLiteInv
<1> QED BY <1>1, <1>2, <1>3 DEF SQLite!AppendInsert

LEMMA SQLiteNextInv ==
  ASSUME SQLite!SQLiteConstants
  PROVE  SQLiteInv /\ [SQLite!Next]_SQLite!vars => SQLiteInv'
<1> SUFFICES ASSUME SQLiteInv, [SQLite!Next]_SQLite!vars PROVE SQLiteInv'
  OBVIOUS
<1>1. ASSUME NEW p \in Procs, SQLite!Step(p) PROVE SQLiteInv'
  <2>1. CASE SQLite!Crash(p)
    BY <2>1, DoneStep DEF SQLite!Crash
  <2> QED BY <1>1, <2>1, SQLiteUpdate, SQLiteCommit, SQLiteLoad, SQLiteInsert DEF SQLite!Step
<1>2. CASE UNCHANGED SQLite!vars
  BY <1>2 DEF SQLite!vars, SQLiteInv, SQLite!TypeOK, ConnOK, OneWriter, RowsNotNewer
<1> QED BY <1>1, <1>2 DEF SQLite!Next

LEMMA SQLiteInitInv ==
  ASSUME SQLite!SQLiteConstants
  PROVE  SQLite!Init => SQLiteInv
<1> SUFFICES ASSUME SQLite!Init PROVE SQLiteInv
  OBVIOUS
<1>1. doc = SQLite!NoDoc /\ tables = 0 /\ rows = {} /\ conn = [p \in Procs |-> SQLite!Idle]
  BY DEF SQLite!Init
<1>2. SQLite!TypeOK
  BY <1>1, ConnIdle DEF SQLite!TypeOK, Connection, SQLite!SQLiteConstants
<1>3. SQLite!Idle.pc = "idle"
  BY DEF SQLite!Idle
<1>4. \A p \in Procs : ConnOK(conn[p])
  BY <1>1, <1>3 DEF ConnOK
<1> QED BY <1>1, <1>2, <1>3, <1>4 DEF SQLiteInv, OneWriter, RowsNotNewer

-----------------------------------------------------------------------------

\* The databases and connections always have their types: no revision beyond
\* the last one is written and no connection keeps a lock its state rules out.
THEOREM SQLiteTypes ==
  SQLite!Spec => []SQLite!TypeOK
<1> USE StoresConstants
<1>1. SQLiteInv => SQLite!TypeOK
  BY DEF SQLiteInv
<1> QED BY <1>1, SQLiteInitInv, SQLiteNextInv, PTL DEF SQLite!Spec

\* The steps that SQLiteSerial allows.
SQLiteOrderly ==
    /\ [\E p \in Procs : conn[p].pc = "written" /\ conn[p].snap = doc]_doc
    /\ [\A r \in rows' \ rows : r.rev = doc.rev]_rows
    /\ [\A r \in rows \ doc'.seen : r.rev = doc.rev]_doc

LEMMA SQLiteActs ==
  ASSUME SQLiteInv, [SQLite!Next]_SQLite!vars
  PROVE  SQLiteOrderly
<1>1. ASSUME SQLiteInv, NEW p \in Procs, SQLite!Step(p)
      PROVE  /\ doc' # doc => /\ conn[p].pc = "written" /\ conn[p].snap = doc
                              /\ \A r \in rows \ doc'.seen : r.rev = doc.rev
             /\ \A r \in rows' \ rows : r.rev = doc.rev
  <2>1. ConnOK(conn[p])
    BY <1>1 DEF SQLiteInv
  <2>2. CASE SQLite!UpdateCommit(p)
    <3>1. conn[p].pc = "written" /\ rows' = rows
      BY <2>2 DEF SQLite!UpdateCommit
    <3>2. \/ doc' = doc
          \/ doc' = [rev |-> conn[p].snap.rev + 1, seen |-> conn[p].seen]
      BY <2>2 DEF SQLite!UpdateCommit
    <3> QED BY <2>1, <3>1, <3>2 DEF ConnOK
  <2>3. CASE SQLite!AppendInsert(p)
    <3>1. /\ conn[p].pc = "appending" /\ doc' = doc
          /\ rows' = rows \/ rows' = rows \cup {conn[p].row}
      BY <2>3 DEF SQLite!AppendInsert
    <3> QED BY <2>1, <3>1 DEF ConnOK
  <2>4. CASE \/ SQLite!UpdateBegin(p) \/ SQLite!UpdateMutate(p) \/ SQLite!UpdateNothing(p)
             \/ SQLite!UpdateWrite(p) \/ SQLite!LoadDocument(p) \/ SQLite!LoadParity(p)
             \/ SQLite!AppendBegin(p) \/ SQLite!Crash(p)
    <3>1. doc' = doc /\ rows' = rows
      BY <2>4 DEF SQLite!UpdateBegin, SQLite!UpdateMutate, SQLite!UpdateNothing, SQLite!UpdateWrite,
         SQLite!LoadDocument, SQLite!LoadParity, SQLite!AppendBegin, SQLite!Crash
    <3> QED BY <3>1
  <2> QED BY <1>1, <2>2, <2>3, <2>4 DEF SQLite!Step
<1>2. CASE SQLite!Next
  BY <1>1, <1>2 DEF SQLite!Next, SQLiteOrderly
<1>3. CASE UNCHANGED SQLite!vars
  BY <1>3 DEF SQLite!vars, SQLiteOrderly
<1> QED BY <1>2, <1>3

\* Updates and appends over the two databases are serial: a commit replaces the
\* document its transaction has read, a row goes in under the present revision,
\* and what a committed mutation missed is of the revision it replaces.
THEOREM SQLiteIsSerial ==
  SQLite!Spec => SQLite!SQLiteSerial
<1> USE StoresConstants
<1>1. SQLiteInv /\ [SQLite!Next]_SQLite!vars =>
        /\ [\E p \in Procs : conn[p].pc = "written" /\ conn[p].snap = doc]_doc
        /\ [\A r \in rows' \ rows : r.rev = doc.rev]_rows
        /\ [\A r \in rows \ doc'.seen : r.rev = doc.rev]_doc
  BY SQLiteActs DEF SQLiteOrderly
<1> QED BY <1>1, SQLiteInitInv, SQLiteNextInv, PTL
        DEF SQLite!Spec, SQLite!SQLiteSerial, SQLite!NoLostUpdate, SQLite!AppendsCurrent,
            SQLite!MissesOnlyCurrent

-----------------------------------------------------------------------------
\* SQLite: files

\* A purge runs while no other process uses the store.
FilesPurgedAlone ==
    \A d \in FilesDeployments : d.purges => \A p, q \in d.procs : p = q

Moving == {"dir", "dirmode", "ledger", "ledgermode", "commit"}
Purging == {"purgeledger", "purgedir"}
OpenerPC == {"closed", "migrate", "chmod", "open", "signing"} \cup Moving \cup Purging
Opener == [pc: OpenerPC, rev: 0..MaxRevision]

(***************************************************************************)
(* What a process knows of the files: whoever has opened the database      *)
(* knows that its mode is right; whoever provisions knows the same of what *)
(* it has made or accepted on the way, and that there is no authority;     *)
(* whoever signs has seen no foreign row.  Processes that share the store  *)
(* never remove anything, so they do not disturb this for each other.      *)
(***************************************************************************)
OpenerKnows(p) ==
    LET pc == opener[p].pc IN
    /\ p \notin use.procs => pc = "closed"
    /\ pc = "chmod" => file.phase # "absent"
    /\ pc \in {"open", "signing"} \cup Moving => file.phase = "proper"
    /\ pc \in Moving => file.rev = 0 /\ provisions < MaxAuthorities
    /\ pc = "dirmode" => dir # "absent"
    /\ pc \in {"ledger", "ledgermode", "commit"} => dir = "proper"
    /\ pc = "ledgermode" => ledgerFile.phase # "absent"
    /\ pc = "commit" => ledgerFile.phase = "proper"
    /\ pc = "signing" => opener[p].rev > 0 /\ file.rev > 0 /\ Files!Belong
    /\ pc \in Purging => use.purges /\ file.rev = 0

\* Only a purge that was interrupted leaves rows without their authority.
RowsOwned ==
    faults = 0 \/ ~use.purges =>
      IF file.rev > 0 THEN Files!Belong
      ELSE ledgerFile.ids = {} \/ \E p \in Procs : opener[p].pc = "purgeledger"

OneProvides == \A p, q \in Procs : opener[p].pc \in Moving /\ opener[q].pc \in Moving => p = q
Settled == file.rev > 0 => file.id # 0 /\ file.phase = "proper" /\ Files!LedgerOpens

FilesInv ==
    /\ Files!TypeOK
    /\ \A p \in Procs : OpenerKnows(p)
    /\ OneProvides /\ Settled /\ RowsOwned

\* What a process may do to the files while others use them.
FilesGrow ==
    /\ file.phase # "absent" => file'.phase # "absent"
    /\ file.phase = "proper" => file'.phase = "proper"
    /\ dir # "absent" => dir' # "absent"
    /\ dir = "proper" => dir' = "proper"
    /\ ledgerFile.phase # "absent" => ledgerFile'.phase # "absent"
    /\ ledgerFile.phase = "proper" => ledgerFile'.phase = "proper"
    /\ file.rev > 0 => file'.rev > 0

\* The step that ForeignLedgerStops allows.
FilesStop ==
    file.rev > 0 /\ ~Files!Belong =>
      ledgerFile' \in {ledgerFile, Files!NoLedger} /\ file' \in {file, Files!NoFile}

FilesType ==
    /\ file \in [phase: Files!Phase, id: 0..provisions, rev: 0..MaxRevision]
    /\ file.phase = "absent" => file = Files!NoFile
    /\ dir \in Files!Phase
    /\ ledgerFile \in [phase: Files!Phase, ids: SUBSET (1..provisions)]
    /\ provisions \in 0..MaxAuthorities /\ faults \in 0..MaxFaults

LEMMA FilesTypeIs ==
  Files!TypeOK <=> FilesType /\ opener \in [Procs -> Opener] /\ use \in FilesDeployments
<1>1. OpenerPC = {"closed", "migrate", "chmod", "open", "dir", "dirmode", "ledger",
                  "ledgermode", "commit", "signing", "purgeledger", "purgedir"}
  BY DEF OpenerPC, Moving, Purging
<1> QED BY <1>1 DEF Files!TypeOK, FilesType, Opener

\* Where two processes use the store nobody purges it.
LEMMA FilesShared ==
  ASSUME Files!SQLiteFilesConstants, FilesPurgedAlone, FilesInv,
         NEW p \in use.procs, NEW q \in use.procs, p # q
  PROVE  ~use.purges
<1>1. use \in FilesDeployments
  BY FilesTypeIs DEF FilesInv
<1> QED BY <1>1 DEF FilesPurgedAlone

LEMMA FilesAssemble ==
  ASSUME Files!SQLiteFilesConstants, FilesPurgedAlone, FilesInv, NEW p \in use.procs, p \in Procs,
         NEW r \in Opener, opener' = [opener EXCEPT ![p] = r], UNCHANGED use,
         FilesType', OpenerKnows(p)', Settled', RowsOwned',
         r.pc \in Moving => opener[p].pc \in Moving \/ \A q \in Procs : opener[q].pc \notin Moving,
         ~use.purges => /\ FilesGrow
                        /\ \/ opener[p].pc \in Moving
                           \/ provisions' = provisions /\ (file.rev = 0 => file'.rev = 0)
  PROVE  FilesInv'
<1>1. /\ opener \in [Procs -> Opener] /\ use \in FilesDeployments /\ OneProvides
      /\ \A q \in Procs : OpenerKnows(q)
  BY FilesTypeIs DEF FilesInv
<1>2. /\ opener' \in [Procs -> Opener] /\ opener'[p] = r
      /\ \A q \in Procs \ {p} : opener'[q] = opener[q]
  BY <1>1
<1>3. Files!TypeOK'
  <2>1. (FilesType /\ opener \in [Procs -> Opener] /\ use \in FilesDeployments)'
    BY <1>1, <1>2
  <2> QED BY <2>1, FilesTypeIs, PTL
<1>4. OneProvides'
  BY <1>1, <1>2 DEF OneProvides
<1>5. ASSUME NEW q \in Procs
      PROVE  OpenerKnows(q)'
  <2>1. CASE q = p
    BY <2>1
  <2>2. CASE q # p /\ q \notin use.procs
    <3>1. opener'[q].pc = "closed"
      BY <1>1, <1>2, <2>2 DEF OpenerKnows
    <3> QED BY <3>1 DEF OpenerKnows, Moving, Purging
  <2>3. CASE q # p /\ q \in use.procs
    <3>1. ~use.purges /\ FilesGrow
      BY <2>3, FilesShared
    <3>2. opener'[q] = opener[q] /\ OpenerKnows(q)
      BY <1>1, <1>2, <2>3
    <3>3. opener[q].pc \in Moving => provisions' = provisions /\ (file.rev = 0 => file'.rev = 0)
      BY <1>1, <2>3, <3>1 DEF OneProvides
    <3>4. file'.rev > 0 => Files!Belong'
      BY <3>1 DEF RowsOwned
    <3>5. opener[q].pc \notin Purging
      BY <3>1, <3>2 DEF OpenerKnows
    <3> QED BY <3>1, <3>2, <3>3, <3>4, <3>5 DEF OpenerKnows, FilesGrow
  <2> QED BY <2>1, <2>2, <2>3
<1> QED BY <1>3, <1>4, <1>5 DEF FilesInv

\* A step that leaves the files as they are.
LEMMA FilesMove ==
  ASSUME Files!SQLiteFilesConstants, FilesPurgedAlone, FilesInv, NEW p \in use.procs, p \in Procs,
         NEW r \in Opener, opener' = [opener EXCEPT ![p] = r],
         UNCHANGED <<file, dir, ledgerFile, provisions, use>>,
         faults' \in 0..MaxFaults, faults' = faults \/ faults' # 0,
         opener[p].pc = "purgeledger" => faults' # 0,
         OpenerKnows(p)',
         r.pc \in Moving => opener[p].pc \in Moving \/ \A q \in Procs : opener[q].pc \notin Moving
  PROVE  FilesInv' /\ FilesStop
<1>1. FilesType /\ opener \in [Procs -> Opener] /\ Settled /\ RowsOwned
  BY FilesTypeIs DEF FilesInv
<1>2. FilesType'
  BY <1>1 DEF FilesType
<1>3. Settled'
  BY <1>1 DEF Settled, Files!LedgerOpens, Files!Accepts
<1>4. RowsOwned'
  <2> SUFFICES ASSUME faults' = 0 \/ ~use.purges
               PROVE  IF file.rev > 0 THEN Files!Belong
                      ELSE ledgerFile.ids = {} \/ \E q \in Procs : opener'[q].pc = "purgeledger"
    BY DEF RowsOwned, Files!Belong
  <2>1. faults = 0 \/ ~use.purges
    OBVIOUS
  <2>2. ASSUME NEW q \in Procs, opener[q].pc = "purgeledger"
        PROVE  opener'[q].pc = "purgeledger"
    <3>1. OpenerKnows(q)
      BY DEF FilesInv
    <3>2. use.purges
      BY <2>2, <3>1 DEF OpenerKnows, Purging
    <3>3. q # p
      BY <2>2, <3>2
    <3> QED BY <1>1, <2>2, <3>3
  <2> QED BY <1>1, <2>1, <2>2 DEF RowsOwned
<1>5. FilesGrow /\ provisions' = provisions /\ (file.rev = 0 => file'.rev = 0)
  BY DEF FilesGrow
<1>6. FilesInv'
  BY <1>2, <1>3, <1>4, <1>5, FilesAssemble
<1> QED BY <1>6 DEF FilesStop

LEMMA GotoIs ==
  ASSUME FilesInv, NEW p \in Procs, NEW next \in OpenerPC, Files!Goto(p, next)
  PROVE  \E r \in Opener : /\ opener' = [opener EXCEPT ![p] = r] /\ opener'[p] = r
                           /\ r.pc = next /\ r.rev = opener[p].rev
<1> DEFINE r == [opener[p] EXCEPT !.pc = next]
<1>1. opener \in [Procs -> Opener]
  BY FilesTypeIs DEF FilesInv
<1>2. r \in Opener /\ r.pc = next /\ r.rev = opener[p].rev
  BY <1>1 DEF Opener
<1>3. opener' = [opener EXCEPT ![p] = r]
  BY <1>1 DEF Files!Goto
<1> HIDE DEF r
<1> QED BY <1>1, <1>2, <1>3

LEMMA OpenerPCs ==
  /\ "closed" \in OpenerPC /\ "migrate" \in OpenerPC /\ "chmod" \in OpenerPC /\ "open" \in OpenerPC
  /\ "dir" \in OpenerPC /\ "dirmode" \in OpenerPC /\ "ledger" \in OpenerPC /\ "ledgermode" \in OpenerPC
  /\ "commit" \in OpenerPC /\ "signing" \in OpenerPC /\ "purgeledger" \in OpenerPC
  /\ "purgedir" \in OpenerPC
  BY DEF OpenerPC, Moving, Purging

LEMMA FilesOpen ==
  ASSUME Files!SQLiteFilesConstants, FilesPurgedAlone, FilesInv, NEW p \in use.procs, p \in Procs,
         Files!OpenStat(p) \/ Files!OpenMigrate(p) \/ Files!OpenChmod(p) \/ Files!Close(p)
  PROVE  FilesInv' /\ FilesStop
<1>1. /\ FilesType /\ opener \in [Procs -> Opener] /\ Settled /\ RowsOwned /\ OpenerKnows(p)
      /\ faults \in 0..MaxFaults
  BY FilesTypeIs DEF FilesInv, FilesType
<1>2. CASE Files!OpenStat(p)
  <2>1. /\ opener[p].pc = "closed" /\ UNCHANGED <<file, dir, ledgerFile, provisions, use, faults>>
        /\ \/ Files!Goto(p, "migrate")
           \/ file.phase = "proper" /\ Files!Goto(p, "open")
    BY <1>2 DEF Files!OpenStat, Files!At, Files!Accepts
  <2>2. CASE Files!Goto(p, "migrate")
    <3>1. PICK r \in Opener : /\ opener' = [opener EXCEPT ![p] = r] /\ opener'[p] = r
                              /\ r.pc = "migrate" /\ r.rev = opener[p].rev
      BY <2>2, GotoIs, OpenerPCs
    <3>2. OpenerKnows(p)'
      BY <2>1, <3>1 DEF OpenerKnows, Moving, Purging
    <3> QED BY <1>1, <2>1, <3>1, <3>2, FilesMove DEF Moving
  <2>3. CASE file.phase = "proper" /\ Files!Goto(p, "open")
    <3>1. PICK r \in Opener : /\ opener' = [opener EXCEPT ![p] = r] /\ opener'[p] = r
                              /\ r.pc = "open" /\ r.rev = opener[p].rev
      BY <2>3, GotoIs, OpenerPCs
    <3>2. OpenerKnows(p)'
      BY <2>1, <2>3, <3>1 DEF OpenerKnows, Moving, Purging
    <3> QED BY <1>1, <2>1, <3>1, <3>2, FilesMove DEF Moving
  <2> QED BY <2>1, <2>2, <2>3
<1>3. CASE Files!OpenMigrate(p) \/ Files!OpenChmod(p)
  <2>1. /\ UNCHANGED <<dir, ledgerFile, provisions, use, faults>>
        /\ opener[p].pc \in {"migrate", "chmod"}
        /\ file'.id = file.id /\ file'.rev = file.rev
        /\ file' \in [phase: Files!Phase, id: 0..provisions, rev: 0..MaxRevision]
        /\ file'.phase # "absent"
        /\ file.phase = "proper" => file'.phase = "proper" /\ file' = file
        /\ opener[p].pc = "chmod" => file'.phase = "proper"
    <3>1. file \in [phase: Files!Phase, id: 0..provisions, rev: 0..MaxRevision]
      BY <1>1 DEF FilesType
    <3>2. CASE Files!OpenMigrate(p)
      BY <3>1, <3>2 DEF Files!OpenMigrate, Files!migrate, Files!At, Files!Phase
    <3>3. CASE Files!OpenChmod(p)
      <4>1. file.phase # "absent" /\ opener[p].pc = "chmod"
        BY <1>1, <3>3 DEF OpenerKnows, Files!OpenChmod, Files!At
      <4> QED BY <3>1, <3>3, <4>1 DEF Files!OpenChmod, Files!Fixed, Files!Phase
    <3> QED BY <1>3, <3>2, <3>3
  <2>2. PICK r \in Opener : /\ opener' = [opener EXCEPT ![p] = r] /\ opener'[p] = r
                            /\ \/ r.pc = "chmod"
                               \/ r.pc = "open" /\ opener[p].pc = "chmod"
    <3>1. CASE Files!OpenMigrate(p)
      BY <3>1, GotoIs, OpenerPCs DEF Files!OpenMigrate
    <3>2. CASE Files!OpenChmod(p)
      BY <3>2, GotoIs, OpenerPCs DEF Files!OpenChmod, Files!At
    <3> QED BY <1>3, <3>1, <3>2
  <2>3. FilesType'
    BY <1>1, <2>1 DEF FilesType
  <2>4. OpenerKnows(p)'
    BY <2>1, <2>2 DEF OpenerKnows, Moving, Purging
  <2>5. Settled'
    BY <1>1, <2>1 DEF Settled, Files!LedgerOpens, Files!Accepts
  <2>6. RowsOwned'
    <3>1. Files!Belong' <=> Files!Belong
      BY <2>1 DEF Files!Belong
    <3>2. \A q \in Procs : opener[q].pc = "purgeledger" => opener'[q].pc = "purgeledger"
      BY <1>1, <2>1, <2>2
    <3> QED BY <1>1, <2>1, <3>1, <3>2 DEF RowsOwned
  <2>7. FilesGrow
    BY <2>1 DEF FilesGrow
  <2>8. FilesInv'
    BY <2>1, <2>2, <2>3, <2>4, <2>5, <2>6, <2>7, FilesAssemble DEF Moving
  <2>9. FilesStop
    BY <1>1, <2>1 DEF FilesStop, Settled
  <2> QED BY <2>8, <2>9
<1>4. CASE Files!Close(p)
  <2>1. opener[p].pc = "open" /\ UNCHANGED <<file, dir, ledgerFile, provisions, use, faults>>
    BY <1>4 DEF Files!Close, Files!At
  <2>2. /\ Files!Closed \in Opener /\ Files!Closed.pc = "closed"
        /\ opener' = [opener EXCEPT ![p] = Files!Closed]
    BY <1>4, OpenerPCs DEF Files!Close, Files!Closed, Opener, Files!SQLiteFilesConstants
  <2>3. OpenerKnows(p)'
    BY <1>1, <2>2 DEF OpenerKnows, Moving, Purging
  <2> QED BY <1>1, <2>1, <2>2, <2>3, FilesMove DEF Moving
<1> QED BY <1>2, <1>3, <1>4

LEMMA FilesProvision ==
  ASSUME Files!SQLiteFilesConstants, FilesPurgedAlone, FilesInv, NEW p \in use.procs, p \in Procs,
         \/ Files!ProvisionBegin(p) \/ Files!ProvisionDir(p) \/ Files!ProvisionDirMode(p)
         \/ Files!ProvisionLedger(p) \/ Files!ProvisionLedgerMode(p)
  PROVE  FilesInv' /\ FilesStop
<1>1. /\ FilesType /\ opener \in [Procs -> Opener] /\ Settled /\ RowsOwned /\ OpenerKnows(p)
      /\ faults \in 0..MaxFaults /\ dir \in Files!Phase
      /\ ledgerFile \in [phase: Files!Phase, ids: SUBSET (1..provisions)]
  BY FilesTypeIs DEF FilesInv, FilesType
<1>2. UNCHANGED <<file, provisions, use, faults>>
  BY DEF Files!ProvisionBegin, Files!ProvisionDir, Files!ProvisionDirMode, Files!ProvisionLedger,
         Files!ProvisionLedgerMode
\* The process goes on with the files as they are.
<1>3. ASSUME NEW next \in OpenerPC, Files!Goto(p, next), UNCHANGED <<dir, ledgerFile>>,
             opener[p].pc \in {"open"} \cup Moving,
             next \in {"open"} \cup Moving,
             next \in Moving => /\ file.rev = 0 /\ provisions < MaxAuthorities
                                /\ opener[p].pc \in Moving \/ \A q \in Procs : opener[q].pc \notin Moving,
             next \in {"open", "dir", "ledger", "commit"},
             next \in {"ledger", "commit"} => dir = "proper",
             next = "commit" => ledgerFile.phase = "proper"
      PROVE  FilesInv' /\ FilesStop
  <2>1. PICK r \in Opener : /\ opener' = [opener EXCEPT ![p] = r] /\ opener'[p] = r
                            /\ r.pc = next /\ r.rev = opener[p].rev
    BY <1>3, GotoIs
  <2>2. file.phase = "proper" /\ opener[p].pc # "purgeledger"
    BY <1>1, <1>3 DEF OpenerKnows, Moving
  <2>3. OpenerKnows(p)'
    BY <1>2, <1>3, <2>1, <2>2 DEF OpenerKnows, Purging, Moving
  <2> QED BY <1>1, <1>2, <1>3, <2>1, <2>2, <2>3, FilesMove
\* It makes a file or a directory or sets its mode.
<1>4. ASSUME NEW next \in {"dirmode", "ledger", "ledgermode", "commit"}, Files!Goto(p, next),
             opener[p].pc \in Moving, ledgerFile'.ids = ledgerFile.ids,
             dir' \in Files!Phase, ledgerFile' \in [phase: Files!Phase, ids: SUBSET (1..provisions)],
             dir' # "absent", dir = "proper" => dir' = "proper",
             ledgerFile.phase # "absent" => ledgerFile'.phase # "absent",
             ledgerFile.phase = "proper" => ledgerFile'.phase = "proper",
             next # "dirmode" => dir' = "proper",
             next = "ledgermode" => ledgerFile'.phase # "absent",
             next = "commit" => ledgerFile'.phase = "proper"
      PROVE  FilesInv' /\ FilesStop
  <2>1. next \in OpenerPC /\ next \in Moving
    BY OpenerPCs DEF Moving
  <2>2. PICK r \in Opener : /\ opener' = [opener EXCEPT ![p] = r] /\ opener'[p] = r
                            /\ r.pc = next /\ r.rev = opener[p].rev
    BY <1>4, <2>1, GotoIs
  <2>3. file.phase = "proper" /\ file.rev = 0 /\ provisions < MaxAuthorities
    BY <1>1, <1>4 DEF OpenerKnows
  <2>4. FilesType'
    BY <1>1, <1>2, <1>4 DEF FilesType
  <2>5. OpenerKnows(p)'
    BY <1>2, <1>4, <2>1, <2>2, <2>3 DEF OpenerKnows, Purging
  <2>6. Settled'
    BY <1>2, <2>3 DEF Settled
  <2>7. RowsOwned'
    <3>1. \A q \in Procs : opener[q].pc = "purgeledger" => opener'[q].pc = "purgeledger"
      BY <1>1, <1>4, <2>2 DEF Moving
    <3> QED BY <1>1, <1>2, <1>4, <2>3, <3>1 DEF RowsOwned
  <2>8. FilesGrow
    BY <1>2, <1>4 DEF FilesGrow
  <2>9. FilesInv'
    BY <1>2, <1>4, <2>2, <2>4, <2>5, <2>6, <2>7, <2>8, FilesAssemble
  <2> QED BY <2>3, <2>9 DEF FilesStop
<1>5. CASE Files!ProvisionBegin(p)
  <2>1. /\ opener[p].pc = "open" /\ file.rev = 0 /\ provisions < MaxAuthorities
        /\ \A q \in Procs : opener[q].pc \notin Moving
        /\ Files!Goto(p, "dir") /\ UNCHANGED <<dir, ledgerFile>>
    BY <1>5 DEF Files!ProvisionBegin, Files!At, Files!Provisioning, Moving
  <2>2. "dir" \in OpenerPC /\ "dir" \in Moving
    BY OpenerPCs DEF Moving
  <2> QED BY <1>3, <2>1, <2>2
<1>6. CASE Files!ProvisionDir(p)
  <2>1. opener[p].pc = "dir" /\ opener[p].pc \in Moving /\ UNCHANGED ledgerFile
    BY <1>6 DEF Files!ProvisionDir, Files!At, Moving
  <2>2. file.rev = 0 /\ provisions < MaxAuthorities
    BY <1>1, <2>1 DEF OpenerKnows
  <2>3. CASE dir = "absent" /\ dir' = "raw" /\ Files!Goto(p, "dirmode")
    <3>1. dir' \in Files!Phase
      BY <2>3 DEF Files!Phase
    <3> QED BY <1>1, <1>4, <2>1, <2>3, <3>1
  <2>4. CASE dir = "proper" /\ Files!Goto(p, "ledger") /\ UNCHANGED dir
    <3>1. "ledger" \in OpenerPC /\ "ledger" \in Moving
      BY OpenerPCs DEF Moving
    <3> QED BY <1>3, <2>1, <2>2, <2>4, <3>1
  <2>5. CASE Files!Goto(p, "open") /\ UNCHANGED dir
    <3>1. "open" \in OpenerPC /\ "open" \notin Moving
      BY OpenerPCs DEF Moving
    <3> QED BY <1>3, <2>1, <2>5, <3>1
  <2> QED BY <1>6, <2>3, <2>4, <2>5 DEF Files!ProvisionDir, Files!Accepts
<1>7. CASE Files!ProvisionDirMode(p)
  <2>1. /\ opener[p].pc = "dirmode" /\ opener[p].pc \in Moving /\ UNCHANGED ledgerFile
        /\ dir' = Files!Fixed(dir) /\ Files!Goto(p, "ledger")
    BY <1>7 DEF Files!ProvisionDirMode, Files!At, Moving
  <2>2. dir' = "proper" /\ dir' \in Files!Phase
    BY <1>1, <2>1 DEF OpenerKnows, Files!Fixed, Files!Phase
  <2> QED BY <1>1, <1>4, <2>1, <2>2
<1>8. CASE Files!ProvisionLedger(p)
  <2>1. opener[p].pc = "ledger" /\ opener[p].pc \in Moving /\ UNCHANGED dir
    BY <1>8 DEF Files!ProvisionLedger, Files!At, Moving
  <2>2. file.rev = 0 /\ provisions < MaxAuthorities /\ dir = "proper"
    BY <1>1, <2>1 DEF OpenerKnows
  <2>3. CASE /\ ledgerFile.phase = "absent" /\ ledgerFile' = [ledgerFile EXCEPT !.phase = "raw"]
             /\ Files!Goto(p, "ledgermode")
    <3>1. /\ ledgerFile' \in [phase: Files!Phase, ids: SUBSET (1..provisions)]
          /\ ledgerFile'.ids = ledgerFile.ids /\ ledgerFile'.phase = "raw"
      BY <1>1, <2>3 DEF Files!Phase
    <3> QED BY <1>1, <1>4, <2>1, <2>2, <2>3, <3>1
  <2>4. CASE ledgerFile.phase = "proper" /\ Files!Goto(p, "commit") /\ UNCHANGED ledgerFile
    <3>1. "commit" \in OpenerPC /\ "commit" \in Moving
      BY OpenerPCs DEF Moving
    <3> QED BY <1>3, <2>1, <2>2, <2>4, <3>1
  <2>5. CASE Files!Goto(p, "open") /\ UNCHANGED ledgerFile
    <3>1. "open" \in OpenerPC /\ "open" \notin Moving
      BY OpenerPCs DEF Moving
    <3> QED BY <1>3, <2>1, <2>5, <3>1
  <2> QED BY <1>8, <2>3, <2>4, <2>5 DEF Files!ProvisionLedger, Files!Accepts
<1>9. CASE Files!ProvisionLedgerMode(p)
  <2>1. /\ opener[p].pc = "ledgermode" /\ opener[p].pc \in Moving /\ UNCHANGED dir
        /\ ledgerFile' = [ledgerFile EXCEPT !.phase = Files!Fixed(ledgerFile.phase)]
        /\ Files!Goto(p, "commit")
    BY <1>9 DEF Files!ProvisionLedgerMode, Files!At, Moving
  <2>2. dir = "proper" /\ ledgerFile.phase # "absent"
    BY <1>1, <2>1 DEF OpenerKnows
  <2>3. /\ ledgerFile' \in [phase: Files!Phase, ids: SUBSET (1..provisions)]
        /\ ledgerFile'.ids = ledgerFile.ids /\ ledgerFile'.phase = "proper"
    BY <1>1, <2>1, <2>2 DEF Files!Phase, Files!Fixed
  <2> QED BY <1>1, <1>4, <2>1, <2>2, <2>3
<1> QED BY <1>5, <1>6, <1>7, <1>8, <1>9

LEMMA FilesCommit ==
  ASSUME Files!SQLiteFilesConstants, FilesPurgedAlone, FilesInv, NEW p \in use.procs, p \in Procs,
         Files!ProvisionCommit(p)
  PROVE  FilesInv' /\ FilesStop
<1>1. /\ FilesType /\ opener \in [Procs -> Opener] /\ RowsOwned /\ OpenerKnows(p)
      /\ file \in [phase: Files!Phase, id: 0..provisions, rev: 0..MaxRevision]
      /\ ledgerFile \in [phase: Files!Phase, ids: SUBSET (1..provisions)]
      /\ provisions \in 0..MaxAuthorities /\ MaxAuthorities \in Nat /\ MaxRevision \in Nat \ {0}
  BY FilesTypeIs, FileStoreConstants DEF FilesInv, FilesType, Files!SQLiteFilesConstants
<1>2. /\ opener[p].pc = "commit" /\ opener[p].pc \in Moving /\ Files!Goto(p, "open")
      /\ provisions' = provisions + 1 /\ file' = [file EXCEPT !.id = provisions', !.rev = 1]
      /\ UNCHANGED <<dir, ledgerFile, faults, use>>
  BY DEF Files!ProvisionCommit, Files!At, Moving
<1>3. /\ file.phase = "proper" /\ file.rev = 0 /\ provisions < MaxAuthorities
      /\ dir = "proper" /\ ledgerFile.phase = "proper"
  BY <1>1, <1>2 DEF OpenerKnows
<1>4. provisions' \in 0..MaxAuthorities /\ provisions' # 0 /\ 1..provisions \subseteq 1..provisions'
  BY <1>1, <1>2, <1>3
<1>5. /\ file' \in [phase: Files!Phase, id: 0..provisions', rev: 0..MaxRevision]
      /\ file'.phase = "proper" /\ file'.id = provisions' /\ file'.rev = 1
  <2>1. provisions' \in 0..provisions' /\ 1 \in 0..MaxRevision
    BY <1>1, <1>4
  <2> QED BY <1>1, <1>2, <1>3, <2>1
<1>6. PICK r \in Opener : /\ opener' = [opener EXCEPT ![p] = r] /\ opener'[p] = r /\ r.pc = "open"
  BY <1>2, GotoIs, OpenerPCs
<1>7. FilesType'
  BY <1>1, <1>2, <1>4, <1>5 DEF FilesType
<1>8. OpenerKnows(p)'
  BY <1>2, <1>5, <1>6 DEF OpenerKnows, Moving, Purging
<1>9. Settled'
  BY <1>2, <1>3, <1>4, <1>5 DEF Settled, Files!LedgerOpens, Files!Accepts
<1>10. RowsOwned'
  <2> SUFFICES ASSUME faults = 0 \/ ~use.purges
               PROVE  Files!Belong'
    BY <1>2, <1>5 DEF RowsOwned
  <2>1. ledgerFile.ids = {} \/ \E q \in Procs : opener[q].pc = "purgeledger"
    BY <1>3 DEF FilesInv, RowsOwned
  <2>2. ASSUME NEW q \in Procs, opener[q].pc = "purgeledger"
        PROVE  FALSE
    <3>1. OpenerKnows(q) /\ q # p
      BY <1>2, <2>2 DEF FilesInv
    <3>2. use.purges /\ q \in use.procs
      BY <2>2, <3>1 DEF OpenerKnows, Purging
    <3> QED BY <3>1, <3>2, FilesShared
  <2> QED BY <1>2, <2>1, <2>2 DEF Files!Belong
<1>11. FilesGrow
  BY <1>2, <1>3, <1>5 DEF FilesGrow
<1>12. FilesInv'
  BY <1>2, <1>6, <1>7, <1>8, <1>9, <1>10, <1>11, FilesAssemble DEF Moving
<1> QED BY <1>3, <1>12 DEF FilesStop

LEMMA FilesUpdate ==
  ASSUME Files!SQLiteFilesConstants, FilesPurgedAlone, FilesInv, NEW p \in use.procs, p \in Procs,
         Files!Update(p)
  PROVE  FilesInv' /\ FilesStop
<1>1. /\ FilesType /\ opener \in [Procs -> Opener] /\ Settled /\ RowsOwned /\ OpenerKnows(p)
      /\ file \in [phase: Files!Phase, id: 0..provisions, rev: 0..MaxRevision]
      /\ MaxRevision \in Nat
  BY FilesTypeIs DEF FilesInv, FilesType, Files!SQLiteFilesConstants
<1>2. /\ opener[p].pc = "open" /\ file.rev \in 1..(MaxRevision - 1)
      /\ Files!LedgerOpens /\ Files!Belong
      /\ file' = [file EXCEPT !.rev = file.rev + 1]
      /\ UNCHANGED <<dir, ledgerFile, provisions, opener, faults, use>>
  BY DEF Files!Update, Files!At
<1>3. /\ file' \in [phase: Files!Phase, id: 0..provisions, rev: 0..MaxRevision]
      /\ file'.phase = file.phase /\ file'.id = file.id /\ file'.rev = file.rev + 1
      /\ file'.rev > 0 /\ file.rev > 0
  <2>1. file.rev + 1 \in 0..MaxRevision /\ file.rev + 1 > 0 /\ file.rev > 0
    BY <1>1, <1>2
  <2> QED BY <1>1, <1>2, <2>1
<1>4. opener[p] \in Opener /\ opener' = [opener EXCEPT ![p] = opener[p]]
  BY <1>1, <1>2
<1>5. file.phase = "proper"
  BY <1>1, <1>2 DEF OpenerKnows
<1>6. FilesType'
  BY <1>1, <1>2, <1>3, <1>5 DEF FilesType
<1>7. OpenerKnows(p)'
  BY <1>1, <1>2, <1>3 DEF OpenerKnows, Moving, Purging
<1>8. Settled'
  BY <1>1, <1>2, <1>3 DEF Settled, Files!LedgerOpens, Files!Accepts
<1>9. Files!Belong'
  BY <1>2, <1>3 DEF Files!Belong
<1>10. RowsOwned'
  BY <1>3, <1>9 DEF RowsOwned
<1>11. FilesGrow
  BY <1>2, <1>3 DEF FilesGrow
<1>12. file.rev # 0
  BY <1>2
<1>13. FilesInv'
  BY <1>2, <1>4, <1>6, <1>7, <1>8, <1>10, <1>11, <1>12, FilesAssemble DEF Moving
<1> QED BY <1>2, <1>13 DEF FilesStop

LEMMA FilesSign ==
  ASSUME Files!SQLiteFilesConstants, FilesPurgedAlone, FilesInv, NEW p \in use.procs, p \in Procs,
         Files!SignLoad(p) \/ Files!SignAppend(p)
  PROVE  FilesInv' /\ FilesStop
<1>1. /\ FilesType /\ opener \in [Procs -> Opener] /\ Settled /\ RowsOwned /\ OpenerKnows(p)
      /\ file \in [phase: Files!Phase, id: 0..provisions, rev: 0..MaxRevision]
      /\ ledgerFile \in [phase: Files!Phase, ids: SUBSET (1..provisions)]
      /\ faults \in 0..MaxFaults /\ MaxRevision \in Nat
  BY FilesTypeIs DEF FilesInv, FilesType, Files!SQLiteFilesConstants
<1>2. UNCHANGED <<file, dir, provisions, faults, use>>
  BY DEF Files!SignLoad, Files!SignAppend
<1>3. CASE Files!SignLoad(p)
  <2> DEFINE r == [pc |-> "signing", rev |-> file.rev]
  <2>1. /\ opener[p].pc = "open" /\ file.rev > 0 /\ Files!Belong /\ UNCHANGED ledgerFile
        /\ opener' = [opener EXCEPT ![p] = r]
    BY <1>3 DEF Files!SignLoad, Files!At
  <2>2. r \in Opener /\ r.pc = "signing" /\ r.rev = file.rev
    BY <1>1, OpenerPCs DEF Opener
  <2> HIDE DEF r
  <2>3. opener'[p] = r /\ file.phase = "proper"
    BY <1>1, <2>1 DEF OpenerKnows
  <2>4. OpenerKnows(p)'
    BY <1>2, <2>1, <2>2, <2>3 DEF OpenerKnows, Moving, Purging, Files!Belong
  <2> QED BY <1>1, <1>2, <2>1, <2>2, <2>4, FilesMove DEF Moving
<1>4. CASE Files!SignAppend(p)
  <2> DEFINE r == [pc |-> "open", rev |-> 0]
  <2>1. /\ opener[p].pc = "signing" /\ opener' = [opener EXCEPT ![p] = r]
        /\ \/ ledgerFile' = [ledgerFile EXCEPT !.ids = ledgerFile.ids \cup {file.id}]
           \/ UNCHANGED ledgerFile
    BY <1>4 DEF Files!SignAppend, Files!At
  <2>2. r \in Opener /\ r.pc = "open"
    BY <1>1, OpenerPCs DEF Opener
  <2> HIDE DEF r
  <2>3. /\ opener'[p] = r /\ file.phase = "proper" /\ file.rev > 0 /\ Files!Belong
        /\ file.id # 0
    BY <1>1, <2>1 DEF OpenerKnows, Settled
  <2>4. OpenerKnows(p)'
    BY <1>2, <2>2, <2>3 DEF OpenerKnows, Moving, Purging
  <2>5. CASE UNCHANGED ledgerFile
    BY <1>1, <1>2, <2>1, <2>2, <2>4, <2>5, FilesMove DEF Moving
  <2>6. CASE ledgerFile' = [ledgerFile EXCEPT !.ids = ledgerFile.ids \cup {file.id}]
    <3>1. file.id \in 1..provisions
      BY <1>1, <2>3 DEF FilesType
    <3>2. /\ ledgerFile' \in [phase: Files!Phase, ids: SUBSET (1..provisions)]
          /\ ledgerFile'.phase = ledgerFile.phase /\ ledgerFile'.ids = ledgerFile.ids \cup {file.id}
      BY <1>1, <2>6, <3>1
    <3>3. FilesType'
      BY <1>1, <1>2, <3>2 DEF FilesType
    <3>4. Settled'
      BY <1>1, <1>2, <3>2 DEF Settled, Files!LedgerOpens, Files!Accepts
    <3>5. Files!Belong'
      BY <1>2, <2>3, <3>2 DEF Files!Belong
    <3>6. RowsOwned'
      BY <1>2, <2>3, <3>5 DEF RowsOwned
    <3>7. FilesGrow
      BY <1>2, <3>2 DEF FilesGrow
    <3>8. FilesInv'
      BY <1>2, <2>1, <2>2, <2>4, <3>3, <3>4, <3>6, <3>7, FilesAssemble DEF Moving
    <3> QED BY <2>3, <3>8 DEF FilesStop
  <2> QED BY <2>1, <2>5, <2>6
<1> QED BY <1>3, <1>4

\* A purge: no other process has the store open.
LEMMA FilesPurge ==
  ASSUME Files!SQLiteFilesConstants, FilesPurgedAlone, FilesInv, NEW p \in use.procs, p \in Procs,
         Files!PurgeFile(p) \/ Files!PurgeLedger(p) \/ Files!PurgeDir(p)
  PROVE  FilesInv' /\ FilesStop
<1>1. /\ FilesType /\ opener \in [Procs -> Opener] /\ Settled /\ RowsOwned /\ OpenerKnows(p)
      /\ MaxRevision \in Nat
  BY FilesTypeIs DEF FilesInv, FilesType, Files!SQLiteFilesConstants
<1>2. UNCHANGED <<provisions, faults, use>>
  BY DEF Files!PurgeFile, Files!PurgeLedger, Files!PurgeDir
<1>3. /\ Files!NoFile \in [phase: Files!Phase, id: 0..provisions, rev: 0..MaxRevision]
      /\ Files!NoFile.rev = 0 /\ Files!NoFile.phase = "absent"
      /\ Files!NoLedger \in [phase: Files!Phase, ids: SUBSET (1..provisions)]
      /\ Files!NoLedger.ids = {} /\ "absent" \in Files!Phase
  <2>1. 0 \in 0..provisions /\ 0 \in 0..MaxRevision
    BY <1>1 DEF FilesType, Files!SQLiteFilesConstants
  <2> QED BY <2>1 DEF Files!NoFile, Files!NoLedger, Files!Phase
<1>4. ASSUME NEW r \in Opener, opener' = [opener EXCEPT ![p] = r], use.purges,
             FilesType', file'.rev = 0,
             \/ r.pc = "purgeledger"
             \/ r.pc \in {"purgedir", "closed"} /\ ledgerFile'.ids = {}
      PROVE  FilesInv'
  <2>1. opener'[p] = r
    BY <1>1, <1>4
  <2>2. OpenerKnows(p)'
    BY <1>2, <1>4, <2>1 DEF OpenerKnows, Moving, Purging
  <2>3. Settled' /\ RowsOwned'
    BY <1>4, <2>1 DEF Settled, RowsOwned
  <2>4. r.pc \notin Moving
    BY <1>4 DEF Moving
  <2> QED BY <1>2, <1>4, <2>2, <2>3, <2>4, FilesAssemble
<1>5. CASE Files!PurgeFile(p)
  <2>1. /\ use.purges /\ file' = Files!NoFile /\ Files!Goto(p, "purgeledger")
        /\ UNCHANGED <<dir, ledgerFile>>
    BY <1>5 DEF Files!PurgeFile
  <2>2. PICK r \in Opener : opener' = [opener EXCEPT ![p] = r] /\ r.pc = "purgeledger"
    BY <2>1, GotoIs, OpenerPCs
  <2>3. FilesType'
    BY <1>1, <1>2, <1>3, <2>1 DEF FilesType
  <2>4. FilesInv'
    BY <1>3, <1>4, <2>1, <2>2, <2>3
  <2> QED BY <2>1, <2>4 DEF FilesStop
<1>6. CASE Files!PurgeLedger(p)
  <2>1. /\ opener[p].pc = "purgeledger" /\ ledgerFile' = Files!NoLedger /\ Files!Goto(p, "purgedir")
        /\ UNCHANGED <<dir, file>>
    BY <1>6 DEF Files!PurgeLedger, Files!At
  <2>2. PICK r \in Opener : opener' = [opener EXCEPT ![p] = r] /\ r.pc = "purgedir"
    BY <2>1, GotoIs, OpenerPCs
  <2>3. use.purges /\ file.rev = 0
    BY <1>1, <2>1 DEF OpenerKnows, Purging
  <2>4. FilesType'
    BY <1>1, <1>2, <1>3, <2>1 DEF FilesType
  <2>5. FilesInv'
    BY <1>3, <1>4, <2>1, <2>2, <2>3, <2>4
  <2> QED BY <2>3, <2>5 DEF FilesStop
<1>7. CASE Files!PurgeDir(p)
  <2>1. /\ opener[p].pc = "purgedir" /\ dir' = "absent" /\ opener' = [opener EXCEPT ![p] = Files!Closed]
        /\ UNCHANGED <<file, ledgerFile>>
    BY <1>7 DEF Files!PurgeDir, Files!At
  <2>2. Files!Closed \in Opener /\ Files!Closed.pc = "closed"
    BY <1>1, OpenerPCs DEF Files!Closed, Opener
  <2>3. use.purges /\ file.rev = 0
    BY <1>1, <2>1 DEF OpenerKnows, Purging
  <2>4. FilesType'
    BY <1>1, <1>2, <1>3, <2>1 DEF FilesType
  <2>5. opener'[p] = Files!Closed
    BY <1>1, <2>1
  <2>6. OpenerKnows(p)'
    BY <1>2, <2>2, <2>5 DEF OpenerKnows, Moving, Purging
  <2>7. Settled'
    BY <2>1, <2>3 DEF Settled
  <2>8. RowsOwned'
    <3>1. \A q \in Procs : opener[q].pc = "purgeledger" => opener'[q].pc = "purgeledger"
      BY <1>1, <2>1
    <3> QED BY <1>1, <1>2, <2>1, <2>3, <3>1 DEF RowsOwned
  <2>9. FilesInv'
    BY <1>2, <2>1, <2>2, <2>3, <2>4, <2>6, <2>7, <2>8, FilesAssemble DEF Moving
  <2> QED BY <2>3, <2>9 DEF FilesStop
<1> QED BY <1>5, <1>6, <1>7

LEMMA FilesFault ==
  ASSUME Files!SQLiteFilesConstants, FilesPurgedAlone, FilesInv, NEW p \in use.procs, p \in Procs,
         Files!Fault(p)
  PROVE  FilesInv' /\ FilesStop
<1>1. /\ FilesType /\ opener \in [Procs -> Opener] /\ OpenerKnows(p) /\ MaxRevision \in Nat
      /\ faults \in 0..MaxFaults /\ MaxFaults \in Nat
  BY FilesTypeIs DEF FilesInv, FilesType, Files!SQLiteFilesConstants
<1>2. /\ faults < MaxFaults /\ faults' = faults + 1 /\ UNCHANGED <<file, dir, ledgerFile, provisions, use>>
  BY DEF Files!Fault
<1>3. faults' \in 0..MaxFaults /\ faults' # 0
  BY <1>1, <1>2
<1> DEFINE r == [pc |-> "open", rev |-> 0]
<1>4. /\ Files!Closed \in Opener /\ Files!Closed.pc = "closed" /\ r \in Opener /\ r.pc = "open"
  BY <1>1, OpenerPCs DEF Files!Closed, Opener
<1>5. \/ opener' = [opener EXCEPT ![p] = Files!Closed]
      \/ /\ opener[p].pc \in Moving \cup {"signing"}
         /\ opener' = [opener EXCEPT ![p] = r]
  BY DEF Files!Fault, Files!Provisioning, Files!At, Moving
<1> HIDE DEF r
<1>6. CASE opener' = [opener EXCEPT ![p] = Files!Closed]
  <2>1. opener'[p] = Files!Closed
    BY <1>1, <1>6
  <2>2. OpenerKnows(p)'
    BY <1>2, <1>4, <2>1 DEF OpenerKnows, Moving, Purging
  <2> QED BY <1>2, <1>3, <1>4, <1>6, <2>2, FilesMove DEF Moving
<1>7. CASE /\ opener[p].pc \in Moving \cup {"signing"}
           /\ opener' = [opener EXCEPT ![p] = r]
  <2>1. opener'[p] = r /\ file.phase = "proper"
    BY <1>1, <1>7 DEF OpenerKnows
  <2>2. OpenerKnows(p)'
    BY <1>2, <1>4, <2>1 DEF OpenerKnows, Moving, Purging
  <2> QED BY <1>2, <1>3, <1>4, <1>7, <2>2, FilesMove DEF Moving
<1> QED BY <1>5, <1>6, <1>7

LEMMA FilesNext ==
  ASSUME Files!SQLiteFilesConstants, FilesPurgedAlone, FilesInv, [Files!Next]_filesVars
  PROVE  FilesInv' /\ (FilesStop \/ UNCHANGED filesVars)
<1>1. ASSUME NEW p \in use.procs, Files!Step(p)
      PROVE  FilesInv' /\ FilesStop
  <2>1. p \in Procs
    BY FilesTypeIs DEF FilesInv, Files!SQLiteFilesConstants, Files!Deployment
  <2> QED BY <1>1, <2>1, FilesOpen, FilesProvision, FilesCommit, FilesUpdate, FilesSign, FilesPurge,
             FilesFault DEF Files!Step, Files!Provide
<1>2. CASE UNCHANGED filesVars
  <2>1. UNCHANGED <<file, dir, ledgerFile, provisions, opener, faults, use>>
    BY <1>2 DEF filesVars
  <2>2. Files!TypeOK'
    BY <2>1 DEF FilesInv, Files!TypeOK
  <2>3. \A p \in Procs : OpenerKnows(p)' <=> OpenerKnows(p)
    BY <2>1 DEF OpenerKnows, Files!Belong
  <2>4. OneProvides' /\ Settled' /\ RowsOwned'
    BY <2>1 DEF FilesInv, OneProvides, Settled, RowsOwned, Files!Belong, Files!LedgerOpens, Files!Accepts
  <2> QED BY <1>2, <2>2, <2>3, <2>4 DEF FilesInv
<1> QED BY <1>1, <1>2 DEF Files!Next

LEMMA FilesInit ==
  ASSUME Files!SQLiteFilesConstants, Files!Init
  PROVE  FilesInv
<1>1. /\ file = Files!NoFile /\ dir = "absent" /\ ledgerFile = Files!NoLedger
      /\ provisions = 0 /\ faults = 0 /\ opener = [p \in Procs |-> Files!Closed]
      /\ use \in FilesDeployments
  BY DEF Files!Init
<1>2. Files!Closed \in Opener /\ Files!Closed.pc = "closed"
  BY OpenerPCs DEF Files!Closed, Opener, Files!SQLiteFilesConstants
<1>3. FilesType /\ file.rev = 0 /\ ledgerFile.ids = {}
  BY <1>1 DEF FilesType, Files!NoFile, Files!NoLedger, Files!Phase, Files!SQLiteFilesConstants
<1>4. Files!TypeOK
  BY <1>1, <1>2, <1>3, FilesTypeIs
<1>5. ASSUME NEW p \in Procs
      PROVE  opener[p].pc = "closed" /\ OpenerKnows(p)
  <2>1. opener[p].pc = "closed"
    BY <1>1, <1>2
  <2> QED BY <2>1 DEF OpenerKnows, Moving, Purging
<1>6. OneProvides /\ Settled /\ RowsOwned
  BY <1>3, <1>5 DEF OneProvides, Settled, RowsOwned, Moving
<1> QED BY <1>4, <1>5, <1>6 DEF FilesInv

\* What the invariant of the files says of an authority that is there.
LEMMA FilesConclusions ==
  ASSUME FilesInv
  PROVE  Files!TypeOK /\ Files!Usable /\ Files!LedgerBelongs
  BY DEF FilesInv, Settled, RowsOwned, Files!Usable, Files!LedgerBelongs

\* The files and the processes that use them always have their types: a file
\* that is absent is empty, and no authority or fault is beyond its bound.
THEOREM FilesTypes ==
  ASSUME FilesPurgedAlone
  PROVE  Files!Spec => []Files!TypeOK
<1> USE StoresConstants
<1>1. FilesInv /\ [Files!Next]_filesVars => FilesInv'
  BY FilesNext
<1> QED BY <1>1, FilesInit, FilesConclusions, PTL DEF Files!Spec, Files!vars, filesVars

\* Wherever a process died, an authority that SQLite has committed can be
\* opened with its ledger, which holds its own rows only unless a purge was
\* interrupted (sqlite_store.go, provision and openLedger).
THEOREM FilesUsable ==
  ASSUME FilesPurgedAlone
  PROVE  Files!Spec => [](Files!Usable /\ Files!LedgerBelongs)
<1> USE StoresConstants
<1>1. FilesInv /\ [Files!Next]_filesVars => FilesInv'
  BY FilesNext
<1> QED BY <1>1, FilesInit, FilesConclusions, PTL DEF Files!Spec, Files!vars, filesVars

\* An authority that inherited the rows of another one is neither changed nor
\* signed for: the parity check stops both.
THEOREM FilesForeignStops ==
  ASSUME FilesPurgedAlone
  PROVE  Files!Spec => Files!ForeignLedgerStops
<1> USE StoresConstants
<1>1. FilesInv /\ [Files!Next]_filesVars => FilesInv'
  BY FilesNext
<1>2. FilesInv /\ [Files!Next]_filesVars =>
        [file.rev > 0 /\ ~Files!Belong =>
           ledgerFile' \in {ledgerFile, Files!NoLedger} /\ file' \in {file, Files!NoFile}]_filesVars
  BY FilesNext DEF FilesStop
<1> QED BY <1>1, <1>2, FilesInit, PTL DEF Files!Spec, Files!vars, filesVars, Files!ForeignLedgerStops

-----------------------------------------------------------------------------
\* Both stores

storesVars == <<view, vars, sqliteVars, filesVars>>

StoresInv == Inv /\ SQLiteInv /\ FilesInv

LEMMA StoresMove ==
  ASSUME [MCNext]_storesVars
  PROVE  [Next]_vars /\ [SQLite!Next]_SQLite!vars /\ [Files!Next]_filesVars
  BY DEF MCNext, storesVars, sqliteVars, SQLite!vars

LEMMA StoresInit ==
  ASSUME SQLite!SQLiteConstants, Files!SQLiteFilesConstants, MCInit
  PROVE  StoresInv
  BY InitInv, SQLiteInitInv, FilesInit DEF MCInit, StoresInv

LEMMA StoresNext ==
  ASSUME PurgesAlone, SQLite!SQLiteConstants, Files!SQLiteFilesConstants, FilesPurgedAlone,
         StoresInv, [MCNext]_storesVars
  PROVE  StoresInv'
  BY StoresMove, NextInv, SQLiteNextInv, FilesNext DEF StoresInv

\* Everything the three views of the stores keep has its type, for every number
\* of processes and every bound, as long as purges run alone.
THEOREM StoresTypes ==
  ASSUME PurgesAlone, FilesPurgedAlone
  PROVE  MCSpec => []TypesOK
<1> USE StoresConstants
<1>1. MCInit => StoresInv
  BY StoresInit
<1>2. StoresInv /\ [MCNext]_storesVars => StoresInv'
  BY StoresNext
<1>3. StoresInv => TypesOK
  BY FilesConclusions DEF StoresInv, TypesOK, Inv, SQLiteInv
<1> QED BY <1>1, <1>2, <1>3, PTL DEF MCSpec, storesVars

\* In both stores a ledger is read in whole lines and holds the records of its
\* own authority, and a committed authority can be opened with its ledger, for
\* every number of processes, crash and failed write (file_store.go,
\* sqlite_store.go).
THEOREM StoresLedgers ==
  ASSUME PurgesAlone, FilesPurgedAlone
  PROVE  MCSpec => []LedgersSound
<1> USE StoresConstants
<1>1. MCInit => StoresInv
  BY StoresInit
<1>2. StoresInv /\ [MCNext]_storesVars => StoresInv'
  BY StoresNext
<1>3. StoresInv => LedgersSound
  BY WholeLedger, FilesConclusions DEF StoresInv, LedgersSound
<1> QED BY <1>1, <1>2, <1>3, PTL DEF MCSpec, storesVars

\* Damage stops both stores: behind a torn line of ledger.jsonl nothing is
\* written, and over rows of another authority nothing is changed.
THEOREM StoresStop ==
  ASSUME PurgesAlone, FilesPurgedAlone
  PROVE  MCSpec => DamageStops
<1> USE StoresConstants
<1>1. MCInit => StoresInv
  BY StoresInit
<1>2. StoresInv /\ [MCNext]_storesVars => StoresInv'
  BY StoresNext
<1>3. StoresInv /\ [MCNext]_storesVars => [Torn => UNCHANGED <<state, ledger>> /\ ~Writing']_vars
  BY StoresMove, TornStep DEF StoresInv, Next
<1>4. StoresInv /\ [MCNext]_storesVars =>
        [file.rev > 0 /\ ~Files!Belong =>
           ledgerFile' \in {ledgerFile, Files!NoLedger} /\ file' \in {file, Files!NoFile}]_filesVars
  BY StoresMove, FilesNext DEF StoresInv, FilesStop
<1> QED BY <1>1, <1>2, <1>3, <1>4, PTL
        DEF MCSpec, storesVars, DamageStops, NothingAfterTorn, Files!ForeignLedgerStops, Files!vars,
            filesVars

\* The transactions of SQLite stay serial beside everything else.
THEOREM StoresSerial ==
  ASSUME PurgesAlone, FilesPurgedAlone
  PROVE  MCSpec => SQLiteSerial
<1> USE StoresConstants
<1>1. MCInit => StoresInv
  BY StoresInit
<1>2. StoresInv /\ [MCNext]_storesVars => StoresInv'
  BY StoresNext
<1>3. StoresInv /\ [MCNext]_storesVars =>
        /\ [\E p \in Procs : conn[p].pc = "written" /\ conn[p].snap = doc]_doc
        /\ [\A r \in rows' \ rows : r.rev = doc.rev]_rows
        /\ [\A r \in rows \ doc'.seen : r.rev = doc.rev]_doc
  BY StoresMove, SQLiteActs DEF StoresInv, SQLiteOrderly
<1> QED BY <1>1, <1>2, <1>3, PTL
        DEF MCSpec, storesVars, SQLiteSerial, SQLite!SQLiteSerial, SQLite!NoLostUpdate,
            SQLite!AppendsCurrent, SQLite!MissesOnlyCurrent

\* The FileStore in this composition implements AtomicStore.
THEOREM StoresAtomic ==
  ASSUME PurgesAlone, FilesPurgedAlone
  PROVE  MCSpec => AtomicSpec
<1> USE StoresConstants
<1>1. MCInit => StoresInv /\ Atomic!Init
  BY StoresInit, AtomicInit DEF MCInit
<1>2. StoresInv /\ [MCNext]_storesVars => StoresInv'
  BY StoresNext
<1>3. StoresInv /\ [MCNext]_storesVars => [Atomic!Next]_<<state, Records>>
  BY StoresMove, AtomicActs DEF StoresInv
<1> QED BY <1>1, <1>2, <1>3, PTL DEF MCSpec, storesVars, AtomicSpec, Atomic!Spec, Records
=============================================================================
