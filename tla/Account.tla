------------------------------ MODULE Account -------------------------------
(***************************************************************************)
(* The account package on Linux (operation.go, backend.go,                 *)
(* backend_linux_impl.go): Ensure looks an account up, creates or          *)
(* reconciles its group, the account and its home with groupadd, groupmod, *)
(* useradd and usermod (external), and looks again.  Callers retry after   *)
(* an error; commands and file operations fail up to MaxFaults times, and  *)
(* an administrator changes things up to MaxDrifts times between calls.    *)
(*                                                                         *)
(* The specification names a primary group with a GID, other attributes    *)
(* (UID, shell, supplementary groups, which useradd and usermod set        *)
(* together) and, unless its HomePolicy is LeaveHomeUnchanged, a home.  An     *)
(* account is described by which of these agree with the specification.    *)
(***************************************************************************)
EXTENDS Integers

CONSTANTS
    Callers,     \* processes that call Ensure with the same specification
    MaxFaults,   \* bound: failing commands and file operations
    MaxDrifts    \* bound: changes by the administrator

AccountConstants == MaxFaults \in Nat /\ MaxDrifts \in Nat

\* Spec.Existing and Spec.HomePolicy.
Policies == [existing: {"Verify", "Reconcile"},
             home: {"LeaveHomeUnchanged", "RequireHome", "EnsureHome"}]

VARIABLES
    policy,   \* the policies of the specification
    account,  \* the passwd record: does it exist, and what agrees
    group,    \* the primary group: does it exist, and does its GID agree
    home,     \* "absent", "made" (wrong owner or mode) or "owned"
    faults,   \* failures so far
    drifts,   \* changes by the administrator so far
    call      \* the callers

vars == <<policy, account, group, home, faults, drifts, call>>
machine == <<policy, account, group, home>>

Fields == {"group", "gid", "attrs", "home"}
Changes == Fields \cup {"account", "group record", "home directory"}

Init ==
    /\ policy \in Policies
    /\ account = [exists |-> FALSE, agree |-> {}]
    /\ group \in {[exists |-> FALSE, gid |-> FALSE], [exists |-> TRUE, gid |-> FALSE],
                  [exists |-> TRUE, gid |-> TRUE]}
    /\ home \in {"absent", "made"}
    /\ faults = 0 /\ drifts = 0
    /\ call = [c \in Callers |-> [pc |-> "idle", present |-> FALSE, before |-> {},
                                  changed |-> {}, ok |-> FALSE, made |-> FALSE]]

-----------------------------------------------------------------------------
\* Comparing

\* compare: the account's GID is that of its primary group.
SpecFields == IF policy.home = "LeaveHomeUnchanged" THEN Fields \ {"home"} ELSE Fields
Agreeing == account.agree \cup (IF "group" \in account.agree /\ group.gid THEN {"gid"} ELSE {})
compare == SpecFields \ Agreeing

\* What Ensure finds: the home directory counts unless it is to be left alone.
HomeMissing == policy.home # "LeaveHomeUnchanged" /\ home = "absent"
found == compare \cup (IF HomeMissing THEN {"home directory"} ELSE {})

creationChanges == SpecFields \cup {"account"}

-----------------------------------------------------------------------------
\* Ensure

Return(c, ok, changed) ==
    call' = [call EXCEPT ![c] = [pc |-> "idle", present |-> FALSE, before |-> {},
                                 changed |-> changed, ok |-> ok, made |-> FALSE]]

\* A command or file operation of caller c fails; its step may be done or not.
Fails(c) ==
    /\ faults < MaxFaults
    /\ faults' = faults + 1
    /\ Return(c, FALSE, call[c].changed)

\* Mutant: an existing account is reconciled under either policy.
StopsAtDriftNever == policy.home = "RequireHome"

\* An existing account is left alone under Verify, and when the home is required.
StopsAtDrift == policy.existing = "Verify" \/ policy.home = "RequireHome"

\* Mutant: an account that agrees is enough, its home is not looked for.
LookupIgnoresHome(c) ==
    /\ call[c].pc = "idle" /\ ~call[c].ok
    /\ IF account.exists /\ compare = {} THEN Return(c, TRUE, {})
       ELSE call' = [call EXCEPT ![c] = [@ EXCEPT !.pc = "group", !.present = account.exists,
                                         !.before = compare, !.changed = {}]]
    /\ UNCHANGED machine /\ UNCHANGED <<faults, drifts>>

\* lookup and, for an account that exists, what there is to change.  Every
\* error of os/user is taken to say that there is no account; when the home
\* cannot be inspected the differences are returned with the error.
Lookup(c) ==
    /\ call[c].pc = "idle" /\ ~call[c].ok
    /\ \/ /\ \/ ~account.exists /\ UNCHANGED faults
             \/ account.exists /\ faults < MaxFaults /\ faults' = faults + 1
          /\ call' = [call EXCEPT ![c] = [@ EXCEPT !.pc = "group", !.present = FALSE, !.changed = {}]]
       \/ /\ account.exists /\ found = {}
          /\ Return(c, TRUE, {})
          /\ UNCHANGED faults
       \/ /\ account.exists /\ found # {}
          /\ StopsAtDrift
          /\ Return(c, FALSE, found)
          /\ UNCHANGED faults
       \/ /\ account.exists /\ found # {}
          /\ ~StopsAtDrift
          /\ call' = [call EXCEPT ![c] = [@ EXCEPT !.pc = "group", !.present = TRUE,
                                          !.before = compare, !.changed = {}]]
          /\ UNCHANGED faults
       \/ /\ faults < MaxFaults
          /\ faults' = faults + 1
          /\ \E differ \in {{}, compare} : Return(c, FALSE, IF account.exists THEN differ ELSE {})
    /\ UNCHANGED machine /\ UNCHANGED drifts

\* Caller c goes on with the next step and has recorded the changes.
Continue(c, pc, changes) ==
    call' = [call EXCEPT ![c].pc = pc, ![c].changed = @ \cup changes]

\* ensureGroup: groupadd for a missing group, groupmod for another GID.  A new
\* GID takes the ownership of a home away; only groupadd is recorded.
EnsureGroup(c) ==
    /\ call[c].pc = "group"
    /\ \/ /\ group = [exists |-> TRUE, gid |-> TRUE]
          /\ Continue(c, "mutate", {})
          /\ UNCHANGED <<group, home, faults>>
       \/ /\ group = [exists |-> TRUE, gid |-> FALSE]
          /\ group' = [group EXCEPT !.gid = TRUE]
          /\ home' = IF "group" \in account.agree /\ home = "owned" THEN "made" ELSE home
          /\ \/ Continue(c, "mutate", {}) /\ UNCHANGED faults
             \/ Fails(c)
       \/ /\ ~group.exists
          /\ group' = [exists |-> TRUE, gid |-> TRUE]
          /\ \/ Continue(c, "mutate", {"group record"}) /\ UNCHANGED faults
             \/ Fails(c)
          /\ UNCHANGED home
       \/ Fails(c) /\ UNCHANGED <<group, home>>
    /\ UNCHANGED <<policy, account, drifts>>

\* The step after the account: the home, or the second look.
AfterAccount == IF policy.home = "EnsureHome" THEN "mkdir" ELSE "verify"

\* Mutant: the account gets the GID of the specification, not that of the group.
CreateWithGID(c) ==
    /\ call[c].pc = "mutate" /\ ~call[c].present /\ ~account.exists
    /\ account' = [exists |-> TRUE, agree |-> Fields]
    /\ Continue(c, AfterAccount, creationChanges)
    /\ UNCHANGED <<policy, group, home, faults, drifts>>

\* create: useradd refuses an account that exists by now, and with EnsureHome
\* makes the home, with its own mode.  It may fail with the record written.
Create(c) ==
    /\ call[c].pc = "mutate" /\ ~call[c].present
    /\ \/ /\ ~account.exists
          /\ account' = [exists |-> TRUE, agree |-> Fields \ {"gid"}]
          /\ home' = IF policy.home = "EnsureHome" /\ home = "absent" THEN "made" ELSE home
          /\ Continue(c, AfterAccount, creationChanges)
          /\ UNCHANGED faults
       \/ /\ account.exists
          /\ Return(c, FALSE, call[c].changed)
          /\ UNCHANGED <<account, home, faults>>
       \/ /\ ~account.exists
          /\ account' = [exists |-> TRUE, agree |-> Fields \ {"gid"}]
          /\ Fails(c)
          /\ UNCHANGED home
       \/ Fails(c) /\ UNCHANGED <<account, home>>
    /\ UNCHANGED <<policy, group, drifts>>

\* Mutant: what was to change is recorded before usermod has run.
ModifyRecordsFirst(c) ==
    /\ call[c].pc = "mutate" /\ call[c].present
    /\ \/ /\ account' = [account EXCEPT !.agree = @ \cup (SpecFields \ {"gid"})]
          /\ Continue(c, AfterAccount, call[c].before)
          /\ UNCHANGED faults
       \/ /\ faults < MaxFaults
          /\ faults' = faults + 1
          /\ Return(c, FALSE, call[c].changed \cup call[c].before)
          /\ UNCHANGED account
    /\ UNCHANGED <<policy, group, home, drifts>>

\* modify: usermod sets everything the specification names.
Modify(c) ==
    /\ call[c].pc = "mutate" /\ call[c].present
    /\ \/ /\ account' = [account EXCEPT !.agree = @ \cup (SpecFields \ {"gid"})]
          /\ \/ Continue(c, AfterAccount, call[c].before) /\ UNCHANGED faults
             \/ Fails(c)
       \/ Fails(c) /\ UNCHANGED account
    /\ UNCHANGED <<policy, group, home, drifts>>

\* Mutant: the home is taken to be there.
MakeHomeSkipped(c) ==
    /\ call[c].pc = "mkdir"
    /\ Continue(c, "verify", {})
    /\ UNCHANGED machine /\ UNCHANGED <<faults, drifts>>

\* ensureHomeDirectory: mkdir, if the home is not there.
MakeHome(c) ==
    /\ call[c].pc = "mkdir"
    /\ \/ /\ home = "absent"
          /\ home' = "made"
          /\ call' = [call EXCEPT ![c].pc = "own", ![c].made = TRUE]
          /\ UNCHANGED faults
       \/ /\ home # "absent"
          /\ Continue(c, "own", {})
          /\ UNCHANGED <<home, faults>>
       \/ Fails(c) /\ UNCHANGED home
    /\ UNCHANGED <<policy, account, group, drifts>>

\* ensureHome: chown, chmod and verifyHome; then a home that was not there is
\* recorded.
OwnHome(c) ==
    /\ call[c].pc = "own"
    /\ \/ /\ home' = "owned"
          /\ Continue(c, "verify", IF call[c].made THEN {"home directory"} ELSE {})
          /\ UNCHANGED faults
       \/ Fails(c) /\ UNCHANGED home
    /\ UNCHANGED <<policy, account, group, drifts>>

\* The second look decides whether Ensure succeeds.
VerifyAgain(c) ==
    /\ call[c].pc = "verify"
    /\ \/ /\ Return(c, found = {}, call[c].changed)
          /\ UNCHANGED faults
       \/ Fails(c)
    /\ UNCHANGED machine /\ UNCHANGED drifts

-----------------------------------------------------------------------------
\* The administrator changes the account, its group or its home between calls,
\* and the callers will look again.
Drift ==
    /\ drifts < MaxDrifts
    /\ \A c \in Callers : call[c].pc = "idle"
    /\ drifts' = drifts + 1
    /\ \/ /\ account.exists
          /\ \E f \in {"group", "attrs", "home"} :
               account' = [account EXCEPT !.agree = @ \ {f}]
          /\ UNCHANGED <<group, home>>
       \/ /\ group.gid
          /\ group' = [group EXCEPT !.gid = FALSE]
          /\ UNCHANGED <<account, home>>
       \/ /\ home # "absent"
          /\ home' = "absent"
          /\ UNCHANGED <<account, group>>
    /\ call' = [c \in Callers |-> [call[c] EXCEPT !.ok = FALSE, !.changed = {}]]
    /\ UNCHANGED <<policy, faults>>

Ensure(c) ==
    \/ Lookup(c) \/ EnsureGroup(c) \/ Create(c) \/ Modify(c)
    \/ MakeHome(c) \/ OwnHome(c) \/ VerifyAgain(c)

\* All callers have what they asked for.
Satisfied ==
    /\ \A c \in Callers : call[c].pc = "idle" /\ call[c].ok
    /\ UNCHANGED vars

Next == (\E c \in Callers : Ensure(c)) \/ Drift \/ Satisfied

Spec == Init /\ [][Next]_vars

\* A caller goes on until its call has returned, and calls again after an error.
FairSpec == Spec /\ \A c \in Callers : WF_vars(Ensure(c))

-----------------------------------------------------------------------------
\* Properties

\* Every variable has its type.
TypeOK ==
    /\ policy \in Policies
    /\ account \in [exists : BOOLEAN, agree : SUBSET (Fields \ {"gid"})]
    /\ group \in [exists : BOOLEAN, gid : BOOLEAN]
    /\ home \in {"absent", "made", "owned"}
    /\ faults \in 0..MaxFaults /\ drifts \in 0..MaxDrifts
    /\ call \in [Callers -> [pc : {"idle", "group", "mutate", "mkdir", "own", "verify"},
                             present : BOOLEAN, before : SUBSET Fields,
                             changed : SUBSET Changes, ok : BOOLEAN, made : BOOLEAN]]

\* Where existing accounts are reconciled, retrying after errors ends with an
\* account that agrees with the specification, however calls of several
\* processes interleave and wherever earlier attempts stopped.
Agrees == account.exists /\ compare = {} /\ (policy.home = "EnsureHome" => home # "absent")
Converges == StopsAtDrift \/ <>[]Agrees

\* A call that succeeds leaves, or found, everything in agreement: whatever
\* the other callers do, no successful result goes with an account that differs.
SuccessAgrees == (\E c \in Callers : call[c].ok) => account.exists /\ found = {}

\* Under Verify, no call changes an account that exists, nor takes a group's GID
\* away from the specification, though a lookup that failed makes it create the
\* account anew.
VerifyKeeps ==
    [][policy.existing = "Verify" /\ account.exists /\ drifts' = drifts =>
         account' = account /\ (group.gid => group'.gid)]_vars

\* What a failed call reports as changed is in effect (apply "returns only
\* mutations that completed").
InEffect(f) ==
    CASE f = "account" -> account.exists
      [] f = "group record" -> group.exists
      [] f = "home directory" -> home # "absent"
      [] OTHER -> f \in Agreeing
OnlyCompleted ==
    [][\A c \in Callers : call[c].pc # "idle" /\ call'[c].pc = "idle" =>
         \A f \in call'[c].changed : InEffect(f)']_vars

\* The README: the package "idempotently reconciles local operating-system
\* accounts, groups, and optional home directories".  A call that succeeds
\* under EnsureHome leaves a home that belongs to the account.
\* (The code departs from this: "Departures observed" in the README.)
HomeReconciled == policy.home = "EnsureHome" => \A c \in Callers : call[c].ok => home = "owned"
=============================================================================
