---------------------------- MODULE AccountDarwin ---------------------------
(***************************************************************************)
(* The account package on macOS (backend_darwin_impl.go under              *)
(* operation.go): there is no useradd, and Ensure builds an account from   *)
(* commands that each set one attribute of a Directory Service record.     *)
(* The free UIDs and GIDs are listed before they are taken.                *)
(*                                                                         *)
(* Every account has a caller of its own, which retries after an error; a  *)
(* command fails up to MaxFaults times, with or without its effect.  An    *)
(* attribute has no value, another one, or that of the specification;      *)
(* "join" and "leave" stand for the memberships to add and to remove.      *)
(***************************************************************************)
EXTENDS Integers, Sequences, FiniteSets, FiniteSetsExt

CONSTANTS
    Accounts,  \* accounts, each with a primary group of its own
    MaxID,     \* bound: the last UID and GID that may be allocated
    MaxFaults  \* bound: failing commands

\* Identifiers do not run out: there are 2^31 - 501 of them.
DarwinConstants ==
    /\ MaxID \in Nat /\ MaxFaults \in Nat
    /\ Accounts \subseteq 1..(MaxID - 1)

IDs == 1..MaxID
NoID == 0

\* Spec.Existing, Spec.HomePolicy, and whether Spec.GID and Spec.Shell are given;
\* Spec.Group, Spec.Groups and Spec.Hidden are, Spec.UID is not.
Policies == [existing : {"Verify", "Reconcile"},
             home : {"LeaveHomeUnchanged", "RequireHome", "EnsureHome"}, gid : BOOLEAN, shell : BOOLEAN]

VARIABLES
    policy,   \* the policies of the specifications
    rec,      \* account -> its record
    gid,      \* account -> the GID of its group, NoID when there is no group
    home,     \* account -> "absent", "made" or "owned"
    faults,   \* failures so far
    overlap,  \* history: two calls were under way at once
    call      \* account -> its caller

vars == <<policy, rec, gid, home, faults, overlap, call>>

Attributes == {"hidden", "home", "shell", "join", "leave"}
Record == [exists : BOOLEAN, uid : IDs \cup {NoID}, gid : Nat,
           attr : [Attributes -> {"none", "other", "spec"}]]
NoRecord == [exists |-> FALSE, uid |-> NoID, gid |-> NoID,
             attr |-> [f \in Attributes |-> IF f = "leave" THEN "spec" ELSE "none"]]
Foreign(a) == [exists |-> TRUE, uid |-> a, gid |-> a, attr |-> [f \in Attributes |-> "other"]]

\* A caller: what is left to set, whether the account is to be created, the IDs it
\* has chosen, the differences it found, what it returns, and what it has done.
Caller(pc, ok, changed) ==
    [pc |-> pc, todo |-> <<>>, new |-> FALSE, id |-> NoID, group |-> NoID, before |-> {}, made |-> FALSE,
     changed |-> changed, did |-> {}, ok |-> ok]

Init ==
    /\ policy \in Policies
    /\ \E present \in SUBSET Accounts :
         /\ rec = [a \in Accounts |-> IF a \in present THEN Foreign(a) ELSE NoRecord]
         /\ gid = [a \in Accounts |-> IF a \in present THEN a ELSE NoID]
    /\ \E there \in {"absent"} \cup (IF policy.home = "RequireHome" THEN {"made"} ELSE {}) :
         home = [a \in Accounts |-> there]
    /\ faults = 0
    /\ overlap = FALSE
    /\ call = [a \in Accounts |-> Caller("idle", FALSE, {})]

-----------------------------------------------------------------------------
\* Looking

\* The GID of the specification: no account's is another's.
Wanted(a) == IF policy.gid THEN MaxID + a ELSE NoID

\* External: os/user may or may not find a record that has no UID or no GID.
Incomplete(a) == rec[a].uid = NoID \/ rec[a].gid = NoID

\* The record is refused: its primary group does not exist, or it has no home
\* or no shell.
Dangling(a) == ~\E b \in Accounts : gid[b] = rec[a].gid
Malformed(a) == rec[a].attr["home"] = "none" \/ rec[a].attr["shell"] = "none"

\* lookup: what it may answer when nothing fails.
lookup(a) ==
    IF ~rec[a].exists THEN {"missing"}
    ELSE IF Incomplete(a) THEN {"missing", "error"}
    ELSE IF Dangling(a) \/ Malformed(a) THEN {"error"}
    ELSE {"found"}

\* compare, and compareFor, which adds the hidden attribute.
compare(a) ==
    (IF rec[a].gid # gid[a] THEN {"group"} ELSE {})
    \cup (IF policy.gid /\ rec[a].gid # Wanted(a) THEN {"gid"} ELSE {})
    \cup (IF policy.home # "LeaveHomeUnchanged" /\ rec[a].attr["home"] # "spec" THEN {"home"} ELSE {})
    \cup (IF policy.shell /\ rec[a].attr["shell"] # "spec" THEN {"shell"} ELSE {})
    \cup (IF rec[a].attr["join"] # "spec" \/ rec[a].attr["leave"] # "spec" THEN {"groups"} ELSE {})
compareFor(a) == compare(a) \cup (IF rec[a].attr["hidden"] # "spec" THEN {"hidden"} ELSE {})

HomeMissing(a) == policy.home # "LeaveHomeUnchanged" /\ home[a] = "absent"
found(a) == compareFor(a) \cup (IF HomeMissing(a) THEN {"home directory"} ELSE {})

\* creationChanges, after a UID was allocated.
creationChanges ==
    {"account", "uid", "group", "groups"} \cup (IF policy.gid THEN {"gid"} ELSE {})
    \cup (IF policy.home # "LeaveHomeUnchanged" THEN {"home"} ELSE {})
    \cup (IF policy.shell THEN {"shell"} ELSE {})

\* Mutant: as many as are used, and one.
allocateIDCount(used) == Cardinality(used \cap IDs) + 1

\* allocateID: the first that is not used.
allocateID(used) == Min(IDs \ used)

UIDs == {rec[a].uid : a \in Accounts} \ {NoID}
GIDs == {gid[a] : a \in Accounts} \ {NoID}

-----------------------------------------------------------------------------
\* Ensure

Active(a) == call[a].pc # "idle"
Return(a, ok, changed) == call' = [call EXCEPT ![a] = [Caller("idle", ok, changed) EXCEPT !.did = call[a].did]]

\* A command fails: Ensure returns what was recorded.
Fails(a) ==
    /\ faults < MaxFaults
    /\ faults' = faults + 1
    /\ Return(a, FALSE, call[a].changed)

\* An existing account is left alone under Verify, and when the home is required.
StopsAtDrift == policy.existing = "Verify" \/ policy.home = "RequireHome"

\* The first look: the account is to be created, is as it should be, or is to
\* be reconciled.  Every error of os/user is taken to say that there is no
\* account; an error of another command is returned.
Lookup(a) ==
    /\ call[a].pc = "idle" /\ ~call[a].ok
    /\ \E answer \in {"missing", "error", "found"} :
         /\ \/ answer \in lookup(a) /\ UNCHANGED faults
            \/ answer # "found" /\ faults < MaxFaults /\ faults' = faults + 1
         /\ \/ /\ answer = "missing"
               /\ call' = [call EXCEPT ![a] = [Caller("uid", FALSE, {}) EXCEPT !.new = TRUE]]
            \/ /\ answer = "error"
               /\ call' = [call EXCEPT ![a] = Caller("idle", FALSE, {})]
            \/ /\ answer = "found" /\ (found(a) = {} \/ StopsAtDrift)
               /\ call' = [call EXCEPT ![a] = Caller("idle", found(a) = {}, found(a))]
            \/ /\ answer = "found" /\ found(a) # {} /\ ~StopsAtDrift
               /\ call' = [call EXCEPT ![a] = [Caller("group", FALSE, {}) EXCEPT !.before = compare(a)]]
    /\ overlap' = (overlap \/ \E b \in Accounts \ {a} : Active(b) /\ call'[a].pc # "idle")
    /\ UNCHANGED <<policy, rec, gid, home>>

\* apply: the UID of a new account is chosen from the list of those in use.
AllocateUID(a) ==
    /\ call[a].pc = "uid"
    /\ \/ /\ call' = [call EXCEPT ![a].pc = "group", ![a].id = allocateID(UIDs)]
          /\ UNCHANGED faults
       \/ Fails(a)
    /\ UNCHANGED <<policy, rec, gid, home, overlap>>

\* create makes the record and sets its attributes, those the specification
\* has; modify only sets them, and removes memberships too.
Optional(given, f) == IF given THEN <<f>> ELSE <<>>
HomeAndShell ==
    Optional(policy.home # "LeaveHomeUnchanged", "home") \o Optional(policy.shell, "shell")
Todo(a) ==
    IF call[a].new THEN <<"record", "hidden", "uid", "group">> \o HomeAndShell \o <<"join">>
                   ELSE <<"hidden", "group">> \o HomeAndShell \o <<"join", "leave">>

\* Mutant: nothing is to be set.
ToAccountEmpty(a, changes, did) ==
    call' = [call EXCEPT ![a].pc = "account", ![a].changed = @ \cup changes]

\* On to the account.
ToAccount(a, changes, did) ==
    call' = [call EXCEPT ![a].pc = "account", ![a].todo = Todo(a),
                         ![a].changed = @ \cup changes, ![a].did = @ \cup did]

\* Mutant: a new account must have a new group.
EnsureGroupNew(a) ==
    /\ call[a].pc = "group"
    /\ \/ /\ gid[a] # NoID /\ ~call[a].new
          /\ gid' = [gid EXCEPT ![a] = IF policy.gid THEN Wanted(a) ELSE @]
          /\ ToAccount(a, {}, {})
          /\ UNCHANGED faults
       \/ /\ gid[a] # NoID /\ call[a].new
          /\ Return(a, FALSE, {})
          /\ UNCHANGED <<gid, faults>>
       \/ /\ gid[a] = NoID
          /\ gid' = [gid EXCEPT ![a] = Max(IDs \ GIDs)]
          /\ \/ /\ call' = [call EXCEPT ![a].pc = "gid"]
                /\ UNCHANGED faults
             \/ Fails(a)
    /\ UNCHANGED <<policy, rec, home, overlap>>

\* ensureGroup: a group that exists gets the GID of the specification, which is
\* not recorded; a missing one is made, with some GID.
EnsureGroup(a) ==
    /\ call[a].pc = "group"
    /\ \/ /\ gid[a] # NoID /\ Wanted(a) \in {NoID, gid[a]}
          /\ ToAccount(a, {}, {})
          /\ UNCHANGED <<gid, faults>>
       \/ /\ gid[a] # NoID /\ Wanted(a) \notin {NoID, gid[a]}
          /\ gid' = [gid EXCEPT ![a] = Wanted(a)]
          /\ \/ ToAccount(a, {}, {"group gid"}) /\ UNCHANGED faults
             \/ Fails(a)
       \/ /\ gid[a] = NoID
          /\ gid' = [gid EXCEPT ![a] = Max(IDs \ GIDs)]
          /\ \/ /\ call' = [call EXCEPT ![a].pc = "gid", ![a].did = @ \cup {"group record"}]
                /\ UNCHANGED faults
             \/ Fails(a)
       \/ Fails(a) /\ UNCHANGED gid
    /\ UNCHANGED <<policy, rec, home, overlap>>

\* The GID of the new group: that of the specification, or one that is not used.
AllocateGID(a) ==
    /\ call[a].pc = "gid"
    /\ \/ /\ call' = [call EXCEPT ![a].pc = "setgid", ![a].group =
                         IF policy.gid THEN Wanted(a) ELSE allocateID(GIDs)]
          /\ UNCHANGED faults
       \/ Fails(a)
    /\ UNCHANGED <<policy, rec, gid, home, overlap>>

SetGID(a) ==
    /\ call[a].pc = "setgid"
    /\ \/ /\ gid' = [gid EXCEPT ![a] = call[a].group]
          /\ \/ ToAccount(a, {"group record"}, {}) /\ UNCHANGED faults
             \/ Fails(a)
       \/ Fails(a) /\ UNCHANGED gid
    /\ UNCHANGED <<policy, rec, home, overlap>>


\* The record after the next command.
Assigned(a) ==
    LET f == Head(call[a].todo) IN
    CASE f = "record" -> [rec[a] EXCEPT !.exists = TRUE]
      [] f = "uid"    -> [rec[a] EXCEPT !.uid = call[a].id]
      [] f = "group"  -> [rec[a] EXCEPT !.gid = gid[a]]
      [] OTHER        -> [rec[a] EXCEPT !.attr[f] = "spec"]

\* What a command that had an effect has done, in the terms of Change.
Done(a) ==
    LET f == Head(call[a].todo) IN
    IF Assigned(a) = rec[a] THEN {}
    ELSE {CASE f = "record" -> "account" [] f \in {"join", "leave"} -> "groups" [] OTHER -> f}

AfterAccount == IF policy.home = "EnsureHome" THEN "mkdir" ELSE "verify"

\* Mutant: the changes are recorded before the commands have run.
SetAttributeRecordsFirst(a) ==
    /\ call[a].pc = "account"
    /\ rec' = [rec EXCEPT ![a] = Assigned(a)]
    /\ LET c == call[a]
           all == c.changed \cup (IF c.new THEN creationChanges ELSE c.before) IN
       \/ /\ call' = [call EXCEPT ![a] = [c EXCEPT !.todo = Tail(@), !.changed = all,
                         !.pc = IF Len(c.todo) = 1 THEN AfterAccount ELSE @]]
          /\ UNCHANGED faults
       \/ /\ faults < MaxFaults
          /\ faults' = faults + 1
          /\ Return(a, FALSE, all)
    /\ UNCHANGED <<policy, gid, home, overlap>>

\* create and modify: one dscl or dseditgroup after the other; the changes are
\* recorded after the last.
SetAttribute(a) ==
    /\ call[a].pc = "account"
    /\ LET c == call[a]
           last == Len(c.todo) = 1
           after == [c EXCEPT !.todo = Tail(@), !.did = @ \cup Done(a),
                        !.pc = IF last THEN AfterAccount ELSE @,
                        !.changed = IF ~last THEN @
                                    ELSE @ \cup (IF c.new THEN creationChanges ELSE c.before)] IN
       \/ /\ rec' = [rec EXCEPT ![a] = Assigned(a)]
          /\ \/ call' = [call EXCEPT ![a] = after] /\ UNCHANGED faults
             \/ Fails(a)
       \/ Fails(a) /\ UNCHANGED rec
    /\ UNCHANGED <<policy, gid, home, overlap>>

\* ensureHomeDirectory.
MakeHome(a) ==
    /\ call[a].pc = "mkdir"
    /\ \/ /\ home' = [home EXCEPT ![a] = IF @ = "absent" THEN "made" ELSE @]
          /\ call' = [call EXCEPT ![a].pc = "own", ![a].made = (home[a] = "absent"),
                                  ![a].did = @ \cup IF home[a] = "absent" THEN {"home directory"} ELSE {}]
          /\ UNCHANGED faults
       \/ Fails(a) /\ UNCHANGED home
    /\ UNCHANGED <<policy, rec, gid, overlap>>

\* The rest of ensureHome: the record is looked up, and the home is given to
\* its account.
OwnHome(a) ==
    /\ call[a].pc = "own"
    /\ \/ /\ "found" \in lookup(a)
          /\ home' = [home EXCEPT ![a] = "owned"]
          /\ call' = [call EXCEPT ![a].pc = "verify",
                         ![a].changed = @ \cup IF call[a].made THEN {"home directory"} ELSE {}]
          /\ UNCHANGED faults
       \/ /\ "found" \notin lookup(a)
          /\ Return(a, FALSE, call[a].changed)
          /\ UNCHANGED <<home, faults>>
       \/ Fails(a) /\ UNCHANGED home
    /\ UNCHANGED <<policy, rec, gid, overlap>>

\* Mutant: the commands are trusted.
VerifyNot(a) ==
    /\ call[a].pc = "verify"
    /\ Return(a, TRUE, call[a].changed)
    /\ UNCHANGED <<policy, rec, gid, home, faults, overlap>>

\* The second look decides.
Verify(a) ==
    /\ call[a].pc = "verify"
    /\ \/ /\ Return(a, "found" \in lookup(a) /\ found(a) = {}, call[a].changed)
          /\ UNCHANGED faults
       \/ Fails(a)
    /\ UNCHANGED <<policy, rec, gid, home, overlap>>

Ensure(a) ==
    \/ Lookup(a) \/ AllocateUID(a) \/ EnsureGroup(a) \/ AllocateGID(a) \/ SetGID(a)
    \/ SetAttribute(a) \/ MakeHome(a) \/ OwnHome(a) \/ Verify(a)

\* All callers have what they asked for.
Satisfied == (\A a \in Accounts : call[a].ok) /\ UNCHANGED vars

Next == (\E a \in Accounts : Ensure(a)) \/ Satisfied

Spec == Init /\ [][Next]_vars

\* A caller goes on until its call has returned, and calls again after an error.
FairSpec == Spec /\ \A a \in Accounts : WF_vars(Ensure(a))

-----------------------------------------------------------------------------
\* Properties

Changes == {"account", "uid", "group", "gid", "groups", "home", "shell", "hidden",
            "home directory", "group record", "group gid"}

\* Every variable has its type, and only a call that is under way has commands
\* left to run.
TypeOK ==
    /\ policy \in Policies
    /\ rec \in [Accounts -> Record]
    /\ gid \in [Accounts -> Nat]
    /\ home \in [Accounts -> {"absent", "made", "owned"}]
    /\ faults \in 0..MaxFaults /\ overlap \in BOOLEAN
    /\ \A a \in Accounts :
         /\ call[a].pc \in {"idle", "uid", "group", "gid", "setgid", "account", "mkdir", "own", "verify"}
         /\ call[a].changed \subseteq Changes
         /\ call[a].todo # <<>> <=> call[a].pc = "account"

\* Unless calls overlap, no two accounts have one UID and no two groups one
\* GID, whatever attempts failed between choosing an ID and setting it.
IDsDistinct ==
    ~overlap => \A a, b \in Accounts : a # b =>
        /\ rec[a].uid = NoID \/ rec[a].uid # rec[b].uid
        /\ gid[a] = NoID \/ gid[a] # gid[b]

\* A call that succeeds leaves an account that lookup finds and that agrees,
\* whatever the other callers do.
SuccessAgrees == \A a \in Accounts : call[a].ok => "found" \in lookup(a) /\ found(a) = {}

\* What a failed call reports as changed is in effect (apply "returns only
\* mutations that completed"); of the groups of an account it took to be absent
\* a call reports that it was added to them.
InEffect(a, f) ==
    CASE f = "account"        -> rec[a].exists
      [] f = "uid"            -> rec[a].uid # NoID
      [] f = "group record"   -> gid[a] # NoID
      [] f = "home directory" -> home[a] # "absent"
      [] OTHER                -> f \notin compareFor(a)
Joined(a, f) == call[a].new /\ f = "groups" /\ rec'[a].attr["join"] = "spec"
OnlyCompleted ==
    [][\A a \in Accounts : Active(a) /\ call'[a].pc = "idle" =>
          \A f \in call'[a].changed : InEffect(a, f)' \/ Joined(a, f)]_vars

\* Where accounts are reconciled, retrying ends with success, or with a record
\* that lookup may refuse.
Refused(a) == "error" \in lookup(a)
ConvergesOrRefused ==
    StopsAtDrift \/ <>[](\A a \in Accounts : call[a].ok \/ Refused(a))

\* The README: the package "idempotently reconciles local operating-system
\* accounts, groups, and optional home directories".  Retrying succeeds.
\* (The code departs from this: "Departures observed" in the README.)
Converges == StopsAtDrift \/ <>[](\A a \in Accounts : call[a].ok)

\* The README: "result.Changed retains completed work on failure".
\* (The code departs from this: "Departures observed" in the README.)
CompletedRetained ==
    [][\A a \in Accounts : Active(a) /\ call'[a].pc = "idle" /\ ~call'[a].ok =>
          call'[a].did \subseteq call'[a].changed]_vars

\* The README: "`Verify` is the default existing-account policy and returns a
\* typed drift error".  A call under Verify changes no account that exists.
\* (The code departs from this: "Departures observed" in the README.)
VerifyKeeps ==
    [][policy.existing = "Verify" =>
         \A a \in Accounts : rec[a].exists /\ ~Incomplete(a) => rec'[a] = rec[a]]_vars
=============================================================================
