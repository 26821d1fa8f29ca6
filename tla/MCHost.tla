------------------------------- MODULE MCHost -------------------------------
(***************************************************************************)
(* What the library sets up on a host: the service of a program (Service)  *)
(* and the account it runs under, on Linux (Account) and on macOS          *)
(* (AccountDarwin).  A behaviour is one of one part, and the variables of  *)
(* the others stay as they are.                                            *)
(***************************************************************************)
EXTENDS Service

CONSTANTS
    Parts,                          \* among "service", "linux" and "darwin"
    Callers, MaxFaults, MaxDrifts,  \* see Account
    Accounts, MaxID,                \* see AccountDarwin
    MaxDarwinFaults                 \* its bound on failing commands

-----------------------------------------------------------------------------
\* Installations of a service

AllFaults == {"dirs", "write", "sync", "command", "query"}
Install(platform, scope, declared, faulty) ==
    [platform |-> platform, scope |-> scope, declared |-> declared, faults |-> faulty]

\* On each platform one installation whose service manager is reliable and one
\* where everything may fail; the user's directories are nested.
MCSetups == {Install("linux", "System", {"config", "runtime"}, {"dirs", "write"}),
             Install("linux", "System", {"runtime", "state"}, AllFaults),
             Install("darwin", "System", {"config", "runtime"}, {"dirs", "write"}),
             Install("darwin", "User", {"config", "logs"}, AllFaults),
             Install("linux", "User", Kinds, {"dirs"})}

\* The commands that change something may fail, nothing else.
UnreliableSetups == {Install("linux", "User", {"config"}, {"command"})}

-----------------------------------------------------------------------------
VARIABLES
    part,  \* one of Parts
    policy, account, group, home, faults, drifts, call,                            \* Account
    darwinPolicy, rec, gid, darwinHome, darwinFaults, overlap, darwinCall          \* AccountDarwin

linuxVars == <<policy, account, group, home, faults, drifts, call>>
darwinVars == <<darwinPolicy, rec, gid, darwinHome, darwinFaults, overlap, darwinCall>>

Linux == INSTANCE Account
Darwin == INSTANCE AccountDarwin WITH
    MaxFaults <- MaxDarwinFaults, policy <- darwinPolicy, home <- darwinHome,
    faults <- darwinFaults, call <- darwinCall

ASSUME HostConstants == Linux!AccountConstants /\ Darwin!DarwinConstants

\* On macOS a GID and a shell are both given or neither, or one of them where
\* the home is left alone; RequireHome is taken with Reconcile and a shell only.
DarwinPolicies ==
    {p \in Darwin!Policies :
        /\ p.home = "EnsureHome" => p.gid = p.shell
        /\ p.home = "LeaveHomeUnchanged" => p.gid # p.shell
        /\ p.home = "RequireHome" => p.existing = "Reconcile" /\ ~p.gid /\ p.shell}

MCInit ==
    /\ part \in Parts
    /\ Init /\ Linux!Init /\ Darwin!Init
    /\ part # "service" => setup = CHOOSE s \in Setups : TRUE
    /\ part # "linux"  => /\ policy = [existing |-> "Verify", home |-> "RequireHome"]
                          /\ ~group.exists /\ home = "absent"
    /\ part # "darwin" => /\ darwinPolicy = [existing |-> "Verify", home |-> "EnsureHome",
                                             gid |-> TRUE, shell |-> TRUE]
                          /\ \A a \in Accounts : ~rec[a].exists
    /\ darwinPolicy \in DarwinPolicies

MCNext ==
    /\ \/ part = "service" /\ Next /\ UNCHANGED <<linuxVars, darwinVars>>
       \/ part = "linux" /\ Linux!Next /\ UNCHANGED <<vars, darwinVars>>
       \/ part = "darwin" /\ Darwin!Next /\ UNCHANGED <<vars, linuxVars>>
    /\ UNCHANGED part

\* The fairness of the two account specifications.
MCSpec ==
    /\ MCInit /\ [][MCNext]_<<part, vars, linuxVars, darwinVars>>
    /\ \A c \in Callers : WF_linuxVars(part = "linux" /\ Linux!Ensure(c))
    /\ \A a \in Accounts : WF_darwinVars(part = "darwin" /\ Darwin!Ensure(a))

-----------------------------------------------------------------------------
\* Every variable of the three modules has its type.
TypesOK == TypeOK /\ Linux!TypeOK /\ Darwin!TypeOK

\* On both platforms a call of Ensure that succeeds leaves an account that
\* agrees with its specification, whoever else was at work, and one that fails
\* reports as changed only what is in effect.  Under Verify an account that
\* exists is left as it is, also one that appears while the call is under way
\* (Linux).  No UID or GID is given out twice by calls that do not overlap,
\* whatever failed between choosing an identifier and setting it (macOS).
AccountsTruthful ==
    /\ [](Linux!SuccessAgrees /\ Darwin!SuccessAgrees /\ Darwin!IDsDistinct)
    /\ Linux!OnlyCompleted /\ Darwin!OnlyCompleted
    /\ Linux!VerifyKeeps

\* Retrying Ensure after errors ends with an account that agrees, wherever
\* earlier attempts stopped; on macOS, where accounts are reconciled, with that
\* or with a half-made record that lookup refuses.
AccountsConverge ==
    /\ part = "linux" => Linux!Converges
    /\ part = "darwin" => Darwin!ConvergesOrRefused
=============================================================================
