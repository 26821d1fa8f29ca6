------------------------------ MODULE Service -------------------------------
(***************************************************************************)
(* A program managing its own operating-system service (package service):  *)
(* Ensure reconciles the managed directories, writes the definition when   *)
(* it differs and tells the service manager; Start, Restart, Stop,         *)
(* Uninstall and Purge follow.  One caller runs one operation at a time;   *)
(* what is in "Faults" may fail, which ends the operation with an error at *)
(* that point, and the caller may try again.  The platform, the scope, the *)
(* declared directories and what may fail are those of a Setup.            *)
(*                                                                         *)
(* A definition is the number of the specification it was rendered from:   *)
(* renderSystemd and plist are deterministic and put the whole             *)
(* specification in the file.  The service managers are external and       *)
(* modelled by what the code asks of them.  systemd reads definitions on   *)
(* daemon-reload, enable and disable, and restart runs what was read last. *)
(* launchd reads a definition on bootstrap, forgets it on bootout, and     *)
(* kickstart -k runs what was read at bootstrap.                           *)
(***************************************************************************)
EXTENDS Integers, Sequences, SequencesExt

CONSTANTS
    Setups,    \* the installations to look at
    MaxSpec    \* bound: specifications the program goes through

Kinds == {"config", "runtime", "state", "logs"}

\* host.Linux or host.Darwin, the scope, the managed directories given with
\* WithRuntimeDir etc., and what may fail.
Setup == [platform: {"linux", "darwin"}, scope: {"User", "System"},
          declared: SUBSET Kinds,
          faults: SUBSET {"dirs", "write", "sync", "command", "query"}]

ASSUME ServiceConstants ==
    /\ Setups \subseteq Setup
    /\ MaxSpec \in Nat \ {0}

VARIABLES
    setup,    \* one of Setups, for the whole behaviour
    want,     \* specification of the program that calls
    def,      \* definition file, 0 if absent
    unit,     \* definition the service manager has read, 0 if none
    running,  \* definition the running process was started from, 0 if stopped
    enabled,  \* started at boot
    dirs,     \* managed paths: "absent", "raw" (just made) or their mode
    pc,       \* step of the operation under way
    todo,     \* what Ensure still has to reconcile
    ensured,  \* Ensure last succeeded with the present specification
    told,     \* a restart was called for since the process was started
    result    \* what the last operation returned

vars == <<setup, want, def, unit, running, enabled, dirs, pc, todo, ensured, told, result>>
manager == <<unit, running, enabled, told>>

Platform == setup.platform
Scope == setup.scope
Declared == setup.declared
Faults == setup.faults

-----------------------------------------------------------------------------
\* Directories (directories.go)

\* directoryBases.
Base(k) ==
    IF Scope = "User" THEN <<"home">>
    ELSE IF Platform = "linux"
         THEN [config |-> <<"etc">>, runtime |-> <<"run">>,
               state |-> <<"var", "lib">>, logs |-> <<"var", "log">>][k]
         ELSE [config |-> <<"Library", "Application Support">>,
               runtime |-> <<"private", "var", "run">>,
               state |-> <<"Library", "Application Support">>,
               logs |-> <<"Library", "Logs">>][k]

\* resolveDirectories with the default names: a user's directories are children
\* of its config directory, which any other declared directory implies.
Managed == Declared \cup (IF Scope = "User" /\ Declared # {} THEN {"config"} ELSE {})
Directory(k) ==
    IF Scope = "System" \/ k = "config" THEN Append(Base(k), "name")
    ELSE <<"home", "name", [runtime |-> "run", state |-> "lib", logs |-> "log"][k]>>

\* The log file (WithStdoutLog) lies in the log directory.
Path(k) == IF k = "logfile" THEN Append(Directory("logs"), "out.log") ELSE Directory(k)
Mode(k) ==
    IF k = "logfile" THEN IF Scope = "User" THEN "0600" ELSE "0660"
    ELSE IF Scope = "User" THEN "0700" ELSE IF k = "config" THEN "0750" ELSE "0770"

\* The order in which reconcileDirectories goes; what is not managed is skipped.
Optional(k, kinds) == IF k \in kinds THEN <<k>> ELSE <<>>
Order ==
    Optional("config", Managed) \o Optional("runtime", Managed) \o Optional("state", Managed)
      \o (IF "logs" \in Managed THEN <<"logs", "logfile">> ELSE <<>>)
Paths == {Path(k) : k \in ToSet(Order)}

\* removeAll takes the directory and what is below it.
Below(p) == {q \in Paths : IsPrefix(p, q)}
Removed(ds, gone) == [q \in Paths |-> IF q \in gone THEN "absent" ELSE ds[q]]

-----------------------------------------------------------------------------
Results == [op : {"none", "ensure", "start", "restart", "stop", "uninstall", "purge"},
            ok : BOOLEAN, selected : SUBSET Kinds]
None == [op |-> "none", ok |-> TRUE, selected |-> {}]
Return(op, ok) ==
    /\ pc' = "idle"
    /\ result' = [op |-> op, ok |-> ok, selected |-> {}]

Init ==
    /\ setup \in Setups
    /\ want = 1 /\ def = 0 /\ unit = 0 /\ running = 0 /\ enabled = FALSE
    /\ dirs = [p \in Paths |-> "absent"]
    /\ pc = "idle" /\ todo = <<>>
    /\ ensured = FALSE /\ told = FALSE /\ result = None

\* A new version of the program calls with a new specification.
Upgrade ==
    /\ pc = "idle"
    /\ want < MaxSpec
    /\ want' = want + 1
    /\ ensured' = FALSE
    /\ result' = None
    /\ UNCHANGED <<setup, def, unit, running, enabled, dirs, pc, todo, told>>

-----------------------------------------------------------------------------
\* Ensure

\* Preflight, binary and account come first and change nothing modelled here.
EnsureBegin ==
    /\ pc = "idle"
    /\ pc' = "dirs"
    /\ todo' = Order
    /\ ensured' = FALSE
    /\ result' = None
    /\ UNCHANGED <<setup, want, def, unit, running, enabled, dirs, told>>

\* Mutant: an existing directory is taken as it is.
EnsureDirectoryExisting ==
    /\ pc = "dirs" /\ todo # <<>>
    /\ LET k == Head(todo) IN
       \/ /\ dirs' = [dirs EXCEPT ![Path(k)] = IF @ = "absent" THEN Mode(k) ELSE @]
          /\ todo' = Tail(todo)
          /\ UNCHANGED <<pc, result>>
       \/ /\ "dirs" \in Faults
          /\ dirs' = [dirs EXCEPT ![Path(k)] = IF @ = "absent" THEN "raw" ELSE @]
          /\ Return("ensure", FALSE)
          /\ UNCHANGED todo
    /\ UNCHANGED <<setup, want, def, unit, running, enabled, ensured, told>>

\* Mutant: a new directory keeps the mode the umask leaves it.
EnsureDirectoryUmask ==
    /\ pc = "dirs" /\ todo # <<>>
    /\ dirs' = [dirs EXCEPT ![Path(Head(todo))] = IF @ = "absent" THEN "0755" ELSE Mode(Head(todo))]
    /\ todo' = Tail(todo)
    /\ UNCHANGED <<setup, want, def, unit, running, enabled, pc, ensured, told, result>>

\* One path: ensureManagedDirectory or ensureManagedLog makes it if needed and
\* sets owner and mode.  A failure leaves what was there, or the path made
\* without owner and mode.
EnsureDirectory ==
    /\ pc = "dirs" /\ todo # <<>>
    /\ LET k == Head(todo) IN
       \/ /\ dirs' = [dirs EXCEPT ![Path(k)] = Mode(k)]
          /\ todo' = Tail(todo)
          /\ UNCHANGED <<pc, result>>
       \/ /\ "dirs" \in Faults
          /\ \/ UNCHANGED dirs
             \/ dirs[Path(k)] = "absent" /\ dirs' = [dirs EXCEPT ![Path(k)] = "raw"]
          /\ Return("ensure", FALSE)
          /\ UNCHANGED todo
    /\ UNCHANGED <<setup, want, def, unit, running, enabled, ensured, told>>

\* The definition is compared with the file and written when it differs, after
\* checkSystemdVersion under systemd; nothing is written when one of these
\* fails.  The rename is done when the sync of the directory (or, in launchd's system
\* scope, the change of owner that follows) fails.
EnsureDefinition ==
    /\ pc = "dirs" /\ todo = <<>>
    /\ \/ /\ def = want
          /\ ensured' = TRUE
          /\ Return("ensure", TRUE)
          /\ UNCHANGED def
       \/ /\ def # want
          /\ def' = want
          /\ pc' = IF Platform = "linux" THEN "reload" ELSE "show"
          /\ UNCHANGED <<ensured, result>>
       \/ /\ {"write", "command"} \cap Faults # {}
          /\ Return("ensure", FALSE)
          /\ UNCHANGED <<def, ensured>>
       \/ /\ def # want /\ "sync" \in Faults
          /\ def' = want
          /\ Return("ensure", FALSE)
          /\ UNCHANGED ensured
    /\ UNCHANGED <<setup, want, dirs, todo>> /\ UNCHANGED manager

\* systemctl daemon-reload.
EnsureReload ==
    /\ pc = "reload"
    /\ \/ /\ unit' = def
          /\ pc' = "show"
          /\ UNCHANGED result
       \/ /\ "command" \in Faults
          /\ Return("ensure", FALSE)
          /\ UNCHANGED unit
    /\ UNCHANGED <<setup, want, def, running, enabled, dirs, todo, ensured, told>>

\* Mutant: only an enabled service is reported.
EnsureShowEnabled ==
    /\ pc = "show"
    /\ told' = (told \/ enabled)
    /\ ensured' = TRUE
    /\ Return("ensure", TRUE)
    /\ UNCHANGED <<setup, want, def, unit, running, enabled, dirs, todo>>

\* systemctl show or launchctl print: RestartRequired if the service is loaded,
\* and not if the question fails.
EnsureShow ==
    /\ pc = "show"
    /\ \/ told' = (told \/ unit # 0)
       \/ "query" \in Faults /\ UNCHANGED told
    /\ ensured' = TRUE
    /\ Return("ensure", TRUE)
    /\ UNCHANGED <<setup, want, def, unit, running, enabled, dirs, todo>>

-----------------------------------------------------------------------------
\* Start, Restart, Stop

\* A process is started from the definition that was read.
Run(u) == running' = u /\ told' = FALSE

\* systemctl enable --now; a running process is left alone.  Enabling may be
\* done when starting fails.
StartSystemd ==
    /\ Platform = "linux"
    /\ \/ /\ def # 0
          /\ enabled' = TRUE /\ unit' = def
          /\ IF running = 0 THEN Run(def) ELSE UNCHANGED <<running, told>>
          /\ Return("start", TRUE)
       \/ /\ def # 0 /\ "command" \in Faults
          /\ enabled' = TRUE /\ unit' = def
          /\ UNCHANGED <<running, told>>
          /\ Return("start", FALSE)
       \/ /\ def = 0 \/ "command" \in Faults
          /\ UNCHANGED manager
          /\ Return("start", FALSE)

\* launchctl enable, bootstrap unless loaded (RunAtLoad), kickstart: each of
\* them may be the one that fails.
StartLaunchd ==
    /\ Platform = "darwin"
    /\ \/ /\ unit # 0 \/ def # 0
          /\ enabled' = TRUE
          /\ unit' = IF unit = 0 THEN def ELSE unit
          /\ IF running = 0 THEN Run(unit') ELSE UNCHANGED <<running, told>>
          /\ Return("start", TRUE)
       \/ /\ (unit = 0 /\ def = 0) \/ "command" \in Faults
          /\ enabled' = TRUE
          /\ UNCHANGED <<unit, running, told>>
          /\ Return("start", FALSE)
       \/ /\ unit = 0 /\ def # 0 /\ "command" \in Faults
          /\ enabled' = TRUE /\ unit' = def /\ Run(def)
          /\ Return("start", FALSE)
       \/ /\ "command" \in Faults
          /\ UNCHANGED manager
          /\ Return("start", FALSE)

Start ==
    /\ pc = "idle"
    /\ StartSystemd \/ StartLaunchd
    /\ UNCHANGED <<setup, want, def, dirs, todo, ensured>>

\* Mutant: a running service is only started, as in Start.
RestartRunning ==
    /\ pc = "idle"
    /\ unit # 0 \/ def # 0
    /\ unit' = IF unit = 0 THEN def ELSE unit
    /\ IF running = 0 THEN Run(unit') ELSE UNCHANGED <<running, told>>
    /\ Return("restart", TRUE)
    /\ UNCHANGED <<setup, want, def, enabled, dirs, todo, ensured>>

\* systemctl restart, or launchctl bootstrap unless loaded and kickstart -k: the
\* process runs what was read last, and what is not loaded is read now.
Restart ==
    /\ pc = "idle"
    /\ \/ /\ unit # 0 \/ def # 0
          /\ unit' = IF unit = 0 THEN def ELSE unit
          /\ Run(unit')
          /\ Return("restart", TRUE)
       \/ /\ (unit = 0 /\ def = 0) \/ "command" \in Faults
          /\ UNCHANGED <<unit, running, told>>
          /\ Return("restart", FALSE)
       \/ /\ Platform = "darwin" /\ unit = 0 /\ def # 0 /\ "command" \in Faults
          /\ unit' = def /\ Run(def)
          /\ Return("restart", FALSE)
    /\ UNCHANGED <<setup, want, def, enabled, dirs, todo, ensured>>

\* What stop asks of the manager when there is a definition: systemctl disable
\* --now, or launchctl disable and bootout.
StopCommands == enabled' = FALSE /\ unit' = (IF Platform = "linux" THEN def ELSE 0) /\ Run(0)

\* Without a definition there is nothing to stop.  Disabling may be done when
\* stopping fails, and launchd refuses to boot out what is not loaded.
Stop ==
    /\ pc = "idle"
    /\ \/ def = 0 /\ UNCHANGED manager /\ Return("stop", TRUE)
       \/ /\ def # 0
          /\ StopCommands
          /\ Return("stop", Platform = "linux" \/ unit # 0)
       \/ /\ def # 0 /\ "command" \in Faults
          /\ enabled' \in {FALSE, enabled}
          /\ UNCHANGED <<unit, running, told>>
          /\ Return("stop", FALSE)
    /\ UNCHANGED <<setup, want, def, dirs, todo, ensured>>

-----------------------------------------------------------------------------
\* Uninstall

\* Mutant: the definition is removed without stopping the service first.
UninstallStopSkipped ==
    /\ pc = "idle"
    /\ pc' = "remove"
    /\ ensured' = FALSE
    /\ result' = None
    /\ UNCHANGED <<setup, want, def, unit, running, enabled, dirs, todo, told>>

\* checkSystemdVersion may end the operation; the error of the stop is ignored.
UninstallStop ==
    /\ pc = "idle"
    /\ ensured' = FALSE
    /\ \/ /\ Platform = "linux" /\ "command" \in Faults
          /\ Return("uninstall", FALSE)
          /\ UNCHANGED manager
       \/ /\ pc' = "remove"
          /\ result' = None
          /\ \/ def = 0 /\ UNCHANGED manager
             \/ def # 0 /\ StopCommands
             \/ /\ def # 0 /\ "command" \in Faults
                /\ enabled' \in {FALSE, enabled}
                /\ UNCHANGED <<unit, running, told>>
    /\ UNCHANGED <<setup, want, def, dirs, todo>>

\* The definition is removed, systemd's daemon-reload forgets a unit that does
\* not run, and the runtime directory goes last.
UninstallRemove ==
    /\ pc = "remove"
    /\ \/ /\ def' = 0
          /\ unit' = IF Platform = "linux" /\ running = 0 THEN 0 ELSE unit
          /\ dirs' = IF "runtime" \in Managed THEN Removed(dirs, Below(Path("runtime"))) ELSE dirs
          /\ Return("uninstall", TRUE)
       \/ /\ Platform = "linux" /\ "command" \in Faults
          /\ def' = 0
          /\ Return("uninstall", FALSE)
          /\ UNCHANGED <<unit, dirs>>
       \/ /\ "dirs" \in Faults /\ "runtime" \in Managed
          /\ def' = 0
          /\ unit' = IF Platform = "linux" /\ running = 0 THEN 0 ELSE unit
          /\ Return("uninstall", FALSE)
          /\ UNCHANGED dirs
       \/ /\ "write" \in Faults
          /\ Return("uninstall", FALSE)
          /\ UNCHANGED <<def, unit, dirs>>
    /\ UNCHANGED <<setup, want, running, enabled, todo, ensured, told>>

-----------------------------------------------------------------------------
\* Purge

\* Mutant: the check for nested directories is missing.
PurgeAcceptsAll(selected) == TRUE

\* In user scope the config directory is purged only together with the state
\* and log directories declared below it.
PurgeAccepts(selected) ==
    Scope = "User" /\ "config" \in selected => ({"state", "logs"} \cap Managed) \subseteq selected

\* Config, state and logs are removed in this order, up to the first one that
\* is not declared or cannot be removed; removing may fail half way.
PurgeOrder(selected) ==
    Optional("config", selected) \o Optional("state", selected) \o Optional("logs", selected)

Purge ==
    /\ pc = "idle"
    /\ \E selected \in SUBSET {"config", "state", "logs"} :
         LET seq == PurgeOrder(selected) IN
         /\ PurgeAccepts(selected)
         /\ \E n \in 0..Len(seq) :
              /\ \A i \in 1..n : seq[i] \in Managed
              /\ n < Len(seq) => seq[n + 1] \notin Managed \/ "dirs" \in Faults
              /\ LET done == UNION {Below(Path(seq[i])) : i \in 1..n}
                     half == IF n < Len(seq) /\ seq[n + 1] \in Managed
                             THEN Below(Path(seq[n + 1])) \ {Path(seq[n + 1])} ELSE {}
                 IN \E more \in SUBSET half : dirs' = Removed(dirs, done \cup more)
              /\ result' = [op |-> "purge", ok |-> n = Len(seq), selected |-> selected]
    /\ UNCHANGED <<setup, want, def, pc, todo, ensured>> /\ UNCHANGED manager

-----------------------------------------------------------------------------
Next ==
    \/ Upgrade
    \/ EnsureBegin \/ EnsureDirectory \/ EnsureDefinition \/ EnsureReload \/ EnsureShow
    \/ Start \/ Restart \/ Stop
    \/ UninstallStop \/ UninstallRemove
    \/ Purge

Spec == Init /\ [][Next]_vars

-----------------------------------------------------------------------------
\* Properties

\* Every variable has its type.
TypeOK ==
    /\ setup \in Setups
    /\ want \in 1..MaxSpec
    /\ def \in 0..MaxSpec /\ unit \in 0..MaxSpec /\ running \in 0..MaxSpec
    /\ enabled \in BOOLEAN /\ ensured \in BOOLEAN /\ told \in BOOLEAN
    /\ dirs \in [Paths -> {"absent", "raw", "0600", "0660", "0700", "0750", "0770"}]
    /\ pc \in {"idle", "dirs", "reload", "show", "remove"}
    /\ todo \in Seq(Kinds \cup {"logfile"})
    /\ result \in Results

\* When Ensure succeeds every managed path exists with the mode that
\* reconcileDirectories gives it, whatever earlier attempts left behind.  (In
\* launchd's system scope config and state are one path with two modes: the
\* property is about setups whose paths differ.)
PathsDiffer == \A k, l \in Managed : Path(k) = Path(l) => k = l
DirsReconciled ==
    PathsDiffer /\ result.op = "ensure" /\ result.ok =>
        \A k \in ToSet(Order) : dirs[Path(k)] = Mode(k)

\* After a successful Ensure a process that runs another definition is one that
\* the caller was told to restart (EnsureResult.RestartRequired), in this call
\* or in an earlier one.
\* (The code departs from this: "Departures observed" in the README.)
RestartToldAfterFailure == pc = "idle" /\ ensured /\ running \notin {0, want} => told

\* The same under systemd wherever its commands, the question whether the service
\* is loaded and the sync of the definition's directory do not fail; other steps
\* may.  (launchd restarts what it read at bootstrap.)
Reliable == Platform = "linux" /\ {"sync", "command", "query"} \cap Faults = {}
RestartTold == Reliable => RestartToldAfterFailure

\* After a successful Ensure, a successful Restart under systemd runs the
\* definition that Ensure was called with, under the same conditions.
RestartApplies ==
    /\ Reliable
    /\ result.op = "restart" /\ result.ok /\ ensured
    => running = want

\* When Stop or Uninstall succeeds the service does not run and, under systemd,
\* is not enabled, if the service manager does what it is asked: Uninstall
\* ignores a failed stop.  (launchctl enable also marks a service that has no
\* definition yet, and nothing is disabled without one.)
StopStops ==
    /\ "command" \notin Faults
    /\ result.op \in {"stop", "uninstall"} /\ result.ok
    => running = 0 /\ (Platform = "linux" => ~enabled)

\* What runs, and what the caller has been told about it, follow from the
\* operations that succeeded, whatever operations failed in between.
ManagerFollows == RestartTold /\ RestartApplies /\ StopStops

\* A managed directory disappears only when it was asked for: the runtime
\* directory with Uninstall, any other with a Purge that selects it.  (In user
\* scope the runtime directory lies below the config directory and is not
\* protected from its purge.)
Protected == IF Scope = "User" THEN Managed \ {"runtime"} ELSE Managed
RemovesOnlyAsked ==
    [][PathsDiffer =>
         \A k \in Protected : dirs[Path(k)] # "absent" /\ dirs'[Path(k)] = "absent" =>
           \/ k = "runtime" /\ result'.op = "uninstall"
           \/ result'.op = "purge" /\ k \in result'.selected]_vars
=============================================================================
