---------------------------- MODULE BundleFiles ----------------------------
(***************************************************************************)
(* Bundles and requests saved into a directory (CertificateBundle.Save,    *)
(* CSRBundle.Save and atomicSave) by several savers, which may be killed   *)
(* or fail, while a reader loads chain.pem and key.pem.                    *)
(***************************************************************************)
EXTENDS CertChain

CONSTANTS
    Held,        \* [saver -> the bundle it saves, or its request]
    Requesters,  \* the savers that save a request
    Earlier,     \* sets of savers that may be done when the others begin
    MaxFaults    \* bound: deaths and failing writes

Savers == DOMAIN Held
Files == {"certificates", "chain", "fullchain", "key", "request"}

Bundles == [certs: Seq(Certs), leaf: Certs \cup {0}, intermediates: Seq(Certs),
            root: Certs \cup {0}, key: STRING, pass: Passphrases]

\* Savers hold what normalizeBundle makes, with a certificate or a key in it.
ASSUME FilesConstants ==
    /\ IsFiniteSet(Savers)
    /\ Requesters \subseteq Savers
    /\ \A s \in Savers : /\ Held[s] \in Bundles
                         /\ normalizeBundle(Held[s].certs, Held[s].key)
                              = Accepted([Held[s] EXCEPT !.pass = ""])
                         /\ Held[s].certs # <<>> \/ Held[s].key # ""
    /\ Earlier \subseteq SUBSET Savers
    /\ \A s \in Requesters : Held[s].key # ""
    /\ MaxFaults \in Nat

Content(certs, key, pass) == [certs |-> certs, key |-> key, pass |-> pass]
Absent == Content(<<>>, "", "")
Torn == Content(<<0>>, "", "")

KeyFile(b) == <<"key", Content(<<>>, b.key, b.pass)>>

When(condition, file) == IF condition THEN <<file>> ELSE <<>>

\* What Save writes, in its order.
Material == [s \in Savers |->
    LET b == Held[s]
    IN IF s \in Requesters
       THEN << <<"request", Content(<<>>, b.key, "")>>, KeyFile(b) >>
       ELSE When(b.certs # <<>>, <<"certificates", Content(b.certs, "", "")>>)
         \o When(b.leaf # 0, <<"chain", Content(<<b.leaf>> \o b.intermediates, "", "")>>)
         \o When(b.root # 0 /\ b.leaf # 0, <<"fullchain", Content(b.certs, "", "")>>)
         \o When(b.key # "", KeyFile(b))]

VARIABLES
    dir,     \* the files of the directory
    job,     \* what each saver is doing
    temps,   \* temporary files in the directory
    faults,  \* deaths and failures so far
    deaths,  \* history: the deaths among them
    read,    \* the reader: its chain, and the bundle it loaded
    old,     \* history: the target existed when a saver's temporary file was written
    alone    \* history: savers that nobody has interfered with

filesVars == <<dir, job, temps, faults, deaths, read, old, alone>>

Idle == [at |-> "idle", next |-> 1, replace |-> FALSE]
Unread == [chain |-> <<>>, result |-> Refused]

Saved == [Idle EXCEPT !.at = "saved"]

\* The directory is empty, or one of those that are done has saved into it.
FilesInit ==
    /\ \E done \in Earlier :
         /\ dir \in {[f \in Files |-> Absent]} \cup
                {[f \in Files |-> IF \E i \in DOMAIN Material[s] : Material[s][i][1] = f
                                  THEN (CHOOSE m \in ToSet(Material[s]) : m[1] = f)[2]
                                  ELSE Absent] : s \in done}
         /\ job = [s \in Savers |-> IF s \in done THEN Saved ELSE Idle]
         /\ alone = [s \in Savers |-> s \notin done]
    /\ temps = 0
    /\ faults = 0
    /\ deaths = 0
    /\ read = Unread
    /\ old = [s \in Savers |-> FALSE]

Target(s) == Material[s][job[s].next][1]
Exists(f) == dir[f] # Absent
Resting == {"idle", "failed", "saved"}
Advanced(s) == [job EXCEPT ![s] = IF job[s].next = Len(Material[s]) THEN Saved
                                  ELSE [job[s] EXCEPT !.at = "check", !.next = job[s].next + 1]]
Goto(s, at) == job' = [job EXCEPT ![s].at = at]

\* Save is called; a caller whose Save was refused or died may try again.
Begin(s, replace) ==
    /\ job[s].at \in {"idle", "failed"}
    /\ job' = [job EXCEPT ![s] = [at |-> "check", next |-> 1, replace |-> replace]]
    /\ alone' = [alone EXCEPT ![s] = \A q \in Savers \ {s} : job[q].at \in Resting]
    /\ UNCHANGED <<dir, temps, faults, deaths, read, old>>

\* Mutant: a file that is already there is good enough for a retry.
SaveCheckSkips(s) ==
    /\ job[s].at = "check"
    /\ job' = IF Exists(Target(s)) /\ ~job[s].replace
              THEN Advanced(s)
              ELSE [job EXCEPT ![s].at = "write"]
    /\ UNCHANGED <<dir, temps, faults, deaths, read, old, alone>>

\* Mutant: a target that exists is refused whatever the options.
SaveCheckRefuses(s) ==
    /\ job[s].at = "check"
    /\ Goto(s, IF Exists(Target(s)) THEN "failed" ELSE "write")
    /\ UNCHANGED <<dir, temps, faults, deaths, read, old, alone>>

\* The first Lstat of atomicSave.
SaveCheck(s) ==
    /\ job[s].at = "check"
    /\ Goto(s, IF Exists(Target(s)) /\ ~job[s].replace THEN "failed" ELSE "write")
    /\ UNCHANGED <<dir, temps, faults, deaths, read, old, alone>>

\* Mutant: the target itself is opened and written.
SaveWriteInPlace(s) ==
    /\ job[s].at = "write"
    /\ Goto(s, "recheck")
    /\ dir' = [dir EXCEPT ![Target(s)] = Torn]
    /\ temps' = temps + 1
    /\ old' = [old EXCEPT ![s] = Exists(Target(s))]
    /\ UNCHANGED <<faults, deaths, read, alone>>

\* The temporary file is created, written, synced and closed.
SaveWrite(s) ==
    /\ job[s].at = "write"
    /\ Goto(s, "recheck")
    /\ temps' = temps + 1
    /\ old' = [old EXCEPT ![s] = Exists(Target(s))]
    /\ UNCHANGED <<dir, faults, deaths, read, alone>>

\* Mutant: the target is not looked at again.
SaveRecheckNot(s) ==
    /\ job[s].at = "recheck"
    /\ Goto(s, "rename")
    /\ UNCHANGED <<dir, temps, faults, deaths, read, old, alone>>

\* Mutant: the refused file is left behind.
SaveRecheckLitters(s) ==
    LET refused == Exists(Target(s)) /\ ~job[s].replace
    IN /\ job[s].at = "recheck"
       /\ Goto(s, IF refused THEN "failed" ELSE "rename")
       /\ old' = [old EXCEPT ![s] = @ /\ ~refused]
       /\ UNCHANGED <<dir, temps, faults, deaths, read, alone>>

\* The second Lstat; the deferred function removes the temporary file.
SaveRecheck(s) ==
    LET refused == Exists(Target(s)) /\ ~job[s].replace
    IN /\ job[s].at = "recheck"
       /\ Goto(s, IF refused THEN "failed" ELSE "rename")
       /\ temps' = IF refused THEN temps - 1 ELSE temps
       /\ old' = [old EXCEPT ![s] = @ /\ ~refused]
       /\ UNCHANGED <<dir, faults, deaths, read, alone>>

\* The file is published, and Save goes on with the next one.
SaveRename(s) ==
    /\ job[s].at = "rename"
    /\ dir' = [dir EXCEPT ![Target(s)] = Material[s][job[s].next][2]]
    /\ temps' = temps - 1
    /\ job' = Advanced(s)
    /\ alone' = [q \in Savers |-> alone[q] /\ (q = s \/ job[q].at \in {"idle", "failed"})]
    /\ old' = [old EXCEPT ![s] = FALSE]
    /\ UNCHANGED <<faults, deaths, read>>

\* Mutant: the temporary file is removed although none was made.
SaveFailRemoves(s) ==
    /\ job[s].at \in {"write", "rename"}
    /\ faults < MaxFaults
    /\ faults' = faults + 1
    /\ job' = [job EXCEPT ![s] = [Idle EXCEPT !.at = "failed"]]
    /\ temps' = temps - 1
    /\ old' = [old EXCEPT ![s] = FALSE]
    /\ UNCHANGED <<dir, deaths, read, alone>>

\* Mutant: only the checks remove the temporary file, a failed rename does not.
SaveFailLitters(s) ==
    /\ job[s].at \in {"write", "rename"}
    /\ faults < MaxFaults
    /\ faults' = faults + 1
    /\ job' = [job EXCEPT ![s] = [Idle EXCEPT !.at = "failed"]]
    /\ old' = [old EXCEPT ![s] = FALSE]
    /\ UNCHANGED <<dir, temps, deaths, read, alone>>

\* Writing or renaming fails: Save returns the error, and the deferred function
\* removes the temporary file.
SaveFail(s) ==
    /\ job[s].at \in {"write", "rename"}
    /\ faults < MaxFaults
    /\ faults' = faults + 1
    /\ job' = [job EXCEPT ![s] = [Idle EXCEPT !.at = "failed"]]
    /\ temps' = IF job[s].at = "rename" THEN temps - 1 ELSE temps
    /\ old' = [old EXCEPT ![s] = FALSE]
    /\ UNCHANGED <<dir, deaths, read, alone>>

\* The saver dies, and its temporary file stays.
Die(s) ==
    /\ job[s].at \notin Resting
    /\ faults < MaxFaults
    /\ faults' = faults + 1
    /\ deaths' = deaths + 1
    /\ job' = [job EXCEPT ![s] = Idle]
    /\ \E left \in IF job[s].at = "write" THEN {0, 1} ELSE {0} : temps' = temps + left
    /\ old' = [old EXCEPT ![s] = FALSE]
    /\ UNCHANGED <<dir, read, alone>>

\* LoadBundle with the paths of chain.pem and key.pem: two reads.
LoadCertificates ==
    /\ read.chain = <<>> /\ Exists("chain")
    /\ read' = [chain |-> dir["chain"].certs, result |-> Refused]
    /\ UNCHANGED <<dir, job, temps, faults, deaths, old, alone>>

\* Mutant: the key is put beside certificates that were checked without it.
LoadKeyBeside ==
    LET r == normalizeBundle(read.chain, "")
    IN /\ read.chain # <<>>
       /\ read' = [chain |-> <<>>,
                   result |-> IF ~Exists("key") \/ ~r.ok THEN Refused
                              ELSE Accepted([r.bundle EXCEPT !.key = dir["key"].key,
                                                             !.pass = dir["key"].pass])]
       /\ UNCHANGED <<dir, job, temps, faults, deaths, old, alone>>

LoadKey ==
    LET r == normalizeBundle(read.chain, dir["key"].key)
    IN /\ read.chain # <<>>
       /\ read' = [chain |-> <<>>,
                   result |-> IF ~Exists("key") \/ ~r.ok THEN Refused
                              ELSE Accepted([r.bundle EXCEPT !.pass = dir["key"].pass])]
       /\ UNCHANGED <<dir, job, temps, faults, deaths, old, alone>>

FilesNext ==
    \/ \E s \in Savers :
          \/ \E replace \in BOOLEAN : Begin(s, replace)
          \/ SaveCheck(s) \/ SaveWrite(s) \/ SaveRecheck(s) \/ SaveRename(s)
          \/ SaveFail(s) \/ Die(s)
    \/ LoadCertificates \/ LoadKey

\* Savers are scheduled, and their callers try again with WithReplace.
FilesFairness ==
    \A s \in Savers :
        /\ WF_filesVars(SaveCheck(s) \/ SaveWrite(s) \/ SaveRecheck(s) \/ SaveRename(s))
        /\ SF_filesVars(Begin(s, TRUE))

FilesSpec == FilesInit /\ [][FilesNext]_filesVars /\ FilesFairness

-----------------------------------------------------------------------------
\* Properties

\* Savers work through their material.
FilesTypeOK ==
    /\ DOMAIN dir = Files
    /\ \A s \in Savers : /\ job[s].at \in Resting \cup {"check", "write", "recheck", "rename"}
                         /\ job[s].next \in DOMAIN Material[s]
    /\ faults \in 0..MaxFaults /\ deaths \in 0..faults
    /\ temps \in Nat

\* Every file is whole and belongs to a bundle that somebody saves: a killed
\* saver leaves the old file or the new one.
WholeFiles ==
    \A f \in Files : Exists(f) => \E s \in Savers : Contains(Material[s], <<f, dir[f]>>)

\* A directory in which savers were interrupted or overtook each other holds
\* files of different bundles; a reader gets an error or a key for its leaf.
LoadedFits ==
    read.result.ok => /\ read.result.bundle.leaf # 0
                      /\ Cert[read.result.bundle.leaf].key = read.result.bundle.key

\* After a successful Save that nobody interfered with, the directory holds all
\* that was to be saved, whatever earlier attempts had left there.
SavedWhole ==
    \A s \in Savers :
        job[s].at = "saved" /\ alone[s] =>
            \A i \in DOMAIN Material[s] : dir[Material[s][i][1]] = Material[s][i][2]

\* Temporary files are left behind by killed savers only, at most one each; a
\* Save that fails or is refused removes its own.
NoLitter ==
    temps <= deaths + Cardinality({s \in Savers : job[s].at \in {"recheck", "rename"}})

\* Without WithReplace a file is not replaced that existed when the new one
\* had been written.  (One that appears between the second Lstat and the
\* rename is replaced.)
NoReplaceKeeps ==
    [][\A s \in Savers :
         job[s].at = "rename" /\ ~job[s].replace /\ old[s]
            => dir'[Target(s)] = dir[Target(s)] \/ job'[s].at = "rename"]_filesVars

\* Retrying with WithReplace succeeds in the end, wherever attempts stopped.
RetrySucceeds == \A s \in Savers : <>(job[s].at = "saved")
=============================================================================
