------------------------------ MODULE Config --------------------------------
(***************************************************************************)
(* The config package: a Config resolves its fields from the layers        *)
(* default < initial < file < env < flag < set and publishes a snapshot;   *)
(* goroutines of the program call Load, Set and Save on it while others    *)
(* read, somebody edits the file, and the program is started again.        *)
(*                                                                         *)
(* Load and Set hold opMu from beginning to end; Save gives it up once it  *)
(* has its snapshot, and replaces the file by rename afterwards.  A value  *)
(* in Invalid is one that does not convert to the field's type or fails    *)
(* its validator; ValidateConfig accepts the assignments in Allowed.  The  *)
(* layers initial, env and flag do not change while the program runs.      *)
(***************************************************************************)
EXTENDS Integers

CONSTANTS
    Fields,     \* keys of the registry
    Saved,      \* fields with save:"true"
    Required,   \* fields with required:"true"
    Sensitive,  \* fields with sensitive:"true"
    Vals,       \* raw values
    Invalid,    \* values that coerceWithSchema or a FieldValidator refuses
    Unset,      \* no value
    Layers,     \* the layers default, initial, env and flag
    Allowed,    \* assignments that ValidateConfig accepts
    Threads,    \* goroutines
    Edits,      \* documents somebody may put in the file
    Faults,     \* TRUE if writing may fail
    MaxSaves    \* bound: calls of Save

Layer == [Fields -> Vals \cup {Unset}]

ASSUME ConfigConstants ==
    /\ Saved \in SUBSET Fields /\ Required \in SUBSET Fields /\ Sensitive \in SUBSET Fields
    /\ Invalid \in SUBSET Vals /\ Unset \notin Vals
    /\ Layers \in [{"default", "initial", "env", "flag"} -> Layer]
    /\ \A f \in Required : Layers["default"][f] = Unset
    /\ Allowed \in SUBSET Layer
    /\ Edits \in SUBSET Layer
    /\ Faults \in BOOLEAN /\ MaxSaves \in Nat
    /\ Unset \notin Threads

VARIABLES
    file,    \* the file: its document and its mode
    snap,    \* Config.st: the file layer, the values, their origins
    set,     \* Config.set
    opMu,    \* the goroutine that holds opMu, or Unset
    thread,  \* the goroutines
    saves,   \* calls of Save so far
    last     \* the latest Save that has returned without error

vars == <<file, snap, set, opMu, thread, saves, last>>

Empty == [f \in Fields |-> Unset]
NoFile == [doc |-> Empty, mode |-> "absent"]
NoSnap == [loaded |-> FALSE, file |-> Empty, values |-> Empty,
           origins |-> [f \in Fields |-> "none"]]
NoSave == [number |-> 0, snap |-> NoSnap, doc |-> Empty]
Idle == [pc |-> "idle", layer |-> Empty, set |-> Empty, save |-> NoSave]

Init ==
    /\ file = NoFile
    /\ snap = NoSnap /\ set = Empty
    /\ opMu = Unset
    /\ thread = [t \in Threads |-> Idle]
    /\ saves = 0 /\ last = NoSave

-----------------------------------------------------------------------------
\* resolve

Sources == <<"set", "flag", "env", "file", "initial", "default">>
Raw(source, f, fileLayer, setLayer) ==
    IF source = "set" THEN setLayer[f] ELSE IF source = "file" THEN fileLayer[f] ELSE Layers[source][f]

\* The first source, in order of precedence, that has a value.
Winner(f, fileLayer, setLayer) ==
    IF \A i \in DOMAIN Sources : Raw(Sources[i], f, fileLayer, setLayer) = Unset THEN "none"
    ELSE Sources[CHOOSE i \in DOMAIN Sources :
                   /\ Raw(Sources[i], f, fileLayer, setLayer) # Unset
                   /\ \A j \in 1..(i - 1) : Raw(Sources[j], f, fileLayer, setLayer) = Unset]

Resolved(fileLayer, setLayer) ==
    LET origins == [f \in Fields |-> Winner(f, fileLayer, setLayer)]
    IN [loaded |-> TRUE, file |-> fileLayer, origins |-> origins,
        values |-> [f \in Fields |-> IF origins[f] = "none" THEN Unset
                                     ELSE Raw(origins[f], f, fileLayer, setLayer)]]

\* Required fields, conversion and field validators, ValidateConfig.
Accepted(s) ==
    /\ \A f \in Required : s.origins[f] # "none"
    /\ \A f \in Fields : s.values[f] \notin Invalid
    /\ s.values \in Allowed

-----------------------------------------------------------------------------
\* Load

\* Mutant: opMu is given up while the file is read.
LoadReadUnlocked(t) ==
    /\ thread[t].pc = "idle" /\ opMu = Unset
    /\ thread' = [thread EXCEPT ![t] = [Idle EXCEPT !.pc = "loading", !.layer = file.doc, !.set = set]]
    /\ UNCHANGED <<file, snap, set, opMu, saves, last>>

\* opMu, the registry, a copy of the set layer and the file; a missing file is
\* an empty layer.
LoadRead(t) ==
    /\ thread[t].pc = "idle" /\ opMu = Unset
    /\ opMu' = t
    /\ thread' = [thread EXCEPT ![t] = [Idle EXCEPT !.pc = "loading", !.layer = file.doc, !.set = set]]
    /\ UNCHANGED <<file, snap, set, saves, last>>

\* The snapshot is published if it resolves; otherwise the old one stays.
LoadPublish(t) ==
    /\ thread[t].pc = "loading"
    /\ LET new == Resolved(thread[t].layer, thread[t].set)
       IN IF Accepted(new) THEN snap' = new /\ set' = thread[t].set
          ELSE UNCHANGED <<snap, set>>
    /\ opMu' = Unset
    /\ thread' = [thread EXCEPT ![t] = Idle]
    /\ UNCHANGED <<file, saves, last>>

-----------------------------------------------------------------------------
\* Set

\* Mutant: the value is published without validating the whole.
SetUnvalidated(t, f, v) ==
    /\ thread[t].pc = "idle" /\ opMu = Unset
    /\ snap.loaded
    /\ set' = [set EXCEPT ![f] = v]
    /\ snap' = Resolved(snap.file, set')
    /\ UNCHANGED <<file, opMu, thread, saves, last>>

\* Set works on the layers of the snapshot and does not read the file again.
Set(t, f, v) ==
    /\ thread[t].pc = "idle" /\ opMu = Unset
    /\ snap.loaded
    /\ LET newSet == [set EXCEPT ![f] = v]
           new == Resolved(snap.file, newSet)
       IN /\ Accepted(new)
          /\ set' = newSet
          /\ snap' = new
    /\ UNCHANGED <<file, opMu, thread, saves, last>>

-----------------------------------------------------------------------------
\* Save

\* Mutant: only values that were set are written.
WritableSet(s, f) == f \in Saved /\ s.origins[f] = "set"

\* Transient values and sensitive defaults are not written.
Writable(s, f) ==
    /\ f \in Saved
    /\ s.origins[f] \in {"default", "file", "set"}
    /\ f \in Sensitive => s.origins[f] \in {"file", "set"}

Document(s) == [f \in Fields |-> IF Writable(s, f) THEN s.values[f] ELSE Unset]

\* Mutant: the file is made with the mode of any other file.
ModePublic(doc) == "0644"

\* Mutant: the group may read sensitive values.
ModeGroup(doc) == IF \E f \in Sensitive : doc[f] # Unset THEN "0640" ELSE "0644"

Mode(doc) == IF \E f \in Sensitive : doc[f] # Unset THEN "0600" ELSE "0644"

\* The snapshot is taken under opMu.
SaveBegin(t) ==
    /\ thread[t].pc = "idle" /\ opMu = Unset
    /\ snap.loaded
    /\ saves < MaxSaves
    /\ saves' = saves + 1
    /\ thread' = [thread EXCEPT ![t] =
                    [Idle EXCEPT !.pc = "saving",
                                 !.save = [number |-> saves + 1, snap |-> snap, doc |-> Document(snap)]]]
    /\ UNCHANGED <<file, snap, set, opMu, last>>

\* The temporary file is renamed; before that the old file stays.
SaveWrite(t) ==
    /\ thread[t].pc = "saving"
    /\ \/ /\ file' = [doc |-> thread[t].save.doc, mode |-> Mode(thread[t].save.doc)]
          /\ last' = IF thread[t].save.number > last.number THEN thread[t].save ELSE last
       \/ /\ Faults
          /\ UNCHANGED <<file, last>>
    /\ thread' = [thread EXCEPT ![t] = Idle]
    /\ UNCHANGED <<snap, set, opMu, saves>>

-----------------------------------------------------------------------------
\* Somebody writes the file, readable by its owner only.
Edit ==
    /\ \E doc \in Edits : file' = [doc |-> doc, mode |-> "0600"]
    /\ last' = NoSave
    /\ UNCHANGED <<snap, set, opMu, thread, saves>>

\* The program ends and is started again.
Restart ==
    /\ snap' = NoSnap /\ set' = Empty /\ opMu' = Unset
    /\ thread' = [t \in Threads |-> Idle]
    /\ UNCHANGED <<file, saves, last>>

Next ==
    \/ \E t \in Threads : \/ LoadRead(t) \/ LoadPublish(t)
                          \/ \E f \in Fields, v \in Vals : Set(t, f, v)
                          \/ SaveBegin(t) \/ SaveWrite(t)
    \/ Edit
    \/ Restart

Spec == Init /\ [][Next]_vars

-----------------------------------------------------------------------------
\* Properties

Snapshot == [loaded : BOOLEAN, file : Layer, values : Layer,
             origins : [Fields -> {"none", "set", "flag", "env", "file", "initial", "default"}]]

\* Every variable has its type.
TypeOK ==
    /\ file.doc \in Layer /\ file.mode \in {"absent", "0600", "0644"}
    /\ snap \in Snapshot
    /\ set \in Layer
    /\ opMu \in Threads \cup {Unset}
    /\ \A t \in Threads : /\ thread[t].pc \in {"idle", "loading", "saving"}
                          /\ thread[t].layer \in Layer /\ thread[t].set \in Layer
                          /\ thread[t].save.number \in 0..MaxSaves
    /\ saves \in 0..MaxSaves /\ last.number \in 0..MaxSaves

\* A published snapshot always satisfies required fields, conversions and
\* validators, whatever the file says by now and whatever was set in between.
SnapshotAccepted == snap.loaded => Accepted(snap)

\* A value that Set has published stays in force: a Load that ran meanwhile
\* neither forgets it nor lets another layer win.
SetStays == [][\A f \in Fields : set[f] # Unset /\ set'[f] = Unset => ~snap'.loaded]_set

\* Reading back what Save wrote, in the same environment, gives every saved
\* field the value it had, except a value that was set over an environment
\* variable or a flag.
RoundTrip ==
    last # NoSave /\ file.doc = last.doc =>
        LET again == Resolved(file.doc, Empty)
        IN \A f \in Saved :
             \/ again.values[f] = last.snap.values[f]
             \/ /\ last.snap.origins[f] = "set"
                /\ again.origins[f] \in {"env", "flag"}

\* A sensitive value never lies in a file that others can read.
SensitivePrivate == (\E f \in Sensitive : file.doc[f] # Unset) => file.mode = "0600"
=============================================================================
