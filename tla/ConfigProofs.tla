---------------------------- MODULE ConfigProofs ----------------------------
(***************************************************************************)
(* Proofs about the config package.  Snapshots: for any fields, layers,    *)
(* validators, goroutines and edits of the file, what is published was     *)
(* accepted and what was set stays.  The log buffer loses no record        *)
(* without counting it.  Integers are taken as they are or refused, keys   *)
(* are of one field each, and what was saved reads back.                   *)
(***************************************************************************)
EXTENDS MCConfig, FiniteSetTheorems, SequenceTheorems, WellFoundedInduction, TLAPS

Origin == {"none", "set", "flag", "env", "file", "initial", "default"}
SaveCall == [number: 0..MaxSaves, snap: Snapshot, doc: Layer]
Goroutine == [pc: {"idle", "loading", "saving"}, layer: Layer, set: Layer, save: SaveCall]

Types ==
    /\ file \in [doc: Layer, mode: {"absent", "0600", "0644"}]
    /\ snap \in Snapshot /\ set \in Layer
    /\ opMu \in Threads \cup {Unset}
    /\ thread \in [Threads -> Goroutine]
    /\ saves \in 0..MaxSaves /\ last \in SaveCall

(***************************************************************************)
(* A snapshot is what resolve makes of two layers; a Save writes the       *)
(* document of such a snapshot; a Load that has read the file holds opMu,  *)
(* so that nothing was set since.                                          *)
(***************************************************************************)
Resolves(s) == \E l, m \in Layer : s = Resolved(l, m)
SaveOK(x) == x.doc = Document(x.snap) /\ Resolves(x.snap)
LoadOK(t) == thread[t].pc = "loading" => opMu = t /\ thread[t].set = set

Inv ==
    /\ Types
    /\ \A t \in Threads : LoadOK(t) /\ (thread[t].pc = "saving" => SaveOK(thread[t].save))
    /\ snap.loaded => Resolves(snap) /\ Accepted(snap)
    /\ last # NoSave => SaveOK(last)
    /\ SensitivePrivate

-----------------------------------------------------------------------------
\* resolve

\* The winner is the first source in the order of precedence with a value.
LEMMA WinnerIs ==
  ASSUME NEW f, NEW l, NEW m
  PROVE  Winner(f, l, m) =
           IF m[f] # Unset THEN "set"
           ELSE IF Layers["flag"][f] # Unset THEN "flag"
           ELSE IF Layers["env"][f] # Unset THEN "env"
           ELSE IF l[f] # Unset THEN "file"
           ELSE IF Layers["initial"][f] # Unset THEN "initial"
           ELSE IF Layers["default"][f] # Unset THEN "default"
           ELSE "none"
<1> DEFINE R(i) == Raw(Sources[i], f, l, m)
           First(i) == R(i) # Unset /\ \A j \in 1..(i - 1) : R(j) = Unset
           w == CHOOSE i \in DOMAIN Sources :
                  Raw(Sources[i], f, l, m) # Unset
                  /\ \A j \in 1..(i - 1) : Raw(Sources[j], f, l, m) = Unset
<1>1. /\ DOMAIN Sources = 1..6
      /\ Sources[1] = "set" /\ Sources[2] = "flag" /\ Sources[3] = "env"
      /\ Sources[4] = "file" /\ Sources[5] = "initial" /\ Sources[6] = "default"
  BY DEF Sources
<1>2. /\ R(1) = m[f] /\ R(2) = Layers["flag"][f] /\ R(3) = Layers["env"][f]
      /\ R(4) = l[f] /\ R(5) = Layers["initial"][f] /\ R(6) = Layers["default"][f]
  BY <1>1 DEF Raw
<1>3. Winner(f, l, m) = IF \A i \in 1..6 : R(i) = Unset THEN "none" ELSE Sources[w]
  BY <1>1 DEF Winner
<1>4. ASSUME NEW i \in 1..6, First(i) PROVE w = i
  <2>1. w \in 1..6 /\ First(w)
    BY <1>1, <1>4
  <2> HIDE DEF w, R
  <2>2. ~(w < i) /\ ~(i < w)
    BY <1>4, <2>1
  <2> QED BY <2>1, <2>2
<1> HIDE DEF w
<1>5. CASE R(1) # Unset
  <2>1. First(1)
    BY <1>5
  <2>2. w = 1
    BY <2>1, <1>4
  <2>3. Winner(f, l, m) = "set"
    BY <1>1, <1>3, <1>5, <2>2
  <2> QED BY <1>2, <1>5, <2>3
<1>6. CASE R(1) = Unset /\ R(2) # Unset
  <2>1. First(2)
    BY <1>6
  <2>2. w = 2
    BY <2>1, <1>4
  <2>3. Winner(f, l, m) = "flag"
    BY <1>1, <1>3, <1>6, <2>2
  <2> QED BY <1>2, <1>6, <2>3
<1>7. CASE R(1) = Unset /\ R(2) = Unset /\ R(3) # Unset
  <2>1. First(3)
    BY <1>7
  <2>2. w = 3
    BY <2>1, <1>4
  <2>3. Winner(f, l, m) = "env"
    BY <1>1, <1>3, <1>7, <2>2
  <2> QED BY <1>2, <1>7, <2>3
<1>8. CASE R(1) = Unset /\ R(2) = Unset /\ R(3) = Unset /\ R(4) # Unset
  <2>1. First(4)
    BY <1>8
  <2>2. w = 4
    BY <2>1, <1>4
  <2>3. Winner(f, l, m) = "file"
    BY <1>1, <1>3, <1>8, <2>2
  <2> QED BY <1>2, <1>8, <2>3
<1>9. CASE /\ R(1) = Unset /\ R(2) = Unset /\ R(3) = Unset /\ R(4) = Unset
           /\ R(5) # Unset
  <2>1. First(5)
    BY <1>9
  <2>2. w = 5
    BY <2>1, <1>4
  <2>3. Winner(f, l, m) = "initial"
    BY <1>1, <1>3, <1>9, <2>2
  <2> QED BY <1>2, <1>9, <2>3
<1>10. CASE /\ R(1) = Unset /\ R(2) = Unset /\ R(3) = Unset /\ R(4) = Unset
            /\ R(5) = Unset /\ R(6) # Unset
  <2>1. First(6)
    BY <1>10
  <2>2. w = 6
    BY <2>1, <1>4
  <2>3. Winner(f, l, m) = "default"
    BY <1>1, <1>3, <1>10, <2>2
  <2> QED BY <1>2, <1>10, <2>3
<1>11. CASE /\ R(1) = Unset /\ R(2) = Unset /\ R(3) = Unset /\ R(4) = Unset
            /\ R(5) = Unset /\ R(6) = Unset
  <2>1. \A i \in 1..6 : R(i) = Unset
    BY <1>11
  <2>2. Winner(f, l, m) = "none"
    BY <1>3, <2>1
  <2> QED BY <1>2, <1>11, <2>2
<1> QED BY <1>5, <1>6, <1>7, <1>8, <1>9, <1>10, <1>11

\* Precedence, field by field.
LEMMA ResolvedIs ==
  ASSUME NEW l \in Layer, NEW m \in Layer, NEW f \in Fields
  PROVE  LET s == Resolved(l, m) IN
         /\ s.origins[f] = Winner(f, l, m)
         /\ s.values[f] = IF m[f] # Unset THEN m[f]
                          ELSE IF Layers["flag"][f] # Unset THEN Layers["flag"][f]
                          ELSE IF Layers["env"][f] # Unset THEN Layers["env"][f]
                          ELSE IF l[f] # Unset THEN l[f]
                          ELSE IF Layers["initial"][f] # Unset THEN Layers["initial"][f]
                          ELSE Layers["default"][f]
<1> DEFINE s == Resolved(l, m)
           g == Winner(f, l, m)
<1>1. s.origins[f] = g /\ s.values[f] = IF g = "none" THEN Unset ELSE Raw(g, f, l, m)
  BY DEF Resolved
<1>2. g = IF m[f] # Unset THEN "set"
          ELSE IF Layers["flag"][f] # Unset THEN "flag"
          ELSE IF Layers["env"][f] # Unset THEN "env"
          ELSE IF l[f] # Unset THEN "file"
          ELSE IF Layers["initial"][f] # Unset THEN "initial"
          ELSE IF Layers["default"][f] # Unset THEN "default"
          ELSE "none"
  BY WinnerIs
<1> HIDE DEF g, s
<1>3. s.values[f] = IF m[f] # Unset THEN m[f]
                    ELSE IF Layers["flag"][f] # Unset THEN Layers["flag"][f]
                    ELSE IF Layers["env"][f] # Unset THEN Layers["env"][f]
                    ELSE IF l[f] # Unset THEN l[f]
                    ELSE IF Layers["initial"][f] # Unset THEN Layers["initial"][f]
                    ELSE Layers["default"][f]
  BY <1>1, <1>2 DEF Raw
<1> QED BY <1>1, <1>3 DEF s, g

LEMMA LayerTypes ==
  /\ \A x \in {"default", "initial", "env", "flag"} : Layers[x] \in Layer
  /\ Empty \in Layer
  /\ \A l \in Layer, f \in Fields : l[f] \in Vals \cup {Unset}
  BY ConfigConstants DEF Layer, Empty

LEMMA ResolvedType ==
  ASSUME NEW l \in Layer, NEW m \in Layer
  PROVE  Resolved(l, m) \in Snapshot /\ Resolved(l, m).loaded = TRUE /\ Resolved(l, m).file = l
<1> DEFINE s == Resolved(l, m)
           origins == [f \in Fields |-> Winner(f, l, m)]
           won == [f \in Fields |-> IF origins[f] = "none" THEN Unset ELSE Raw(origins[f], f, l, m)]
<1>1. s = [loaded |-> TRUE, file |-> l, origins |-> origins, values |-> won]
  BY DEF Resolved
<1>2. s.origins = origins /\ s.values = won /\ s.loaded = TRUE /\ s.file = l
  BY <1>1
<1>3. ASSUME NEW f \in Fields PROVE s.values[f] \in Vals \cup {Unset} /\ s.origins[f] \in Origin
  <2>1. /\ m[f] \in Vals \cup {Unset} /\ l[f] \in Vals \cup {Unset}
        /\ Layers["flag"][f] \in Vals \cup {Unset} /\ Layers["env"][f] \in Vals \cup {Unset}
        /\ Layers["initial"][f] \in Vals \cup {Unset} /\ Layers["default"][f] \in Vals \cup {Unset}
    BY LayerTypes
  <2>2. s.values[f] \in Vals \cup {Unset}
    BY <2>1, ResolvedIs
  <2>3. Winner(f, l, m) \in Origin
    BY WinnerIs DEF Origin
  <2>4. s.origins[f] = Winner(f, l, m)
    BY <1>2
  <2> HIDE DEF s
  <2> QED BY <2>2, <2>3, <2>4
<1>4. origins \in [Fields -> Origin]
  BY <1>2, <1>3
<1>5. won \in [Fields -> Vals \cup {Unset}]
  BY <1>2, <1>3
<1> HIDE DEF origins, won
<1> QED BY <1>1, <1>4, <1>5 DEF Snapshot, Layer, Origin

\* What Save makes of a snapshot is a file layer.
LEMMA DocumentType ==
  ASSUME NEW s \in Snapshot
  PROVE  Document(s) \in Layer
  BY DEF Document, Snapshot, Layer

\* Reading the document of a snapshot back, with nothing set, in the same
\* environment.
LEMMA ReadBack ==
  ASSUME NEW s, Resolves(s), NEW f \in Saved
  PROVE  LET again == Resolved(Document(s), Empty) IN
         \/ again.values[f] = s.values[f]
         \/ s.origins[f] = "set" /\ again.origins[f] \in {"env", "flag"}
<1> DEFINE d == Document(s)
           again == Resolved(d, Empty)
<1>1. PICK l \in Layer, m \in Layer : s = Resolved(l, m)
  BY DEF Resolves
<1>2. f \in Fields
  BY ConfigConstants
<1>3. s \in Snapshot
  BY <1>1, ResolvedType
<1>4. d \in Layer /\ Empty \in Layer /\ Empty[f] = Unset
  BY <1>2, <1>3, DocumentType, LayerTypes DEF Empty
<1>5. d[f] = IF Writable(s, f) THEN s.values[f] ELSE Unset
  BY <1>2 DEF Document
<1>6. /\ s.origins[f] = Winner(f, l, m)
      /\ s.values[f] = IF m[f] # Unset THEN m[f]
                       ELSE IF Layers["flag"][f] # Unset THEN Layers["flag"][f]
                       ELSE IF Layers["env"][f] # Unset THEN Layers["env"][f]
                       ELSE IF l[f] # Unset THEN l[f]
                       ELSE IF Layers["initial"][f] # Unset THEN Layers["initial"][f]
                       ELSE Layers["default"][f]
  BY <1>1, <1>2, ResolvedIs
<1>7. Winner(f, l, m) =
           IF m[f] # Unset THEN "set"
           ELSE IF Layers["flag"][f] # Unset THEN "flag"
           ELSE IF Layers["env"][f] # Unset THEN "env"
           ELSE IF l[f] # Unset THEN "file"
           ELSE IF Layers["initial"][f] # Unset THEN "initial"
           ELSE IF Layers["default"][f] # Unset THEN "default"
           ELSE "none"
  BY WinnerIs
<1> HIDE DEF d
<1>8. /\ again.origins[f] = Winner(f, d, Empty)
      /\ again.values[f] = IF Layers["flag"][f] # Unset THEN Layers["flag"][f]
                           ELSE IF Layers["env"][f] # Unset THEN Layers["env"][f]
                           ELSE IF d[f] # Unset THEN d[f]
                           ELSE IF Layers["initial"][f] # Unset THEN Layers["initial"][f]
                           ELSE Layers["default"][f]
  BY <1>2, <1>4, ResolvedIs
<1>9. Winner(f, d, Empty) =
           IF Layers["flag"][f] # Unset THEN "flag"
           ELSE IF Layers["env"][f] # Unset THEN "env"
           ELSE IF d[f] # Unset THEN "file"
           ELSE IF Layers["initial"][f] # Unset THEN "initial"
           ELSE IF Layers["default"][f] # Unset THEN "default"
           ELSE "none"
  BY <1>4, WinnerIs
<1>10. Writable(s, f) <=> /\ s.origins[f] \in {"default", "file", "set"}
                          /\ f \in Sensitive => s.origins[f] \in {"file", "set"}
  BY DEF Writable
<1> HIDE DEF again
<1>11. \/ again.values[f] = s.values[f]
       \/ s.origins[f] = "set" /\ again.origins[f] \in {"env", "flag"}
  BY <1>5, <1>6, <1>7, <1>8, <1>9, <1>10
<1> QED BY <1>11 DEF again, d

-----------------------------------------------------------------------------
\* The invariant

LEMMA NothingTypes ==
  /\ Empty \in Layer /\ NoSnap \in Snapshot /\ NoSave \in SaveCall /\ Idle \in Goroutine
  /\ NoSnap.loaded = FALSE /\ Idle.pc = "idle" /\ NoFile.doc = Empty
  /\ NoFile \in [doc: Layer, mode: {"absent", "0600", "0644"}]
<1>1. Empty \in Layer
  BY LayerTypes
<1>2. NoSnap \in Snapshot /\ NoSnap.loaded = FALSE
  BY <1>1 DEF NoSnap, Snapshot
<1>3. NoSave \in SaveCall
  BY <1>1, <1>2, ConfigConstants DEF NoSave, SaveCall
<1>4. Idle \in Goroutine /\ Idle.pc = "idle"
  BY <1>1, <1>3 DEF Idle, Goroutine
<1>5. NoFile.doc = Empty /\ NoFile \in [doc: Layer, mode: {"absent", "0600", "0644"}]
  BY <1>1 DEF NoFile
<1> QED BY <1>1, <1>2, <1>3, <1>4, <1>5

LEMMA InitInv ==
  Init => Inv
<1> SUFFICES ASSUME Init PROVE Inv
  OBVIOUS
<1>1. /\ file = NoFile /\ snap = NoSnap /\ set = Empty /\ opMu = Unset
      /\ thread = [t \in Threads |-> Idle] /\ saves = 0 /\ last = NoSave
  BY DEF Init
<1>2. Types
  BY <1>1, NothingTypes, ConfigConstants DEF Types
<1>3. \A t \in Threads : thread[t].pc = "idle"
  BY <1>1, NothingTypes
<1>4. SensitivePrivate
  <2>1. \A f \in Sensitive : file.doc[f] = Unset
    BY <1>1, NothingTypes, ConfigConstants DEF Empty
  <2> QED BY <2>1 DEF SensitivePrivate
<1> QED BY <1>1, <1>2, <1>3, <1>4, NothingTypes DEF Inv, LoadOK

\* A step of one goroutine: what it must establish of itself and of the others.
LEMMA Assemble ==
  ASSUME Inv, NEW t \in Threads, NEW c \in Goroutine, thread' = [thread EXCEPT ![t] = c],
         Types', c.pc = "loading" => opMu' = t /\ c.set = set',
         c.pc = "saving" => SaveOK(c.save),
         \A u \in Threads \ {t} : thread[u].pc = "loading" => opMu' = u /\ thread[u].set = set',
         snap'.loaded => Resolves(snap') /\ Accepted(snap'),
         last' # NoSave => SaveOK(last'),
         SensitivePrivate'
  PROVE  Inv'
<1>1. thread \in [Threads -> Goroutine]
  BY DEF Inv, Types
<1>2. thread'[t] = c /\ \A u \in Threads : u # t => thread'[u] = thread[u]
  BY <1>1
<1>3. ASSUME NEW u \in Threads
      PROVE  /\ thread'[u].pc = "loading" => opMu' = u /\ thread'[u].set = set'
             /\ thread'[u].pc = "saving" => SaveOK(thread'[u].save)
  <2>1. CASE u = t
    BY <1>2, <2>1
  <2>2. CASE u # t
    BY <1>2, <2>2 DEF Inv
  <2> QED BY <2>1, <2>2
<1>4. (snap.loaded => Resolves(snap) /\ Accepted(snap))' /\ (last # NoSave => SaveOK(last))'
  BY DEF Resolves, SaveOK, Accepted, NoSave, NoSnap, Empty
<1>5. \A u \in Threads : LoadOK(u)'
  BY <1>3 DEF LoadOK
<1>6. \A u \in Threads : (thread[u].pc = "saving" => SaveOK(thread[u].save))'
  BY <1>3 DEF SaveOK, Resolves
<1> QED BY <1>4, <1>5, <1>6 DEF Inv

\* While opMu is free nobody is between reading the file and publishing.
LEMMA NobodyLoads ==
  ASSUME Inv, opMu = Unset
  PROVE  \A u \in Threads : thread[u].pc # "loading"
  BY ConfigConstants DEF Inv, LoadOK

LEMMA LoadInv ==
  ASSUME Inv, NEW t \in Threads, LoadRead(t) \/ LoadPublish(t)
  PROVE  Inv'
<1>1. /\ file \in [doc: Layer, mode: {"absent", "0600", "0644"}] /\ file.doc \in Layer
      /\ snap \in Snapshot /\ set \in Layer /\ opMu \in Threads \cup {Unset}
      /\ thread \in [Threads -> Goroutine] /\ thread[t] \in Goroutine
      /\ saves \in 0..MaxSaves /\ last \in SaveCall
  BY DEF Inv, Types
<1>2. CASE LoadRead(t)
  <2> DEFINE c == [Idle EXCEPT !.pc = "loading", !.layer = file.doc, !.set = set]
  <2>1. /\ opMu = Unset /\ opMu' = t /\ thread' = [thread EXCEPT ![t] = c]
        /\ UNCHANGED <<file, snap, set, saves, last>>
    BY <1>2 DEF LoadRead
  <2>2. c \in Goroutine /\ c.pc = "loading" /\ c.set = set
    BY <1>1, NothingTypes DEF Goroutine
  <2> HIDE DEF c
  <2>3. Types'
    BY <1>1, <2>1, <2>2 DEF Types
  <2>4. \A u \in Threads : thread[u].pc # "loading"
    BY <2>1, NobodyLoads
  <2>5. SensitivePrivate' /\ (last' # NoSave => SaveOK(last'))
        /\ (snap'.loaded => Resolves(snap') /\ Accepted(snap'))
    BY <2>1 DEF Inv, SensitivePrivate
  <2> QED BY <2>1, <2>2, <2>3, <2>4, <2>5, Assemble
<1>3. CASE LoadPublish(t)
  <2> DEFINE new == Resolved(thread[t].layer, thread[t].set)
  <2>1. /\ thread[t].pc = "loading" /\ opMu' = Unset /\ thread' = [thread EXCEPT ![t] = Idle]
        /\ UNCHANGED <<file, saves, last>>
        /\ \/ Accepted(new) /\ snap' = new /\ set' = thread[t].set
           \/ UNCHANGED <<snap, set>>
    BY <1>3 DEF LoadPublish
  <2>2. thread[t].layer \in Layer /\ thread[t].set \in Layer
    BY <1>1 DEF Goroutine
  <2>3. new \in Snapshot /\ Resolves(new)
    BY <2>2, ResolvedType DEF Resolves
  <2> HIDE DEF new
  <2>4. Types'
    BY <1>1, <2>1, <2>2, <2>3, NothingTypes DEF Types
  <2>5. opMu = t /\ \A u \in Threads \ {t} : thread[u].pc # "loading"
    BY <2>1 DEF Inv, LoadOK
  <2>6. SensitivePrivate' /\ (last' # NoSave => SaveOK(last'))
    BY <2>1 DEF Inv, SensitivePrivate
  <2>7. snap'.loaded => Resolves(snap') /\ Accepted(snap')
    BY <2>1, <2>3 DEF Inv
  <2> QED BY <2>1, <2>4, <2>5, <2>6, <2>7, NothingTypes, Assemble
<1> QED BY <1>2, <1>3

LEMMA SetInv ==
  ASSUME Inv, NEW t \in Threads, NEW f \in Fields, NEW v \in Vals, Set(t, f, v)
  PROVE  Inv'
<1> DEFINE newSet == [set EXCEPT ![f] = v]
           new == Resolved(snap.file, newSet)
<1>1. /\ file \in [doc: Layer, mode: {"absent", "0600", "0644"}]
      /\ snap \in Snapshot /\ set \in Layer /\ opMu \in Threads \cup {Unset}
      /\ thread \in [Threads -> Goroutine]
      /\ saves \in 0..MaxSaves /\ last \in SaveCall
  BY DEF Inv, Types
<1>2. /\ opMu = Unset /\ Accepted(new) /\ set' = newSet /\ snap' = new
      /\ UNCHANGED <<file, opMu, thread, saves, last>>
  BY DEF Set
<1>3. newSet \in Layer /\ snap.file \in Layer
  BY <1>1 DEF Layer, Snapshot
<1> HIDE DEF newSet
<1>4. new \in Snapshot /\ Resolves(new)
  BY <1>3, ResolvedType DEF Resolves
<1> HIDE DEF new
<1>5. Types'
  BY <1>1, <1>2, <1>3, <1>4 DEF Types
<1>6. \A u \in Threads : thread[u].pc # "loading"
  BY <1>2, NobodyLoads
<1>7. SensitivePrivate' /\ (last' # NoSave => SaveOK(last'))
  BY <1>2 DEF Inv, SensitivePrivate
<1>8. thread' = [thread EXCEPT ![t] = thread[t]] /\ thread[t] \in Goroutine
  BY <1>1, <1>2
<1>9. thread[t].pc = "saving" => SaveOK(thread[t].save)
  BY DEF Inv
<1> QED BY <1>2, <1>4, <1>5, <1>6, <1>7, <1>8, <1>9, Assemble

LEMMA SaveInv ==
  ASSUME Inv, NEW t \in Threads, SaveBegin(t) \/ SaveWrite(t)
  PROVE  Inv'
<1>1. /\ file \in [doc: Layer, mode: {"absent", "0600", "0644"}]
      /\ snap \in Snapshot /\ set \in Layer /\ opMu \in Threads \cup {Unset}
      /\ thread \in [Threads -> Goroutine] /\ thread[t] \in Goroutine
      /\ saves \in 0..MaxSaves /\ last \in SaveCall /\ MaxSaves \in Nat
  BY ConfigConstants DEF Inv, Types
<1>2. CASE SaveBegin(t)
  <2> DEFINE x == [number |-> saves + 1, snap |-> snap, doc |-> Document(snap)]
             c == [Idle EXCEPT !.pc = "saving", !.save = x]
  <2>1. /\ snap.loaded /\ saves < MaxSaves /\ saves' = saves + 1
        /\ thread' = [thread EXCEPT ![t] = c]
        /\ UNCHANGED <<file, snap, set, opMu, last>>
    BY <1>2 DEF SaveBegin
  <2>2. saves + 1 \in 0..MaxSaves
    BY <1>1, <2>1
  <2>3. x \in SaveCall /\ x.doc = Document(x.snap) /\ x.snap = snap
    BY <1>1, <2>2, DocumentType DEF SaveCall
  <2> HIDE DEF x
  <2>4. c \in Goroutine /\ c.pc = "saving" /\ c.save = x
    BY <2>3, NothingTypes DEF Goroutine
  <2> HIDE DEF c
  <2>5. SaveOK(c.save)
    BY <2>1, <2>3, <2>4 DEF Inv, SaveOK
  <2>6. Types'
    BY <1>1, <2>1, <2>2, <2>4 DEF Types
  <2>7. SensitivePrivate' /\ (last' # NoSave => SaveOK(last'))
        /\ (snap'.loaded => Resolves(snap') /\ Accepted(snap'))
    BY <2>1 DEF Inv, SensitivePrivate
  <2>8. \A u \in Threads : thread[u].pc = "loading" => opMu' = u /\ thread[u].set = set'
    BY <2>1 DEF Inv, LoadOK
  <2> QED BY <2>1, <2>4, <2>5, <2>6, <2>7, <2>8, Assemble
<1>3. CASE SaveWrite(t)
  <2> DEFINE x == thread[t].save
  <2>1. /\ thread[t].pc = "saving" /\ thread' = [thread EXCEPT ![t] = Idle]
        /\ UNCHANGED <<snap, set, opMu, saves>>
        /\ \/ file' = [doc |-> x.doc, mode |-> Mode(x.doc)] /\ last' \in {x, last}
           \/ UNCHANGED <<file, last>>
    BY <1>3 DEF SaveWrite
  <2>2. x \in SaveCall /\ x.doc \in Layer /\ SaveOK(x)
    BY <1>1, <2>1 DEF Goroutine, SaveCall, Inv
  <2> HIDE DEF x
  <2>3. Mode(x.doc) \in {"0600", "0644"} /\ ((\E f \in Sensitive : x.doc[f] # Unset) => Mode(x.doc) = "0600")
    BY DEF Mode
  <2>4. file' \in [doc: Layer, mode: {"absent", "0600", "0644"}]
    BY <1>1, <2>1, <2>2, <2>3
  <2>5. Types'
    BY <1>1, <2>1, <2>2, <2>4, NothingTypes DEF Types
  <2>6. SensitivePrivate'
    <3>1. CASE file' = [doc |-> x.doc, mode |-> Mode(x.doc)]
      <4>1. file'.doc = x.doc /\ file'.mode = Mode(x.doc)
        BY <3>1
      <4> QED BY <2>3, <4>1 DEF SensitivePrivate
    <3>2. CASE file' = file
      BY <3>2 DEF Inv, SensitivePrivate
    <3> QED BY <2>1, <3>1, <3>2
  <2>7. (last' # NoSave => SaveOK(last')) /\ (snap'.loaded => Resolves(snap') /\ Accepted(snap'))
    BY <2>1, <2>2 DEF Inv
  <2>8. \A u \in Threads : thread[u].pc = "loading" => opMu' = u /\ thread[u].set = set'
    BY <2>1 DEF Inv, LoadOK
  <2> QED BY <2>1, <2>5, <2>6, <2>7, <2>8, NothingTypes, Assemble
<1> QED BY <1>2, <1>3

LEMMA OutsideInv ==
  ASSUME Inv, Edit \/ Restart
  PROVE  Inv'
<1>1. Types
  BY DEF Inv
<1>2. CASE Edit
  <2>1. PICK doc \in Edits : file' = [doc |-> doc, mode |-> "0600"]
    BY <1>2 DEF Edit
  <2>2. last' = NoSave /\ UNCHANGED <<snap, set, opMu, thread, saves>>
    BY <1>2 DEF Edit
  <2>3. doc \in Layer
    BY ConfigConstants
  <2>4. Types'
    BY <1>1, <2>1, <2>2, <2>3, NothingTypes DEF Types
  <2>5. file'.mode = "0600"
    BY <2>1
  <2>6. SensitivePrivate'
    BY <2>5 DEF SensitivePrivate
  <2>7. (snap.loaded => Resolves(snap) /\ Accepted(snap))' /\ (last # NoSave => SaveOK(last))'
    BY <2>2 DEF Inv, Resolves, Accepted, SaveOK, NoSave, NoSnap, Empty
  <2>8. (\A t \in Threads : LoadOK(t) /\ (thread[t].pc = "saving" => SaveOK(thread[t].save)))'
    BY <2>2 DEF Inv, LoadOK, SaveOK, Resolves
  <2> QED BY <2>4, <2>6, <2>7, <2>8 DEF Inv
<1>3. CASE Restart
  <2>1. /\ snap' = NoSnap /\ set' = Empty /\ opMu' = Unset /\ thread' = [t \in Threads |-> Idle]
        /\ UNCHANGED <<file, saves, last>>
    BY <1>3 DEF Restart
  <2>2. Types'
    BY <1>1, <2>1, NothingTypes DEF Types
  <2>3. ~snap'.loaded /\ \A t \in Threads : thread'[t].pc = "idle"
    BY <2>1, NothingTypes
  <2>4. SensitivePrivate' /\ (last # NoSave => SaveOK(last))'
    BY <2>1 DEF Inv, SensitivePrivate, SaveOK, Resolves, NoSave, NoSnap, Empty
  <2> QED BY <2>2, <2>3, <2>4 DEF Inv, LoadOK
<1> QED BY <1>2, <1>3

LEMMA NextInv ==
  Inv /\ [Next]_vars => Inv'
<1> SUFFICES ASSUME Inv, [Next]_vars PROVE Inv'
  OBVIOUS
<1>1. CASE UNCHANGED vars
  <2>1. UNCHANGED <<file, snap, set, opMu, thread, saves, last>>
    BY <1>1 DEF vars
  <2>2. (\A t \in Threads : LoadOK(t) /\ (thread[t].pc = "saving" => SaveOK(thread[t].save)))'
    BY <2>1 DEF Inv, LoadOK, SaveOK, Resolves
  <2>3. (snap.loaded => Resolves(snap) /\ Accepted(snap))' /\ (last # NoSave => SaveOK(last))'
    BY <2>1 DEF Inv, Resolves, Accepted, SaveOK, NoSave, NoSnap, Empty
  <2> QED BY <2>1, <2>2, <2>3 DEF Inv, Types, SensitivePrivate
<1> QED BY <1>1, LoadInv, SetInv, SaveInv, OutsideInv DEF Next

-----------------------------------------------------------------------------

LEMMA InvIsTyped ==
  Inv => TypeOK
<1> SUFFICES ASSUME Inv PROVE TypeOK
  OBVIOUS
<1>1. Types
  BY DEF Inv
<1>2. file.doc \in Layer /\ file.mode \in {"absent", "0600", "0644"}
  BY <1>1 DEF Types
<1>3. \A t \in Threads : /\ thread[t].pc \in {"idle", "loading", "saving"}
                         /\ thread[t].layer \in Layer /\ thread[t].set \in Layer
                         /\ thread[t].save.number \in 0..MaxSaves
  BY <1>1 DEF Types, Goroutine, SaveCall
<1>4. last.number \in 0..MaxSaves
  BY <1>1 DEF Types, SaveCall
<1> QED BY <1>1, <1>2, <1>3, <1>4 DEF TypeOK, Types

\* The file, the snapshot, the layers and the goroutines always have their types.
THEOREM ConfigTypes ==
  Spec => []TypeOK
  BY InitInv, NextInv, InvIsTyped, PTL DEF Spec

\* Whatever Load and Set calls overlap and whatever the file says by now, the
\* published snapshot was accepted as a whole by required, field validators
\* and ValidateConfig.
THEOREM PublishedAccepted ==
  Spec => []SnapshotAccepted
<1>1. Inv => SnapshotAccepted
  BY DEF Inv, SnapshotAccepted
<1> QED BY <1>1, InitInv, NextInv, PTL DEF Spec

\* A value given to Set stays set until the program ends: a Load that copied the
\* set layer and then read the file still finds it the same when it publishes,
\* because it holds opMu all the while.
THEOREM SetValuesStay ==
  Spec => SetStays
<1>1. Inv /\ [Next]_vars =>
        [\A f \in Fields : set[f] # Unset /\ set'[f] = Unset => ~snap'.loaded]_set
  <2> SUFFICES ASSUME Inv, [Next]_vars, set' # set, NEW f \in Fields, set[f] # Unset, set'[f] = Unset
               PROVE  ~snap'.loaded
    OBVIOUS
  <2>1. set \in Layer
    BY DEF Inv, Types
  <2>2. ASSUME NEW t \in Threads, NEW g \in Fields, NEW v \in Vals, Set(t, g, v) PROVE FALSE
    <3>1. set' = [set EXCEPT ![g] = v] /\ v # Unset
      BY <2>2, ConfigConstants DEF Set
    <3> QED BY <2>1, <3>1 DEF Layer
  <2>3. ASSUME NEW t \in Threads, LoadPublish(t) PROVE FALSE
    <3>1. thread[t].pc = "loading" /\ set' \in {set, thread[t].set}
      BY <2>3 DEF LoadPublish
    <3> QED BY <3>1 DEF Inv, LoadOK
  <2>4. CASE Restart
    BY <2>4, NothingTypes DEF Restart
  <2>5. ASSUME NEW t \in Threads, LoadRead(t) \/ SaveBegin(t) \/ SaveWrite(t) PROVE FALSE
    BY <2>5 DEF LoadRead, SaveBegin, SaveWrite
  <2> QED BY <2>2, <2>3, <2>4, <2>5 DEF Next, vars, Edit
<1> QED BY <1>1, InitInv, NextInv, PTL DEF Spec, SetStays

LEMMA InvReadsBack ==
  Inv => RoundTrip /\ SensitivePrivate
<1>1. ASSUME Inv, last # NoSave, file.doc = last.doc, NEW f \in Saved
      PROVE  LET again == Resolved(file.doc, Empty)
             IN \/ again.values[f] = last.snap.values[f]
                \/ last.snap.origins[f] = "set" /\ again.origins[f] \in {"env", "flag"}
  <2>1. Resolves(last.snap) /\ file.doc = Document(last.snap)
    BY <1>1 DEF Inv, SaveOK
  <2> QED BY <2>1, ReadBack
<1> QED BY <1>1 DEF Inv, RoundTrip

\* What a Save wrote resolves, in the same environment, to the values it was
\* taken from, whichever Save was last and whatever happened since, as long as
\* the file is that document; and sensitive values lie in private files only.
THEOREM SavedIsKept ==
  Spec => [](RoundTrip /\ SensitivePrivate)
  BY InitInv, NextInv, InvReadsBack, PTL DEF Spec

-----------------------------------------------------------------------------
\* Sums

\* Induction in the form that needs no operator: a set of naturals has a least
\* element.
LEMMA LeastNatural ==
  ASSUME NEW S \in SUBSET Nat, S # {}
  PROVE  \E m \in S : \A k \in S : m <= k
<1> DEFINE R == OpToRel(<, Nat)
<1>1. \A x, y \in Nat : <<x, y>> \in R <=> x < y
  BY DEF OpToRel
<1>2. IsWellFoundedOn(R, Nat)
  BY NatLessThanWellFounded
<1> HIDE DEF R
<1>3. PICK m \in S : \A k \in S : ~ (<<k, m>> \in R)
  BY <1>2, WFMin
<1>4. ASSUME NEW k \in S
      PROVE  m <= k
  <2>1. m \in Nat /\ k \in Nat
    OBVIOUS
  <2>2. ~ (k < m)
    BY <1>1, <1>3, <2>1
  <2> QED BY <2>1, <2>2
<1> QED BY <1>4

\* The element that a sum takes first, and the sum of a set of indices in
\* terms of a smaller one.
First(s) == CHOOSE x \in s : TRUE
Adds(it, f, s) == IF s = {} THEN 0 ELSE f[First(s)] + it[s \ {First(s)}]

Small(S, n) == {s \in SUBSET S : Cardinality(s) <= n}

\* The sums of a function over all sets of at most n indices.
SumsTo(it, f, S, n) == it = [s \in Small(S, n) |-> Adds(it, f, s)]
Sums(it, f, S) == it = [s \in SUBSET S |-> Adds(it, f, s)]

LEMMA RestIsSmaller ==
  ASSUME NEW S, IsFiniteSet(S), NEW s \in SUBSET S, s # {}
  PROVE  /\ First(s) \in s /\ s \ {First(s)} \in SUBSET S
         /\ Cardinality(s) \in Nat /\ Cardinality(s) # 0
         /\ Cardinality(s \ {First(s)}) = Cardinality(s) - 1
<1>1. IsFiniteSet(s) /\ First(s) \in s
  BY FS_Subset DEF First
<1>2. Cardinality(s) \in Nat /\ Cardinality(s) # 0
  BY <1>1, FS_EmptySet, FS_CardinalityType
<1> QED BY <1>1, <1>2, FS_RemoveElement

\* The recursion of a sum has a solution.
LEMMA SumsExist ==
  ASSUME NEW S, IsFiniteSet(S), NEW f
  PROVE  \E it : Sums(it, f, S)
<1> DEFINE Bad == {n \in Nat : ~ \E it : SumsTo(it, f, S, n)}
<1>1. Bad = {}
  <2> SUFFICES ASSUME Bad # {} PROVE FALSE
    OBVIOUS
  <2>1. PICK n \in Bad : \A k \in Bad : n <= k
    BY LeastNatural
  <2>2. n \in Nat /\ ~ \E it : SumsTo(it, f, S, n)
    BY <2>1
  <2>3. CASE n = 0
    <3> DEFINE it == [s \in Small(S, n) |-> 0]
    <3>1. ASSUME NEW s \in Small(S, n)
          PROVE  s = {}
      <4>1. s \in SUBSET S /\ Cardinality(s) <= 0
        BY <2>3, <3>1 DEF Small
      <4>2. s # {} => Cardinality(s) \in Nat /\ Cardinality(s) # 0
        BY <4>1, RestIsSmaller
      <4> QED BY <4>1, <4>2
    <3>2. it = [s \in Small(S, n) |-> Adds(it, f, s)]
      BY <3>1 DEF Adds
    <3> HIDE DEF it
    <3> QED BY <2>2, <3>2 DEF SumsTo
  <2>4. CASE n # 0
    <3>1. n - 1 \in Nat /\ n - 1 \notin Bad
      BY <2>1, <2>2, <2>4
    <3>2. PICK h : SumsTo(h, f, S, n - 1)
      BY <3>1
    <3> DEFINE it == [s \in Small(S, n) |-> Adds(h, f, s)]
    <3>3. ASSUME NEW s \in Small(S, n)
          PROVE  Adds(it, f, s) = Adds(h, f, s)
      <4>1. CASE s = {}
        BY <4>1 DEF Adds
      <4>2. CASE s # {}
        <5> DEFINE rest == s \ {First(s)}
        <5>1. rest \in SUBSET S /\ Cardinality(rest) \in Nat /\ Cardinality(rest) <= n - 1
          <6>1. s \in SUBSET S /\ Cardinality(s) <= n
            BY <3>3 DEF Small
          <6> QED BY <2>2, <4>2, <6>1, RestIsSmaller
        <5> HIDE DEF rest
        <5>2. rest \in Small(S, n - 1) /\ rest \in Small(S, n)
          BY <2>2, <5>1 DEF Small
        <5>3. h[rest] = Adds(h, f, rest)
          BY <3>2, <5>2, Zenon DEF SumsTo
        <5>4. it[rest] = Adds(h, f, rest)
          BY <5>2
        <5> HIDE DEF it
        <5>5. it[rest] = h[rest]
          BY <5>3, <5>4
        <5> QED BY <4>2, <5>5 DEF Adds, rest
      <4> QED BY <4>1, <4>2
    <3>4. it = [s \in Small(S, n) |-> Adds(it, f, s)]
      <4> DEFINE e(s) == Adds(it, f, s)
                 d(s) == Adds(h, f, s)
      <4>1. \A s \in Small(S, n) : e(s) = d(s)
        BY <3>3
      <4>2. it = [s \in Small(S, n) |-> d(s)]
        OBVIOUS
      <4> HIDE DEF it, d, e
      <4>3. it = [s \in Small(S, n) |-> e(s)]
        BY <4>1, <4>2
      <4> QED BY <4>3 DEF e
    <3> HIDE DEF it
    <3> QED BY <2>2, <3>4 DEF SumsTo
  <2> QED BY <2>3, <2>4
<1>2. Cardinality(S) \in Nat
  BY FS_CardinalityType
<1>3. PICK it : SumsTo(it, f, S, Cardinality(S))
  BY <1>1, <1>2
<1>4. Small(S, Cardinality(S)) = SUBSET S
  <2>1. \A s \in SUBSET S : Cardinality(s) <= Cardinality(S)
    BY FS_Subset
  <2> QED BY <2>1 DEF Small
<1> QED BY <1>3, <1>4 DEF SumsTo, Sums

LEMMA SumAt ==
  ASSUME NEW it, NEW f, NEW S, Sums(it, f, S), NEW s \in SUBSET S
  PROVE  it[s] = Adds(it, f, s)
  BY Zenon DEF Sums

LEMMA SumOfNone ==
  ASSUME NEW it, NEW f, NEW S, Sums(it, f, S)
  PROVE  it[{}] = 0
<1>1. {} \in SUBSET S
  OBVIOUS
<1>2. it[{}] = Adds(it, f, {})
  BY <1>1, SumAt
<1> QED BY <1>2 DEF Adds

LEMMA SumOfSome ==
  ASSUME NEW it, NEW f, NEW S, Sums(it, f, S), NEW s \in SUBSET S, s # {}
  PROVE  it[s] = f[First(s)] + it[s \ {First(s)}]
  BY SumAt DEF Adds

\* Sums of naturals are naturals.
LEMMA SumNatural ==
  ASSUME NEW S, IsFiniteSet(S), NEW f \in [S -> Nat], NEW it, Sums(it, f, S)
  PROVE  \A s \in SUBSET S : it[s] \in Nat
<1>0. \A s \in SUBSET S : s # {} => it[s] = f[First(s)] + it[s \ {First(s)}]
  BY SumOfSome
<1> DEFINE Bad == {n \in Nat : \E s \in SUBSET S : Cardinality(s) = n /\ it[s] \notin Nat}
<1>1. Bad = {}
  <2> SUFFICES ASSUME Bad # {} PROVE FALSE
    OBVIOUS
  <2>1. PICK n \in Bad : \A k \in Bad : n <= k
    BY LeastNatural
  <2>2. PICK s \in SUBSET S : Cardinality(s) = n /\ it[s] \notin Nat
    BY <2>1
  <2>3. s # {}
    BY <2>2, SumOfNone
  <2> DEFINE rest == s \ {First(s)}
  <2>4. /\ First(s) \in S /\ rest \in SUBSET S
        /\ Cardinality(rest) \in Nat /\ Cardinality(rest) < n
    BY <2>2, <2>3, RestIsSmaller
  <2>5. it[s] = f[First(s)] + it[rest]
    BY <1>0, <2>3
  <2> HIDE DEF rest
  <2>6. it[rest] \in Nat
    BY <2>1, <2>4
  <2> QED BY <2>2, <2>4, <2>5, <2>6
<1>2. ASSUME NEW s \in SUBSET S
      PROVE  it[s] \in Nat
  <2>1. Cardinality(s) \in Nat
    BY FS_Subset, FS_CardinalityType
  <2> QED BY <1>1, <2>1
<1> QED BY <1>2

\* A sum may begin with any index.
LEMMA SumAnyOrder ==
  ASSUME NEW S, IsFiniteSet(S), NEW f \in [S -> Nat], NEW it, Sums(it, f, S)
  PROVE  \A s \in SUBSET S : \A x \in s : it[s] = f[x] + it[s \ {x}]
<1>0. \A s \in SUBSET S : s # {} => it[s] = f[First(s)] + it[s \ {First(s)}]
  BY SumOfSome
<1> DEFINE Bad == {n \in Nat : \E s \in SUBSET S : /\ Cardinality(s) = n
                                                   /\ \E x \in s : it[s] # f[x] + it[s \ {x}]}
<1>1. Bad = {}
  <2> SUFFICES ASSUME Bad # {} PROVE FALSE
    OBVIOUS
  <2>1. PICK n \in Bad : \A k \in Bad : n <= k
    BY LeastNatural
  <2>2. PICK s \in SUBSET S : Cardinality(s) = n /\ \E x \in s : it[s] # f[x] + it[s \ {x}]
    BY <2>1
  <2>3. PICK x \in s : it[s] # f[x] + it[s \ {x}]
    BY <2>2
  <2>4. ASSUME NEW r \in SUBSET S, Cardinality(r) \in Nat, Cardinality(r) < n, NEW y \in r
        PROVE  it[r] = f[y] + it[r \ {y}]
    <3>1. Cardinality(r) \notin Bad
      <4> HIDE DEF Bad
      <4>1. n \in Nat /\ ~(n <= Cardinality(r))
        BY <2>1, <2>4 DEF Bad
      <4> QED BY <2>1, <4>1
    <3> QED BY <2>4, <3>1
  <2> DEFINE c == First(s)
             r1 == s \ {c}
             r2 == s \ {x}
             r3 == s \ {c, x}
  <2>5. s # {}
    OBVIOUS
  <2>6. /\ c \in s /\ r1 \in SUBSET S /\ Cardinality(r1) \in Nat /\ Cardinality(r1) < n
    BY <2>2, <2>5, RestIsSmaller
  <2>7. it[s] = f[c] + it[r1]
    BY <1>0, <2>5
  <2>8. r2 \in SUBSET S /\ Cardinality(r2) \in Nat /\ Cardinality(r2) < n
    <3>1. IsFiniteSet(s)
      BY FS_Subset
    <3>2. Cardinality(r2) = Cardinality(s) - 1 /\ IsFiniteSet(r2)
      BY <3>1, FS_RemoveElement
    <3>3. Cardinality(s) \in Nat /\ Cardinality(r2) \in Nat
      BY <3>1, <3>2, FS_CardinalityType
    <3> QED BY <2>2, <3>2, <3>3
  <2> HIDE DEF c
  <2>9. c # x
    BY <2>3, <2>7
  <2>10. x \in r1 /\ r1 \ {x} = r3 /\ c \in r2 /\ r2 \ {c} = r3 /\ r3 \in SUBSET S
    BY <2>6, <2>9
  <2>11. it[r1] = f[x] + it[r3] /\ it[r2] = f[c] + it[r3]
    BY <2>4, <2>6, <2>8, <2>10
  <2>12. f[x] \in Nat /\ f[c] \in Nat /\ it[r3] \in Nat
    BY <2>6, <2>10, SumNatural
  <2> HIDE DEF r1, r3
  <2>13. it[s] = f[x] + it[r2]
    BY <2>7, <2>11, <2>12
  <2> QED BY <2>3, <2>13
<1>2. ASSUME NEW s \in SUBSET S, NEW x \in s
      PROVE  it[s] = f[x] + it[s \ {x}]
  <2>1. Cardinality(s) \in Nat
    BY FS_Subset, FS_CardinalityType
  <2> QED BY <1>1, <2>1
<1> QED BY <1>2

\* Functions that agree have the same sum.
LEMMA SumAgrees ==
  ASSUME NEW S, IsFiniteSet(S), NEW f \in [S -> Nat], NEW h \in [S -> Nat],
         NEW it, Sums(it, f, S), NEW jt, Sums(jt, h, S),
         NEW T \in SUBSET S, \A x \in T : f[x] = h[x]
  PROVE  it[T] = jt[T]
<1> DEFINE Bad == {n \in Nat : \E s \in SUBSET T : Cardinality(s) = n /\ it[s] # jt[s]}
<1>1. Bad = {}
  <2> SUFFICES ASSUME Bad # {} PROVE FALSE
    OBVIOUS
  <2>1. PICK n \in Bad : \A k \in Bad : n <= k
    BY LeastNatural
  <2>2. PICK s \in SUBSET T : Cardinality(s) = n /\ it[s] # jt[s]
    BY <2>1
  <2>3. s # {} /\ s \in SUBSET S
    BY <2>2, SumOfNone
  <2> DEFINE rest == s \ {First(s)}
  <2>4. /\ First(s) \in T /\ rest \in SUBSET T
        /\ Cardinality(rest) \in Nat /\ Cardinality(rest) < n
    BY <2>2, <2>3, RestIsSmaller
  <2>5. it[s] = f[First(s)] + it[rest] /\ jt[s] = h[First(s)] + jt[rest]
    BY <2>3, SumOfSome
  <2> HIDE DEF rest
  <2>6. it[rest] = jt[rest]
    BY <2>1, <2>4
  <2> QED BY <2>2, <2>4, <2>5, <2>6
<1>2. Cardinality(T) \in Nat
  BY FS_Subset, FS_CardinalityType
<1> QED BY <1>1, <1>2

LEMMA SumFunctionIs ==
  ASSUME NEW S, IsFiniteSet(S), NEW f \in [S -> Nat]
  PROVE  \E it : Sums(it, f, S) /\ Log!SumFunction(f) = it[S]
<1> DEFINE it == CHOOSE i : Sums(i, f, S)
<1>1. Log!SumFunction(f) = it[S]
  BY DEF Log!SumFunction, Log!SumFunctionOnSet, Log!FoldFunctionOnSet, Log!MapThenFoldSet,
         Sums, Adds, First
<1>2. Sums(it, f, S)
  BY SumsExist
<1> QED BY <1>1, <1>2

\* What a sum becomes when the function changes in one place.
LEMMA SumChanges ==
  ASSUME NEW S, IsFiniteSet(S), NEW f \in [S -> Nat], NEW h \in [S -> Nat],
         NEW g \in S, \A x \in S \ {g} : f[x] = h[x]
  PROVE  /\ Log!SumFunction(f) \in Nat /\ Log!SumFunction(h) \in Nat
         /\ Log!SumFunction(h) + f[g] = Log!SumFunction(f) + h[g]
<1>1. PICK it : Sums(it, f, S) /\ Log!SumFunction(f) = it[S]
  BY SumFunctionIs
<1>2. PICK jt : Sums(jt, h, S) /\ Log!SumFunction(h) = jt[S]
  BY SumFunctionIs
<1>3. it[S] = f[g] + it[S \ {g}] /\ jt[S] = h[g] + jt[S \ {g}]
  BY <1>1, <1>2, SumAnyOrder
<1>4. it[S \ {g}] = jt[S \ {g}]
  BY <1>1, <1>2, SumAgrees
<1>5. it[S \ {g}] \in Nat
  BY <1>1, SumNatural
<1>6. f[g] \in Nat /\ h[g] \in Nat
  OBVIOUS
<1> QED BY <1>1, <1>2, <1>3, <1>4, <1>5, <1>6

LEMMA SumOfZeros ==
  ASSUME NEW S, IsFiniteSet(S), NEW f \in [S -> Nat], \A x \in S : f[x] = 0
  PROVE  Log!SumFunction(f) = 0
<1>1. PICK it : Sums(it, f, S) /\ Log!SumFunction(f) = it[S]
  BY SumFunctionIs
<1> DEFINE Bad == {n \in Nat : \E s \in SUBSET S : Cardinality(s) = n /\ it[s] # 0}
<1>2. Bad = {}
  <2> SUFFICES ASSUME Bad # {} PROVE FALSE
    OBVIOUS
  <2>1. PICK n \in Bad : \A k \in Bad : n <= k
    BY LeastNatural
  <2>2. PICK s \in SUBSET S : Cardinality(s) = n /\ it[s] # 0
    BY <2>1
  <2>3. s # {}
    BY <1>1, <2>2, SumOfNone
  <2> DEFINE rest == s \ {First(s)}
  <2>4. /\ First(s) \in S /\ rest \in SUBSET S
        /\ Cardinality(rest) \in Nat /\ Cardinality(rest) < n
    BY <2>2, <2>3, RestIsSmaller
  <2>5. it[s] = f[First(s)] + it[rest]
    BY <1>1, <2>3, SumOfSome
  <2> HIDE DEF rest
  <2>6. it[rest] = 0 /\ f[First(s)] = 0
    BY <2>1, <2>4
  <2> QED BY <2>2, <2>5, <2>6
<1>3. Cardinality(S) \in Nat
  BY FS_CardinalityType
<1> QED BY <1>1, <1>2, <1>3

-----------------------------------------------------------------------------
\* The log buffer

LEMMA AppendIs ==
  ASSUME NEW s \in Seq(Int), NEW e \in Int
  PROVE  /\ Append(s, e) \in Seq(Int) /\ Len(Append(s, e)) = Len(s) + 1 /\ Len(s) \in Nat
         /\ \A i \in 1..Len(s) : Append(s, e)[i] = s[i]
         /\ Append(s, e)[Len(s) + 1] = e
         /\ Log!ToSet(Append(s, e)) = Log!ToSet(s) \cup {e}
         /\ Log!IsInjective(s) /\ e \notin Log!ToSet(s) => Log!IsInjective(Append(s, e))
<1> DEFINE n == Append(s, e)
<1>1. /\ n \in Seq(Int) /\ Len(n) = Len(s) + 1 /\ Len(s) \in Nat
      /\ DOMAIN n = 1..(Len(s) + 1) /\ DOMAIN s = 1..Len(s)
      /\ \A i \in 1..Len(s) : n[i] = s[i]
      /\ n[Len(s) + 1] = e
  OBVIOUS
<1> HIDE DEF n
<1>2. Log!ToSet(n) = Log!ToSet(s) \cup {e}
  <2>1. \A i \in 1..(Len(s) + 1) : i \in 1..Len(s) \/ i = Len(s) + 1
    BY <1>1
  <2>2. \A i \in 1..Len(s) : i \in 1..(Len(s) + 1)
    BY <1>1
  <2>3. Len(s) + 1 \in 1..(Len(s) + 1)
    BY <1>1
  <2> QED BY <1>1, <2>1, <2>2, <2>3 DEF Log!ToSet
<1>3. ASSUME Log!IsInjective(s), e \notin Log!ToSet(s), NEW i \in DOMAIN n, NEW j \in DOMAIN n, n[i] = n[j]
      PROVE  i = j
  <2>1. \A k \in 1..Len(s) : s[k] # e
    BY <1>1, <1>3 DEF Log!ToSet
  <2>2. CASE i \in 1..Len(s) /\ j \in 1..Len(s)
    BY <1>1, <1>3, <2>2 DEF Log!IsInjective
  <2>3. CASE i = Len(s) + 1 /\ j \in 1..Len(s)
    BY <1>1, <1>3, <2>1, <2>3
  <2>4. CASE i \in 1..Len(s) /\ j = Len(s) + 1
    BY <1>1, <1>3, <2>1, <2>4
  <2> QED BY <1>1, <2>2, <2>3, <2>4
<1> QED BY <1>1, <1>2, <1>3 DEF n, Log!IsInjective

LEMMA TailIs ==
  ASSUME NEW s \in Seq(Int), s # <<>>
  PROVE  /\ Tail(s) \in Seq(Int) /\ Len(Tail(s)) = Len(s) - 1 /\ Len(s) \in Nat \ {0}
         /\ \A i \in 1..(Len(s) - 1) : Tail(s)[i] = s[i + 1]
         /\ Head(s) = s[1] /\ Head(s) \in Int /\ Head(s) \in Log!ToSet(s)
         /\ Log!ToSet(Tail(s)) \subseteq Log!ToSet(s)
         /\ Log!IsInjective(s) => Log!IsInjective(Tail(s)) /\ Head(s) \notin Log!ToSet(Tail(s))
<1> DEFINE t == Tail(s)
<1>1. /\ t \in Seq(Int) /\ Len(t) = Len(s) - 1 /\ Len(s) \in Nat \ {0}
      /\ DOMAIN t = 1..(Len(s) - 1) /\ DOMAIN s = 1..Len(s)
      /\ \A i \in 1..(Len(s) - 1) : t[i] = s[i + 1]
      /\ Head(s) = s[1] /\ 1 \in 1..Len(s)
  BY EmptySeq, HeadTailProperties
<1> HIDE DEF t
<1>2. Head(s) \in Int /\ Head(s) \in Log!ToSet(s)
  BY <1>1 DEF Log!ToSet
<1>3. \A i \in 1..(Len(s) - 1) : i + 1 \in 1..Len(s) /\ i + 1 # 1
  BY <1>1
<1>4. Log!ToSet(t) \subseteq Log!ToSet(s)
  <2> SUFFICES ASSUME NEW i \in 1..(Len(s) - 1) PROVE t[i] \in Log!ToSet(s)
    BY <1>1 DEF Log!ToSet
  <2>1. t[i] = s[i + 1] /\ i + 1 \in DOMAIN s
    BY <1>1, <1>3
  <2> QED BY <2>1 DEF Log!ToSet
<1>5. ASSUME Log!IsInjective(s)
      PROVE  Log!IsInjective(t) /\ Head(s) \notin Log!ToSet(t)
  <2>1. ASSUME NEW i \in 1..(Len(s) - 1), NEW j \in 1..(Len(s) - 1), t[i] = t[j]
        PROVE  i = j
    <3>1. i + 1 \in DOMAIN s /\ j + 1 \in DOMAIN s /\ s[i + 1] = s[j + 1]
      BY <1>1, <1>3, <2>1
    <3>2. i + 1 = j + 1
      BY <1>5, <3>1, Zenon DEF Log!IsInjective
    <3> QED BY <3>2
  <2>2. ASSUME NEW i \in 1..(Len(s) - 1)
        PROVE  t[i] # Head(s)
    BY <1>1, <1>3, <1>5 DEF Log!IsInjective
  <2> QED BY <1>1, <2>1, <2>2 DEF Log!IsInjective, Log!ToSet
<1> QED BY <1>1, <1>2, <1>4, <1>5 DEF t

LEMMA NothingIs ==
  /\ <<>> \in Seq(Int) /\ Len(<<>>) = 0 /\ Log!ToSet(<<>>) = {} /\ Log!IsInjective(<<>>)
<1>1. <<>> \in Seq(Int) /\ Len(<<>>) = 0 /\ DOMAIN <<>> = {}
  OBVIOUS
<1> QED BY <1>1 DEF Log!ToSet, Log!IsInjective

\* What a goroutine has taken and not yet delivered.
Takings == [records: Seq(Int), discarded: Nat]

LogTyped ==
    /\ added \in 0..MaxAdded
    /\ records \in Seq(Int) /\ Len(records) <= MaxRecords
    /\ discarded \in Nat /\ reported \in Nat
    /\ delivered \in Seq(Int)
    /\ taken \in [Threads -> Takings]

\* Records are numbered by their arrival.
Arrived(set_) == \A e \in set_ : e <= added

\* The buffer holds the newest.
Newest == \A i \in 1..Len(records) : records[i] = added - Len(records) + i

\* A record is in one place, and there once.
OnePlace ==
    /\ Arrived(Log!ToSet(delivered)) /\ Log!IsInjective(delivered)
    /\ Log!ToSet(records) \cap Log!ToSet(delivered) = {}
    /\ \A g \in Threads :
          /\ Arrived(Log!ToSet(taken[g].records)) /\ Log!IsInjective(taken[g].records)
          /\ Log!ToSet(taken[g].records) \cap (Log!ToSet(delivered) \cup Log!ToSet(records)) = {}
          /\ \A h \in Threads \ {g} :
                Log!ToSet(taken[g].records) \cap Log!ToSet(taken[h].records) = {}

LogInv == LogTyped /\ Newest /\ OnePlace /\ Log!Conserved

LEMMA LogConstants ==
  IsFiniteSet(Threads) /\ MaxRecords \in Nat \ {0} /\ MaxAdded \in Nat
  BY PartsConstants, Zenon DEF Log!BufferConstants, Log!IsFiniteSet, IsFiniteSet

\* What is under way.
UnderWay == [g \in Threads |-> Len(taken[g].records) + taken[g].discarded]

LEMMA ConservedIs ==
  /\ Log!Conserved <=> added = Len(records) + discarded + Len(delivered) + reported
                                + Log!SumFunction(UnderWay)
  BY DEF Log!Conserved, Log!InFlight, UnderWay

LEMMA UnderWayType ==
  ASSUME LogTyped
  PROVE  UnderWay \in [Threads -> Nat] /\ Log!SumFunction(UnderWay) \in Nat
<1>1. ASSUME NEW g \in Threads
      PROVE  Len(taken[g].records) + taken[g].discarded \in Nat
  <2>1. taken[g].records \in Seq(Int) /\ taken[g].discarded \in Nat
    BY DEF LogTyped, Takings
  <2> QED BY <2>1
<1>2. UnderWay \in [Threads -> Nat]
  BY <1>1 DEF UnderWay
<1>3. IsFiniteSet(Threads)
  BY LogConstants
<1>4. PICK it : Sums(it, UnderWay, Threads) /\ Log!SumFunction(UnderWay) = it[Threads]
  BY <1>2, <1>3, SumFunctionIs
<1>5. it[Threads] \in Nat
  BY <1>2, <1>3, <1>4, SumNatural
<1> QED BY <1>2, <1>4, <1>5

LEMMA Balance ==
  ASSUME NEW a \in Nat, NEW b \in Nat, NEW c \in Nat, NEW d \in Nat, NEW e \in Nat, NEW f \in Nat,
         a + (c + d) = b + (e + f)
  PROVE  a + c + d = b + e + f
  OBVIOUS

\* One goroutine's takings change.
LEMMA TakingChanges ==
  ASSUME LogTyped, NEW g \in Threads, NEW r \in Takings, taken' = [taken EXCEPT ![g] = r]
  PROVE  /\ taken' \in [Threads -> Takings] /\ taken'[g] = r
         /\ \A h \in Threads \ {g} : taken'[h] = taken[h]
         /\ taken[g].records \in Seq(Int) /\ taken[g].discarded \in Nat
         /\ Log!SumFunction(UnderWay) \in Nat /\ Log!SumFunction(UnderWay') \in Nat
         /\ Log!SumFunction(UnderWay') + Len(taken[g].records) + taken[g].discarded
              = Log!SumFunction(UnderWay) + Len(r.records) + r.discarded
<1>1. /\ taken' \in [Threads -> Takings] /\ taken'[g] = r
      /\ \A h \in Threads \ {g} : taken'[h] = taken[h]
  BY DEF LogTyped
<1>2. taken[g].records \in Seq(Int) /\ taken[g].discarded \in Nat
  BY DEF LogTyped, Takings
<1>3. r.records \in Seq(Int) /\ r.discarded \in Nat
  BY DEF Takings
<1>4. UnderWay \in [Threads -> Nat]
  BY UnderWayType
<1>5. \A h \in Threads : taken'[h].records \in Seq(Int) /\ taken'[h].discarded \in Nat
  BY <1>1 DEF Takings
<1>6. \A h \in Threads : Len(taken'[h].records) + taken'[h].discarded \in Nat
  BY <1>5
<1>7. UnderWay' \in [Threads -> Nat]
  BY <1>6 DEF UnderWay
<1>8. \A h \in Threads \ {g} : UnderWay[h] = UnderWay'[h]
  BY <1>1 DEF UnderWay
<1>9. /\ UnderWay[g] = Len(taken[g].records) + taken[g].discarded
      /\ UnderWay'[g] = Len(r.records) + r.discarded
  BY <1>1 DEF UnderWay
<1>10. IsFiniteSet(Threads)
  BY LogConstants
<1>11. /\ Log!SumFunction(UnderWay) \in Nat /\ Log!SumFunction(UnderWay') \in Nat
       /\ Log!SumFunction(UnderWay') + UnderWay[g] = Log!SumFunction(UnderWay) + UnderWay'[g]
  BY <1>4, <1>7, <1>8, <1>10, SumChanges
<1>12. Len(taken[g].records) \in Nat /\ Len(r.records) \in Nat
  BY <1>2, <1>3
<1>13. Log!SumFunction(UnderWay') + Len(taken[g].records) + taken[g].discarded
         = Log!SumFunction(UnderWay) + Len(r.records) + r.discarded
  <2>1. PICK a \in Nat : a = Log!SumFunction(UnderWay')
    BY <1>11
  <2>2. PICK b \in Nat : b = Log!SumFunction(UnderWay)
    BY <1>11
  <2>3. a + (Len(taken[g].records) + taken[g].discarded) = b + (Len(r.records) + r.discarded)
    BY <1>9, <1>11, <2>1, <2>2, Zenon
  <2>4. PICK c \in Nat, d \in Nat : c = Len(taken[g].records) /\ d = taken[g].discarded
    BY <1>2, <1>12
  <2>5. PICK e \in Nat, f \in Nat : e = Len(r.records) /\ f = r.discarded
    BY <1>3, <1>12
  <2>6. a + (c + d) = b + (e + f)
    BY <2>3, <2>4, <2>5
  <2>7. a + c + d = b + e + f
    BY <2>6, Balance
  <2> QED BY <2>1, <2>2, <2>4, <2>5, <2>7
<1> QED BY <1>1, <1>2, <1>11, <1>13

LEMMA LogBegin ==
  Log!Init => LogInv
<1> SUFFICES ASSUME Log!Init PROVE LogInv
  OBVIOUS
<1>1. Log!Idle \in Takings /\ Log!Idle.records = <<>> /\ Log!Idle.discarded = 0
  BY NothingIs DEF Log!Idle, Takings
<1>2. /\ added = 0 /\ records = <<>> /\ discarded = 0 /\ delivered = <<>> /\ reported = 0
      /\ taken = [g \in Threads |-> Log!Idle]
  BY DEF Log!Init
<1>3. LogTyped
  BY <1>1, <1>2, NothingIs, LogConstants DEF LogTyped
<1>4. \A g \in Threads : taken[g].records = <<>> /\ taken[g].discarded = 0
  BY <1>1, <1>2
<1>5. Newest
  BY <1>2, NothingIs DEF Newest
<1>6. OnePlace
  BY <1>2, <1>4, NothingIs DEF OnePlace, Arrived
<1>7. UnderWay \in [Threads -> Nat] /\ \A g \in Threads : UnderWay[g] = 0
  BY <1>3, <1>4, UnderWayType, NothingIs DEF UnderWay
<1>8. Log!SumFunction(UnderWay) = 0
  BY <1>7, SumOfZeros, LogConstants
<1>9. Log!Conserved
  BY <1>2, <1>8, NothingIs, ConservedIs
<1> QED BY <1>3, <1>5, <1>6, <1>9 DEF LogInv

LEMMA AddKeeps ==
  ASSUME LogInv, Log!add
  PROVE  LogInv'
<1> DEFINE full == Len(records) = MaxRecords
           kept == IF full THEN Tail(records) ELSE records
<1>1. LogTyped /\ Newest /\ OnePlace /\ Log!Conserved
  BY DEF LogInv
<1>2. /\ added < MaxAdded /\ added' = added + 1 /\ records' = Append(kept, added')
      /\ discarded' = IF full THEN discarded + 1 ELSE discarded
      /\ UNCHANGED <<taken, delivered, reported>>
  BY DEF Log!add
<1>3. /\ added \in Nat /\ added' \in 0..MaxAdded /\ added' \in Int
      /\ records \in Seq(Int) /\ Len(records) \in Nat /\ Len(records) <= MaxRecords
      /\ discarded \in Nat /\ MaxRecords \in Nat \ {0}
  BY <1>1, <1>2, LogConstants DEF LogTyped
<1>4. full => records # <<>>
  BY <1>3, NothingIs
<1>5. /\ kept \in Seq(Int) /\ Len(kept) \in Nat
      /\ Len(kept) = IF full THEN Len(records) - 1 ELSE Len(records)
      /\ Log!ToSet(kept) \subseteq Log!ToSet(records)
      /\ \A i \in 1..Len(kept) : kept[i] = added - Len(kept) + i
  <2>1. CASE full
    <3>1. /\ Tail(records) \in Seq(Int) /\ Len(Tail(records)) = Len(records) - 1 /\ Len(records) \in Nat \ {0}
          /\ \A i \in 1..(Len(records) - 1) : Tail(records)[i] = records[i + 1]
          /\ Log!ToSet(Tail(records)) \subseteq Log!ToSet(records)
      BY <1>3, <1>4, <2>1, TailIs
    <3>2. ASSUME NEW i \in 1..(Len(records) - 1)
          PROVE  Tail(records)[i] = added - (Len(records) - 1) + i
      <4>1. i + 1 \in 1..Len(records)
        BY <3>1
      <4>2. records[i + 1] = added - Len(records) + (i + 1)
        BY <1>1, <4>1 DEF Newest
      <4> QED BY <1>3, <3>1, <4>2
    <3> QED BY SMTT(30), <2>1, <3>1, <3>2
  <2>2. CASE ~full
    BY <1>1, <1>3, <2>2 DEF Newest
  <2> QED BY <2>1, <2>2
<1> HIDE DEF kept
<1>6. /\ Len(kept) <= MaxRecords - 1 /\ discarded' \in Nat
      /\ discarded' + Len(kept) = discarded + Len(records)
  <2>1. CASE full
    BY <1>2, <1>3, <1>5, <2>1
  <2>2. CASE ~full
    BY <1>2, <1>3, <1>5, <2>2
  <2> QED BY <2>1, <2>2
<1> HIDE DEF full
<1>7. /\ records' \in Seq(Int) /\ Len(records') = Len(kept) + 1
      /\ \A i \in 1..Len(kept) : records'[i] = kept[i]
      /\ records'[Len(kept) + 1] = added'
      /\ Log!ToSet(records') = Log!ToSet(kept) \cup {added'}
  BY <1>2, <1>3, <1>5, AppendIs
<1>8. LogTyped'
  BY <1>1, <1>2, <1>3, <1>5, <1>6, <1>7 DEF LogTyped
<1>9. Newest'
  <2>1. ASSUME NEW i \in 1..Len(records')
        PROVE  records'[i] = added' - Len(records') + i
    <3>1. i \in 1..Len(kept) \/ i = Len(kept) + 1
      BY <1>5, <1>7, <2>1
    <3>2. PICK k \in Nat : k = Len(kept) /\ Len(records') = k + 1 /\ added' = added + 1
      BY <1>2, <1>5, <1>7
    <3>3. CASE i \in 1..Len(kept)
      <4>1. records'[i] = added - Len(kept) + i
        BY <1>5, <1>7, <3>3
      <4>2. added - k + i = (added + 1) - (k + 1) + i
        BY <1>3, <3>3, <3>2
      <4> QED BY <3>2, <4>1, <4>2
    <3>4. CASE i = Len(kept) + 1
      <4>1. records'[i] = added + 1
        BY <1>2, <1>7, <3>4
      <4>2. added + 1 = (added + 1) - (k + 1) + (k + 1)
        BY <1>3, <3>2
      <4> QED BY <3>4, <3>2, <4>1, <4>2
    <3> QED BY <3>1, <3>3, <3>4
  <2> QED BY <2>1 DEF Newest
<1>10. ASSUME NEW S, Arrived(S)
       PROVE  (\A e \in S : e # added') /\ \A e \in S : e \in Int => e <= added'
  BY <1>2, <1>3, <1>10 DEF Arrived
<1>11. OnePlace'
  <2>1. \A g \in Threads : taken[g].records \in Seq(Int)
    BY <1>1 DEF LogTyped, Takings
  <2>2. delivered \in Seq(Int)
    BY <1>1 DEF LogTyped
  <2>3. /\ \A e \in Log!ToSet(delivered) : e \in Int
        /\ \A g \in Threads : \A e \in Log!ToSet(taken[g].records) : e \in Int
    BY <2>1, <2>2 DEF Log!ToSet
  <2>4. Arrived(Log!ToSet(delivered)) /\ Log!IsInjective(delivered)
        /\ Log!ToSet(records) \cap Log!ToSet(delivered) = {}
    BY <1>1 DEF OnePlace
  <2>5. /\ \A e \in Log!ToSet(delivered) : e <= added'
        /\ Log!ToSet(records') \cap Log!ToSet(delivered) = {}
    BY <1>5, <1>7, <1>10, <2>3, <2>4
  <2>6. ASSUME NEW g \in Threads
        PROVE  /\ \A e \in Log!ToSet(taken[g].records) : e <= added'
               /\ Log!IsInjective(taken[g].records)
               /\ Log!ToSet(taken[g].records) \cap (Log!ToSet(delivered) \cup Log!ToSet(records')) = {}
               /\ \A h \in Threads \ {g} :
                     Log!ToSet(taken[g].records) \cap Log!ToSet(taken[h].records) = {}
    <3>1. /\ Arrived(Log!ToSet(taken[g].records)) /\ Log!IsInjective(taken[g].records)
          /\ Log!ToSet(taken[g].records) \cap (Log!ToSet(delivered) \cup Log!ToSet(records)) = {}
          /\ \A h \in Threads \ {g} :
                Log!ToSet(taken[g].records) \cap Log!ToSet(taken[h].records) = {}
      BY <1>1 DEF OnePlace
    <3>2. (\A e \in Log!ToSet(taken[g].records) : e # added')
          /\ \A e \in Log!ToSet(taken[g].records) : e \in Int => e <= added'
      BY <1>10, <3>1
    <3> QED BY <1>5, <1>7, <2>3, <3>1, <3>2
  <2>7. taken' = taken /\ delivered' = delivered
    BY <1>2
  <2> QED BY <2>4, <2>5, <2>6, <2>7 DEF OnePlace, Arrived
<1>12. Log!Conserved'
  <2>1. PICK sum \in Nat : sum = Log!SumFunction(UnderWay)
    BY <1>1, UnderWayType
  <2>2. UnderWay' = UnderWay
    BY <1>2 DEF UnderWay
  <2>3. Log!SumFunction(UnderWay)' = sum
    BY <2>1, <2>2
  <2>4. added = Len(records) + discarded + Len(delivered) + reported + sum
    BY <1>1, <2>1, ConservedIs
  <2>5. Len(delivered) \in Nat /\ reported \in Nat /\ delivered' = delivered /\ reported' = reported
    BY <1>1, <1>2 DEF LogTyped
  <2>6. added' = Len(records') + discarded' + Len(delivered') + reported' + sum
    <3>1. PICK k \in Nat, l \in Nat, d \in Nat, e \in Nat, m \in Nat, n \in Nat :
            k = Len(kept) /\ l = Len(records) /\ d = discarded /\ e = discarded'
              /\ m = Len(delivered) /\ n = reported
      BY <1>3, <1>5, <1>6, <2>5
    <3>2. added = l + d + m + n + sum /\ e + k = d + l
      BY <1>6, <2>4, <3>1
    <3>3. added + 1 = (k + 1) + e + m + n + sum
      BY <3>2
    <3> QED BY <1>2, <1>7, <2>5, <3>1, <3>3
  <2> QED BY <2>3, <2>6 DEF Log!Conserved, Log!InFlight, UnderWay
<1> QED BY <1>8, <1>9, <1>11, <1>12 DEF LogInv

\* The places of records after a step of g.
LEMMA PlacesChange ==
  ASSUME LogInv, NEW g \in Threads, NEW r \in Takings, taken' = [taken EXCEPT ![g] = r], added' = added,
         Arrived(Log!ToSet(r.records)), Log!IsInjective(r.records),
         Arrived(Log!ToSet(delivered')), Log!IsInjective(delivered'),
         Log!ToSet(records') \subseteq Log!ToSet(records),
         Log!ToSet(r.records) \cup Log!ToSet(delivered')
            \subseteq Log!ToSet(taken[g].records) \cup Log!ToSet(records) \cup Log!ToSet(delivered),
         Log!ToSet(r.records) \cap (Log!ToSet(delivered') \cup Log!ToSet(records')) = {},
         Log!ToSet(records') \cap Log!ToSet(delivered') = {}
  PROVE  OnePlace'
<1>1. LogTyped /\ OnePlace
  BY DEF LogInv
<1>2. taken'[g] = r /\ \A h \in Threads \ {g} : taken'[h] = taken[h]
  BY <1>1, TakingChanges
<1>3. ASSUME NEW S, Arrived(S)
      PROVE  Arrived(S)'
  BY <1>3 DEF Arrived
<1>4. \A e \in Log!ToSet(delivered') : e <= added'
  BY DEF Arrived
<1>5. ASSUME NEW h \in Threads \ {g}
      PROVE  /\ Arrived(Log!ToSet(taken[h].records)) /\ Log!IsInjective(taken[h].records)
             /\ Log!ToSet(taken[h].records) \cap (Log!ToSet(delivered) \cup Log!ToSet(records)) = {}
             /\ Log!ToSet(taken[h].records) \cap Log!ToSet(taken[g].records) = {}
             /\ \A k \in Threads \ {h} : Log!ToSet(taken[h].records) \cap Log!ToSet(taken[k].records) = {}
  BY <1>1 DEF OnePlace
<1>6. ASSUME NEW h \in Threads \ {g}
      PROVE  /\ Log!ToSet(taken[h].records) \cap (Log!ToSet(delivered') \cup Log!ToSet(records')) = {}
             /\ Log!ToSet(taken[h].records) \cap Log!ToSet(r.records) = {}
  BY <1>5
<1>7. ASSUME NEW h \in Threads
      PROVE  /\ \A e \in Log!ToSet(taken'[h].records) : e <= added'
             /\ Log!IsInjective(taken'[h].records)
             /\ Log!ToSet(taken'[h].records) \cap (Log!ToSet(delivered') \cup Log!ToSet(records')) = {}
  <2>1. CASE h = g
    BY <1>2, <2>1 DEF Arrived
  <2>2. CASE h # g
    BY <1>2, <1>5, <1>6, <2>2 DEF Arrived
  <2> QED BY <2>1, <2>2
<1>8. ASSUME NEW h \in Threads, NEW k \in Threads \ {h}
      PROVE  Log!ToSet(taken'[h].records) \cap Log!ToSet(taken'[k].records) = {}
  <2>1. CASE h = g
    BY <1>2, <1>6, <2>1
  <2>2. CASE h # g /\ k = g
    BY <1>2, <1>6, <2>2
  <2>3. CASE h # g /\ k # g
    BY <1>2, <1>5, <2>3
  <2> QED BY <2>1, <2>2, <2>3
<1> QED BY <1>4, <1>7, <1>8 DEF OnePlace, Arrived

LEMMA BufferIsNew ==
  ASSUME LogInv
  PROVE  Log!IsInjective(records) /\ Arrived(Log!ToSet(records))
<1>1. /\ records \in Seq(Int) /\ Len(records) \in Nat /\ DOMAIN records = 1..Len(records)
      /\ added \in Nat
  BY LogConstants DEF LogInv, LogTyped
<1>2. \A i \in 1..Len(records) : records[i] = added - Len(records) + i
  BY DEF LogInv, Newest
<1>3. ASSUME NEW i \in 1..Len(records), NEW j \in 1..Len(records), records[i] = records[j]
      PROVE  i = j
  <2>1. added - Len(records) + i = added - Len(records) + j
    BY <1>2, <1>3
  <2> QED BY <1>1, <2>1
<1>4. ASSUME NEW i \in 1..Len(records)
      PROVE  records[i] <= added
  <2>1. added - Len(records) + i <= added
    BY <1>1
  <2> QED BY <1>2, <2>1
<1> QED BY <1>1, <1>3, <1>4 DEF Log!IsInjective, Log!ToSet, Arrived

LEMMA TakeKeeps ==
  ASSUME LogInv, NEW g \in Threads, Log!flushTake(g)
  PROVE  LogInv'
<1> DEFINE r == [records |-> records, discarded |-> discarded]
<1>1. LogTyped /\ OnePlace /\ Log!Conserved
  BY DEF LogInv
<1>2. /\ taken[g] = Log!Idle /\ taken' = [taken EXCEPT ![g] = r]
      /\ records' = <<>> /\ discarded' = 0 /\ UNCHANGED <<added, delivered, reported>>
  BY DEF Log!flushTake
<1>3. r \in Takings /\ r.records = records /\ r.discarded = discarded
  BY <1>1 DEF LogTyped, Takings
<1>4. taken[g].records = <<>> /\ taken[g].discarded = 0
  BY <1>2 DEF Log!Idle
<1> HIDE DEF r
<1>5. /\ taken' \in [Threads -> Takings]
      /\ Log!SumFunction(UnderWay) \in Nat /\ Log!SumFunction(UnderWay') \in Nat
      /\ Log!SumFunction(UnderWay') + Len(taken[g].records) + taken[g].discarded
           = Log!SumFunction(UnderWay) + Len(r.records) + r.discarded
  BY <1>1, <1>2, <1>3, TakingChanges
<1>6. LogTyped'
  BY <1>1, <1>2, <1>5, NothingIs, LogConstants DEF LogTyped
<1>7. Newest'
  BY <1>2, NothingIs DEF Newest
<1>8. OnePlace'
  <2>1. Log!IsInjective(records) /\ Arrived(Log!ToSet(records))
    BY BufferIsNew
  <2>2. /\ Arrived(Log!ToSet(delivered)) /\ Log!IsInjective(delivered)
        /\ Log!ToSet(records) \cap Log!ToSet(delivered) = {}
    BY <1>1 DEF OnePlace
  <2>3. Log!ToSet(records') = {} /\ delivered' = delivered
    BY <1>2, NothingIs
  <2> QED BY <1>2, <1>3, <2>1, <2>2, <2>3, PlacesChange
<1>9. Log!Conserved'
  <2>1. PICK a \in Nat, b \in Nat : a = Log!SumFunction(UnderWay') /\ b = Log!SumFunction(UnderWay)
    BY <1>5
  <2>2. PICK l \in Nat, d \in Nat, m \in Nat, n \in Nat :
          l = Len(records) /\ d = discarded /\ m = Len(delivered) /\ n = reported
    BY <1>1 DEF LogTyped
  <2>3. a + 0 + 0 = b + l + d
    BY <1>3, <1>4, <1>5, <2>1, <2>2, NothingIs
  <2>4. added = l + d + m + n + b
    BY <1>1, <2>1, <2>2, ConservedIs
  <2>5. added = 0 + 0 + m + n + a
    BY <2>3, <2>4
  <2>6. added' = Len(records') + discarded' + Len(delivered') + reported' + Log!SumFunction(UnderWay')
    BY <1>2, <2>1, <2>2, <2>5, NothingIs
  <2> QED BY <2>6 DEF Log!Conserved, Log!InFlight, UnderWay
<1> QED BY <1>6, <1>7, <1>8, <1>9 DEF LogInv

LEMMA WarnKeeps ==
  ASSUME LogInv, NEW g \in Threads, Log!flushWarn(g)
  PROVE  LogInv'
<1> DEFINE r == [taken[g] EXCEPT !.discarded = 0]
<1>1. LogTyped /\ OnePlace /\ Log!Conserved
  BY DEF LogInv
<1>2. /\ taken' = [taken EXCEPT ![g] = r] /\ reported' = reported + taken[g].discarded
      /\ UNCHANGED <<added, records, discarded, delivered>>
  BY DEF Log!flushWarn
<1>3. r \in Takings /\ r.records = taken[g].records /\ r.discarded = 0
  BY <1>1 DEF LogTyped, Takings
<1> HIDE DEF r
<1>4. /\ taken' \in [Threads -> Takings] /\ taken[g].records \in Seq(Int) /\ taken[g].discarded \in Nat
      /\ Log!SumFunction(UnderWay) \in Nat /\ Log!SumFunction(UnderWay') \in Nat
      /\ Log!SumFunction(UnderWay') + Len(taken[g].records) + taken[g].discarded
           = Log!SumFunction(UnderWay) + Len(r.records) + r.discarded
  BY <1>1, <1>2, <1>3, TakingChanges
<1>5. LogTyped'
  BY SMTT(30), <1>1, <1>2, <1>4 DEF LogTyped
<1>6. Newest'
  BY <1>2 DEF LogInv, Newest
<1>7. OnePlace'
  <2>1. /\ Arrived(Log!ToSet(delivered)) /\ Log!IsInjective(delivered)
        /\ Log!ToSet(records) \cap Log!ToSet(delivered) = {}
        /\ Arrived(Log!ToSet(taken[g].records)) /\ Log!IsInjective(taken[g].records)
        /\ Log!ToSet(taken[g].records) \cap (Log!ToSet(delivered) \cup Log!ToSet(records)) = {}
    BY <1>1 DEF OnePlace
  <2> QED BY <1>2, <1>3, <2>1, PlacesChange
<1>8. Log!Conserved'
  <2>1. PICK a \in Nat, b \in Nat : a = Log!SumFunction(UnderWay') /\ b = Log!SumFunction(UnderWay)
    BY <1>4
  <2>2. PICK l \in Nat, d \in Nat, m \in Nat, n \in Nat, c \in Nat, w \in Nat :
          /\ l = Len(records) /\ d = discarded /\ m = Len(delivered) /\ n = reported
          /\ c = Len(taken[g].records) /\ w = taken[g].discarded
    <3>1. /\ Len(records) \in Nat /\ discarded \in Nat /\ Len(delivered) \in Nat /\ reported \in Nat
          /\ Len(taken[g].records) \in Nat /\ taken[g].discarded \in Nat
      BY <1>1, <1>4 DEF LogTyped
    <3> QED BY <3>1, Zenon
  <2>3. a + c + w = b + c + 0
    BY <1>3, <1>4, <2>1, <2>2
  <2>4. added = l + d + m + n + b
    BY <1>1, <2>1, <2>2, ConservedIs
  <2>5. added = l + d + m + (n + w) + a
    BY <2>3, <2>4
  <2>6. added' = Len(records') + discarded' + Len(delivered') + reported' + Log!SumFunction(UnderWay')
    BY <1>2, <2>1, <2>2, <2>5
  <2> QED BY <2>6 DEF Log!Conserved, Log!InFlight, UnderWay
<1> QED BY <1>5, <1>6, <1>7, <1>8 DEF LogInv

LEMMA DeliverKeeps ==
  ASSUME LogInv, NEW g \in Threads, Log!flushDeliver(g)
  PROVE  LogInv'
<1> DEFINE s == taken[g].records
           r == [taken[g] EXCEPT !.records = Tail(s)]
<1>1. LogTyped /\ OnePlace /\ Log!Conserved
  BY DEF LogInv
<1>2. /\ s # <<>> /\ delivered' = Append(delivered, Head(s)) /\ taken' = [taken EXCEPT ![g] = r]
      /\ UNCHANGED <<added, records, discarded, reported>>
  BY DEF Log!flushDeliver
<1>3. s \in Seq(Int) /\ delivered \in Seq(Int)
  BY <1>1 DEF LogTyped, Takings
<1>4. /\ Tail(s) \in Seq(Int) /\ Len(Tail(s)) = Len(s) - 1 /\ Len(s) \in Nat \ {0}
      /\ Head(s) \in Int /\ Head(s) \in Log!ToSet(s) /\ Log!ToSet(Tail(s)) \subseteq Log!ToSet(s)
      /\ Log!IsInjective(s) => Log!IsInjective(Tail(s)) /\ Head(s) \notin Log!ToSet(Tail(s))
  BY <1>2, <1>3, TailIs
<1>5. r \in Takings /\ r.records = Tail(s) /\ r.discarded = taken[g].discarded
  BY <1>1, <1>4 DEF LogTyped, Takings
<1> HIDE DEF r
<1>6. /\ delivered' \in Seq(Int) /\ Len(delivered') = Len(delivered) + 1 /\ Len(delivered) \in Nat
      /\ Log!ToSet(delivered') = Log!ToSet(delivered) \cup {Head(s)}
      /\ Log!IsInjective(delivered) /\ Head(s) \notin Log!ToSet(delivered) => Log!IsInjective(delivered')
  BY <1>2, <1>3, <1>4, AppendIs
<1>7. /\ taken' \in [Threads -> Takings] /\ taken[g].discarded \in Nat
      /\ Log!SumFunction(UnderWay) \in Nat /\ Log!SumFunction(UnderWay') \in Nat
      /\ Log!SumFunction(UnderWay') + Len(s) + taken[g].discarded
           = Log!SumFunction(UnderWay) + Len(r.records) + r.discarded
  BY <1>1, <1>2, <1>5, TakingChanges
<1>8. LogTyped'
  BY <1>1, <1>2, <1>6, <1>7 DEF LogTyped
<1>9. Newest'
  BY <1>2 DEF LogInv, Newest
<1>10. OnePlace'
  <2>1. /\ Arrived(Log!ToSet(delivered)) /\ Log!IsInjective(delivered)
        /\ Log!ToSet(records) \cap Log!ToSet(delivered) = {}
        /\ Arrived(Log!ToSet(s)) /\ Log!IsInjective(s)
        /\ Log!ToSet(s) \cap (Log!ToSet(delivered) \cup Log!ToSet(records)) = {}
    BY <1>1 DEF OnePlace
  <2> HIDE DEF s
  <2>2. Arrived(Log!ToSet(r.records)) /\ Log!IsInjective(r.records)
    BY <1>4, <1>5, <2>1 DEF Arrived
  <2>3. Arrived(Log!ToSet(delivered')) /\ Log!IsInjective(delivered')
    BY <1>4, <1>6, <2>1 DEF Arrived
  <2>4. /\ Log!ToSet(r.records) \cup Log!ToSet(delivered') \subseteq Log!ToSet(s) \cup Log!ToSet(delivered)
        /\ Log!ToSet(r.records) \cap (Log!ToSet(delivered') \cup Log!ToSet(records)) = {}
        /\ Log!ToSet(records) \cap Log!ToSet(delivered') = {}
    BY <1>4, <1>5, <1>6, <2>1
  <2>5. records' = records /\ added' = added
    BY <1>2
  <2> QED BY <1>2, <1>5, <2>2, <2>3, <2>4, <2>5, PlacesChange DEF s
<1>11. Log!Conserved'
  <2>1. PICK a \in Nat, b \in Nat : a = Log!SumFunction(UnderWay') /\ b = Log!SumFunction(UnderWay)
    BY <1>7
  <2>2. PICK l \in Nat, d \in Nat, m \in Nat, n \in Nat, c \in Nat, w \in Nat :
          /\ l = Len(records) /\ d = discarded /\ m = Len(delivered) /\ n = reported
          /\ c = Len(s) /\ w = taken[g].discarded
    <3>1. /\ Len(records) \in Nat /\ discarded \in Nat /\ Len(delivered) \in Nat /\ reported \in Nat
          /\ Len(s) \in Nat /\ taken[g].discarded \in Nat
      BY <1>1, <1>4, <1>6, <1>7 DEF LogTyped
    <3> QED BY <3>1, Zenon
  <2>3. a + c + w = b + (c - 1) + w
    BY <1>4, <1>5, <1>7, <2>1, <2>2
  <2>4. added = l + d + m + n + b
    BY <1>1, <2>1, <2>2, ConservedIs
  <2>5. added = l + d + (m + 1) + n + a
    BY <2>3, <2>4
  <2>6. added' = Len(records') + discarded' + Len(delivered') + reported' + Log!SumFunction(UnderWay')
    BY <1>2, <1>6, <2>1, <2>2, <2>5
  <2> QED BY <2>6 DEF Log!Conserved, Log!InFlight, UnderWay
<1> QED BY <1>8, <1>9, <1>10, <1>11 DEF LogInv

LEMMA LogStep ==
  LogInv /\ [Log!Next]_logVars => LogInv'
<1> SUFFICES ASSUME LogInv, [Log!Next]_logVars PROVE LogInv'
  OBVIOUS
<1>1. CASE Log!add
  BY <1>1, AddKeeps
<1>2. ASSUME NEW g \in Threads, Log!flush(g)
      PROVE  LogInv'
  BY <1>2, TakeKeeps, WarnKeeps, DeliverKeeps DEF Log!flush
<1>3. CASE UNCHANGED logVars
  BY <1>3 DEF logVars, LogInv, LogTyped, Newest, OnePlace, Arrived, Log!Conserved, Log!InFlight
<1> QED BY <1>1, <1>2, <1>3 DEF Log!Next

LEMMA LogAtWork ==
  ASSUME [MCNext]_<<part, vars, codecVars, schemaVars, logVars>>
  PROVE  [Log!Next]_logVars
  BY DEF MCNext

LEMMA LogInvSays ==
  LogInv => LogAccounted /\ Log!TypeOK
<1> SUFFICES ASSUME LogInv PROVE LogAccounted /\ Log!TypeOK
  OBVIOUS
<1>1. LogTyped /\ Newest /\ OnePlace /\ Log!Conserved
  BY DEF LogInv
<1>2. Log!NewestKept
  <2>1. records \in Seq(Int)
    BY <1>1 DEF LogTyped
  <2>2. records = [i \in 1..Len(records) |-> records[i]]
    BY <2>1
  <2> QED BY <1>1, <2>2 DEF Newest, Log!NewestKept
<1>3. Log!AtMostOnce
  BY <1>1 DEF OnePlace, Log!AtMostOnce
<1>4. Log!TypeOK
  BY <1>1 DEF LogTyped, Log!TypeOK
<1> QED BY <1>1, <1>2, <1>3, <1>4 DEF LogAccounted

\* For every number of goroutines, size of the buffer and number of records,
\* and however additions and flushes overlap (config/log.go): a record is in one
\* place and delivered at most once, the buffer holds the newest, and none is
\* lost without being counted in what the logger is told.
THEOREM LogIsAccounted ==
  MCSpec => []LogAccounted
<1>1. MCInit => LogInv
  BY LogBegin DEF MCInit
<1>2. LogInv /\ [MCNext]_<<part, vars, codecVars, schemaVars, logVars>> => LogInv'
  BY LogAtWork, LogStep
<1>3. LogInv => LogAccounted
  BY LogInvSays
<1> QED BY <1>1, <1>2, <1>3, PTL DEF MCSpec

-----------------------------------------------------------------------------
\* Values

\* What a text can be parsed as, and what a field of each type may hold.
Readings == {t.datum : t \in Codec!Texts}
Holdable(ty) ==
    CASE ty = "string"   -> Readings
      [] ty = "bool"     -> BOOLEAN
      [] ty = "int"      -> {n \in Codec!Numbers : Codec!Fits(n, "int")}
      [] ty = "uint"     -> {n \in Codec!Numbers : Codec!Fits(n, "uint")}
      [] ty = "float"    -> Floats
      [] ty = "duration" -> 0..1
      [] ty = "strings"  -> Codec!Lists \cup {Codec!List(<<t>>) : t \in Readings}
      [] ty = "items"    -> Codec!Lists

\* What a file may hold for a field.
Written(ty, fm) == {Codec!Encode(v, ty, fm) : v \in Holdable(ty)}

\* What is saved is what the file was made from, and the field has what
\* coerceWithSchema made of the value that was supplied last.
CodecInv ==
    /\ type \in Codec!Types /\ format \in Codec!Formats
    /\ \/ saved = Codec!Failed /\ encoded = Codec!Absent
       \/ \E v \in Holdable(type) :
             saved = Codec!Value(v) /\ encoded = Codec!Encode(v, type, format)
    /\ \/ raw = Codec!Absent /\ value = Codec!Failed
       \/ raw \in Codec!Raws \cup Written(type, format)
            /\ value = Codec!coerceWithSchema(raw, type)

\* The kinds of reading, each with its data.
LEMMA ReadingIs ==
  ASSUME NEW t \in Readings
  PROVE  \/ \E w \in Words : t = Codec!Raw("word", w)
         \/ \E n \in Codec!Numbers : t = Codec!Raw("number", n)
         \/ \E n \in Codec!Numbers : t = Codec!Raw("exponent", n)
         \/ \E b \in BOOLEAN : t = Codec!Raw("bool", b)
         \/ \E n \in 0..1 : t = Codec!Raw("duration", n)
         \/ t = Codec!Raw("nan", 0)
         \/ \E l \in Codec!Lists \ {Codec!Nil} : t = Codec!Raw("array", l)
  BY DEF Readings, Codec!Texts, Codec!Raw

\* There is a nearest float, and of a float it is the float itself.
LEMMA Rounded ==
  ASSUME NEW n \in Codec!Numbers
  PROVE  /\ Codec!Round(n) \in Floats /\ Codec!Nearest(Codec!Round(n), n)
         /\ n \in Floats => Codec!Round(n) = n
<1>1. Floats # {} /\ Floats \subseteq Int /\ n \in Int
  BY PartsConstants DEF Codec!CodecConstants, Codec!Numbers
<1> DEFINE D == {Codec!Distance(g, n) : g \in Floats}
<1>2. D \in SUBSET Nat /\ D # {}
  <2>1. \A g \in Int : Codec!Distance(g, n) \in Nat
    BY <1>1 DEF Codec!Distance
  <2> QED BY <1>1, <2>1
<1>3. PICK d \in D : \A k \in D : d <= k
  BY <1>2, LeastNatural
<1>4. \E f \in Floats : Codec!Nearest(f, n)
  BY <1>3 DEF Codec!Nearest
<1>5. Codec!Round(n) \in Floats /\ Codec!Nearest(Codec!Round(n), n)
  BY <1>4 DEF Codec!Round
<1>6. ASSUME n \in Floats PROVE Codec!Round(n) = n
  <2>1. Codec!Distance(Codec!Round(n), n) <= Codec!Distance(n, n)
    BY <1>5, <1>6 DEF Codec!Nearest
  <2>2. Codec!Round(n) \in Int
    BY <1>1, <1>5
  <2> HIDE DEF D
  <2> QED BY <1>1, <2>1, <2>2 DEF Codec!Distance
<1> QED BY <1>5, <1>6

LEMMA TextRead ==
  ASSUME NEW t \in Readings, NEW ty \in Codec!Types
  PROVE  \/ Codec!FromText(t, ty) = Codec!Failed
         \/ \E v \in Holdable(ty) : Codec!FromText(t, ty) = Codec!Value(v)
<1> USE DEF Codec!Raw, Codec!If
<1>1. CASE ty = "string"
  BY <1>1 DEF Codec!FromText, Holdable
<1>2. CASE ty = "strings"
  BY <1>2, ReadingIs DEF Codec!FromText, Holdable
<1>3. CASE ty = "duration"
  BY <1>3, ReadingIs DEF Codec!FromText, Holdable
<1>4. CASE ty = "bool"
  <2>1. PICK b \in BOOLEAN : b = (t.datum = 2)
    OBVIOUS
  <2>2. CASE t \in {Codec!Raw("number", 0), Codec!Raw("number", 2)}
    <3>1. Codec!FromText(t, ty) = Codec!Value(b)
      BY <1>4, <2>1, <2>2 DEF Codec!FromText
    <3> QED BY <1>4, <3>1 DEF Holdable
  <2>3. CASE t \notin {Codec!Raw("number", 0), Codec!Raw("number", 2)} /\ t.kind = "bool"
    <3>1. Codec!FromText(t, ty) = Codec!Value(t.datum)
      BY <1>4, <2>3 DEF Codec!FromText
    <3>2. t.datum \in BOOLEAN
      BY <2>3, ReadingIs
    <3> QED BY <1>4, <3>1, <3>2 DEF Holdable
  <2>4. CASE t \notin {Codec!Raw("number", 0), Codec!Raw("number", 2)} /\ t.kind # "bool"
    BY <1>4, <2>4 DEF Codec!FromText
  <2> QED BY <2>2, <2>3, <2>4
<1>5. CASE ty = "items"
  BY <1>5, ReadingIs DEF Codec!FromText, Holdable
<1>6. CASE ty = "int"
  BY <1>6, ReadingIs DEF Codec!FromText, Codec!ParseNumber, Holdable
<1>7. CASE ty = "uint"
  BY <1>7, ReadingIs DEF Codec!FromText, Codec!ParseNumber, Holdable
<1>8. CASE ty = "float"
  <2>1. CASE t.kind \in {"number", "exponent"}
    <3>1. t.datum \in Codec!Numbers
      BY <2>1, ReadingIs
    <3>2. Codec!FromText(t, ty) = Codec!Value(Codec!Round(t.datum))
      BY <1>8, <2>1 DEF Codec!FromText, Codec!ParseNumber
    <3> QED BY <1>8, <3>1, <3>2, Rounded DEF Holdable
  <2>2. CASE t.kind \notin {"number", "exponent"}
    BY <1>8, <2>2 DEF Codec!FromText
  <2> QED BY <2>1, <2>2
<1> QED BY <1>1, <1>2, <1>3, <1>4, <1>5, <1>6, <1>7, <1>8 DEF Codec!Types

LEMMA RawIs ==
  ASSUME NEW r \in Codec!Raws
  PROVE  \/ \E t \in Readings : r = Codec!Raw("text", t)
         \/ \E b \in BOOLEAN : r = Codec!Raw("bool", b)
         \/ \E n \in Codec!Numbers : Codec!Fits(n, "int") /\ r = Codec!Raw("int", n)
         \/ \E n \in Codec!Numbers : Codec!Fits(n, "uint") /\ r = Codec!Raw("uint", n)
         \/ \E n \in Floats : r = Codec!Raw("float", n)
         \/ \E n \in Codec!Numbers : r = Codec!Raw("number", n)
         \/ \E n \in Codec!Numbers : r = Codec!Raw("exponent", n)
         \/ \E n \in 0..1 : r = Codec!Raw("duration", n)
         \/ \E l \in Codec!Lists : r = Codec!Raw("strings", l)
         \/ \E l \in Codec!Lists : r = Codec!Raw("items", l)
         \/ \E l \in Codec!Lists \ {Codec!Nil} : r = Codec!Raw("list", l)
         \/ \E l \in Codec!Lists \ {Codec!Nil, Codec!Empty} : r = Codec!Raw("objects", l)
         \/ r.kind \in {"nan", "mixed", "object", "null"}
<1>1. CASE r \in Codec!Texts
  <2>1. r.datum \in Readings /\ r = Codec!Raw("text", r.datum)
    BY <1>1 DEF Readings, Codec!Texts, Codec!Raw
  <2> QED BY <2>1
<1>2. CASE r \in Codec!Natives
  BY <1>2 DEF Codec!Natives, Codec!Raw
<1>3. CASE r \in Codec!Decoded
  BY <1>3 DEF Codec!Decoded, Codec!Raw, Codec!Null
<1> QED BY <1>1, <1>2, <1>3 DEF Codec!Raws

Converts(r, ty) ==
    \/ Codec!coerceWithSchema(r, ty) = Codec!Failed
    \/ \E v \in Holdable(ty) : Codec!coerceWithSchema(r, ty) = Codec!Value(v)

LEMMA NumberConverts ==
  ASSUME NEW n \in Codec!Numbers, NEW k \in Codec!Numeric, NEW ty \in Codec!Types,
         k \in {"int", "uint"} => Codec!Fits(n, k), k = "float" => n \in Floats
  PROVE  Converts(Codec!Raw(k, n), ty)
<1>1. Codec!Sprint(Codec!Raw(k, n)) \in Readings
  <2>1. PICK s \in {"number", "exponent"} : Codec!Sprint(Codec!Raw(k, n)) = Codec!Raw(s, n)
    BY DEF Codec!Sprint, Codec!Raw
  <2>2. Codec!Raw("text", Codec!Raw(s, n)) \in Codec!Texts
    BY DEF Codec!Texts
  <2>3. Codec!Raw("text", Codec!Raw(s, n)).datum = Codec!Raw(s, n)
    BY DEF Codec!Raw
  <2> QED BY <2>1, <2>2, <2>3 DEF Readings
<1>2. CASE k = ty
  BY <1>2 DEF Converts, Codec!coerceWithSchema, Codec!Numeric, Codec!Raw, Codec!Types, Holdable
<1>3. CASE k # ty /\ ty \in {"string", "items"}
  BY <1>3 DEF Converts, Codec!coerceWithSchema, Codec!Raw, Codec!Numeric
<1>4. CASE k # ty /\ ty \notin {"string", "items"}
  <2> DEFINE r == Codec!Raw(k, n)
  <2>1. r.kind = k /\ k \notin {"text", "list", "objects"} /\ r.kind # ty /\ ty # "string"
    BY <1>4 DEF Codec!Raw, Codec!Numeric
  <2> HIDE DEF r
  <2>2. Codec!coerceWithSchema(r, ty) = Codec!FromText(Codec!Sprint(r), ty)
    BY <1>4, <2>1 DEF Codec!coerceWithSchema
  <2> QED BY <1>1, <2>2, TextRead DEF Converts, r
<1> QED BY <1>2, <1>3, <1>4

LEMMA RawConverts ==
  ASSUME NEW r \in Codec!Raws, NEW ty \in Codec!Types
  PROVE  Converts(r, ty)
<1>1. CASE \E t \in Readings : r = Codec!Raw("text", t)
  <2>1. PICK t \in Readings : r = Codec!Raw("text", t)
    BY <1>1
  <2>2. Codec!coerceWithSchema(r, ty) = Codec!FromText(t, ty)
    BY <2>1 DEF Codec!coerceWithSchema, Codec!Raw
  <2> QED BY <2>2, TextRead DEF Converts
<1>2. CASE \E b \in BOOLEAN : r = Codec!Raw("bool", b)
  <2>1. PICK b \in BOOLEAN : r = Codec!Raw("bool", b)
    BY <1>2
  <2>2. r.kind = "bool" /\ r.datum = b
    BY <2>1 DEF Codec!Raw
  <2>3. CASE ty = "bool"
    <3>1. Codec!coerceWithSchema(r, ty) = Codec!Value(b)
      BY <2>2, <2>3 DEF Codec!coerceWithSchema
    <3> QED BY <2>3, <3>1 DEF Converts, Holdable
  <2>4. CASE ty \in {"string", "items"}
    BY <2>2, <2>4 DEF Codec!coerceWithSchema, Converts
  <2>5. CASE ty \notin {"string", "items", "bool"}
    <3>1. Codec!Raw("text", Codec!Raw("bool", b)) \in Codec!Texts
      BY DEF Codec!Texts
    <3>2. Codec!Raw("text", Codec!Raw("bool", b)).datum = r
      BY <2>1 DEF Codec!Raw
    <3>3. r \in Readings
      BY <3>1, <3>2 DEF Readings
    <3>4. Codec!coerceWithSchema(r, ty) = Codec!FromText(r, ty)
      BY <2>2, <2>5 DEF Codec!coerceWithSchema, Codec!Numeric
    <3> QED BY <3>3, <3>4, TextRead DEF Converts
  <2> QED BY <2>3, <2>4, <2>5
<1>3. CASE \E n \in Codec!Numbers : Codec!Fits(n, "int") /\ r = Codec!Raw("int", n)
  BY <1>3, NumberConverts DEF Codec!Numeric
<1>4. CASE \E n \in Codec!Numbers : Codec!Fits(n, "uint") /\ r = Codec!Raw("uint", n)
  BY <1>4, NumberConverts DEF Codec!Numeric
<1>5. CASE \E n \in Floats : r = Codec!Raw("float", n)
  <2>1. Floats \subseteq Codec!Numbers
    BY PartsConstants DEF Codec!CodecConstants
  <2> QED BY <1>5, <2>1, NumberConverts DEF Codec!Numeric
<1>6. CASE \E n \in Codec!Numbers : r = Codec!Raw("number", n) \/ r = Codec!Raw("exponent", n)
  BY <1>6, NumberConverts DEF Codec!Numeric
<1>7. CASE \E n \in 0..1 : r = Codec!Raw("duration", n)
  BY <1>7 DEF Codec!coerceWithSchema, Codec!Numeric, Codec!Raw, Converts, Holdable, Codec!Types
<1>8. CASE \E l \in Codec!Lists : r = Codec!Raw("strings", l)
  BY <1>8 DEF Codec!coerceWithSchema, Codec!Numeric, Codec!Raw, Converts, Holdable, Codec!Types, Codec!Copied,
              Codec!Lists
<1>9. CASE \E l \in Codec!Lists : r = Codec!Raw("items", l)
  BY <1>9 DEF Codec!coerceWithSchema, Codec!Numeric, Codec!Raw, Converts, Holdable, Codec!Types
<1>10. CASE \E l \in Codec!Lists \ {Codec!Nil} : r = Codec!Raw("list", l)
  BY <1>10 DEF Codec!coerceWithSchema, Codec!Raw, Converts, Holdable, Codec!Types, Codec!If
<1>11. CASE \E l \in Codec!Lists \ {Codec!Nil, Codec!Empty} : r = Codec!Raw("objects", l)
  BY <1>11 DEF Codec!coerceWithSchema, Codec!Raw, Converts, Holdable, Codec!Types, Codec!If
<1>12. CASE r.kind \in {"nan", "mixed", "object", "null"}
  BY <1>12 DEF Codec!coerceWithSchema, Codec!Numeric, Converts, Codec!Types
<1> QED BY <1>1, <1>2, <1>3, <1>4, <1>5, <1>6, <1>7, <1>8, <1>9, <1>10, <1>11, <1>12, RawIs

\* A list that a field holds, as the file's format has it.
LEMMA ListKept ==
  ASSUME NEW ty \in {"strings", "items"}, NEW v \in Holdable(ty), NEW fm \in Codec!Formats
  PROVE  /\ v.nil \in BOOLEAN
         /\ v.nil /\ fm = "json" => Codec!coerceWithSchema(Codec!Encode(v, ty, fm), ty) = Codec!Failed
         /\ v.nil /\ fm # "json" =>
              Codec!coerceWithSchema(Codec!Encode(v, ty, fm), ty) = Codec!Value(Codec!Empty)
         /\ ~v.nil => Codec!coerceWithSchema(Codec!Encode(v, ty, fm), ty) = Codec!Value(v)
<1>1. v = Codec!Nil \/ v = Codec!Empty \/ \E x : v = Codec!List(<<x>>)
  BY DEF Holdable, Codec!Lists
<1> USE DEF Codec!Encode, Codec!Array, Codec!coerceWithSchema, Codec!Raw, Codec!If, Codec!Null,
            Codec!Value, Codec!Failed, Codec!Numeric
<1>2. CASE v = Codec!Nil
  BY <1>2 DEF Codec!Nil, Codec!Empty, Codec!List
<1>3. CASE v = Codec!Empty
  BY <1>3 DEF Codec!Empty, Codec!List
<1>4. CASE \E x : v = Codec!List(<<x>>)
  <2>1. PICK x : v = Codec!List(<<x>>)
    BY <1>4
  <2>2. v.nil = FALSE /\ v.items = <<x>> /\ v.items # <<>> /\ Codec!List(v.items) = v
    BY <2>1 DEF Codec!List
  <2> QED BY <2>2
<1> QED BY <1>1, <1>2, <1>3, <1>4

\* What is saved of a field is loaded again as it was; only of a nil list JSON
\* keeps nothing, and the other formats an empty one.
LEMMA EncodedReturns ==
  ASSUME NEW ty \in Codec!Types, NEW v \in Holdable(ty), NEW fm \in Codec!Formats
  PROVE  /\ ty \notin {"strings", "items"} =>
              Codec!coerceWithSchema(Codec!Encode(v, ty, fm), ty) = Codec!Value(v)
         /\ Converts(Codec!Encode(v, ty, fm), ty)
         /\ ty = "string" => Codec!Encode(v, ty, fm).kind = "text"
<1> USE DEF Codec!Encode, Codec!coerceWithSchema, Codec!FromText, Codec!Raw, Codec!If, Holdable
<1>1. CASE ty = "string"
  BY <1>1 DEF Converts
<1>2. CASE ty = "bool"
  BY <1>2 DEF Converts
<1>3. CASE ty = "duration"
  BY <1>3 DEF Converts
<1>4. CASE ty \in {"int", "uint", "float"}
  <2> DEFINE r == Codec!Numeral(v, ty, fm)
  <2>1. /\ r.kind \in {"number", "int", "uint", "float"} /\ r.datum = v
        /\ r.kind = "float" => ty = "float"
    BY <1>4 DEF Codec!Numeral
  <2>2. Codec!Encode(v, ty, fm) = r
    BY <1>4
  <2>3. r.kind # "float" => Codec!Sprint(r) = Codec!Raw("number", v)
    BY <2>1 DEF Codec!Sprint
  <2>4. Codec!ParseNumber(v, ty) = Codec!Value(v)
    <3>1. CASE ty = "float"
      <4>1. v \in Floats /\ v \in Codec!Numbers
        BY <3>1, PartsConstants DEF Codec!CodecConstants
      <4> QED BY <3>1, <4>1, Rounded DEF Codec!ParseNumber
    <3>2. CASE ty \in {"int", "uint"}
      BY <3>2 DEF Codec!ParseNumber
    <3> QED BY <1>4, <3>1, <3>2
  <2>5. Codec!FromText(Codec!Raw("number", v), ty) = Codec!Value(v)
    BY <1>4, <2>4
  <2> HIDE DEF r, Codec!FromText, Codec!Encode, Holdable
  <2>6. Codec!coerceWithSchema(r, ty) = Codec!Value(v)
    <3>1. CASE r.kind = ty
      BY <1>4, <2>1, <3>1
    <3>2. CASE r.kind # ty
      BY <1>4, <2>1, <2>3, <2>5, <3>2 DEF Codec!Numeric
    <3> QED BY <3>1, <3>2
  <2> QED BY <1>4, <2>2, <2>6 DEF Converts
<1>5. CASE ty \in {"strings", "items"}
  <2>1. Codec!Empty \in Holdable(ty)
    BY <1>5 DEF Codec!Lists
  <2> HIDE DEF Codec!Encode, Codec!coerceWithSchema, Holdable
  <2>2. Converts(Codec!Encode(v, ty, fm), ty)
    BY <1>5, <2>1, ListKept DEF Converts
  <2> QED BY <1>5, <2>2
<1> QED BY <1>1, <1>2, <1>3, <1>4, <1>5 DEF Codec!Types

LEMMA ValueHeld ==
  ASSUME CodecInv, value.ok
  PROVE  \E v \in Holdable(type) : value = Codec!Value(v)
<1>1. raw \in Codec!Raws \cup Written(type, format) /\ value = Codec!coerceWithSchema(raw, type)
  BY DEF CodecInv, Codec!Failed
<1>2. Converts(raw, type)
  BY <1>1, RawConverts, EncodedReturns DEF CodecInv, Written
<1> QED BY <1>1, <1>2 DEF Converts, Codec!Failed

LEMMA CodecStep ==
  CodecInv /\ [Codec!Next]_codecVars => CodecInv'
<1> SUFFICES ASSUME CodecInv, [Codec!Next]_codecVars PROVE CodecInv'
  OBVIOUS
<1>1. ASSUME NEW r \in Codec!Raws, Codec!Set(r) PROVE CodecInv'
  BY <1>1 DEF CodecInv, Codec!Set
<1>2. CASE Codec!Save
  <2>1. PICK v \in Holdable(type) : value = Codec!Value(v)
    BY <1>2, ValueHeld DEF Codec!Save
  <2>2. value.datum = v
    BY <2>1 DEF Codec!Value
  <2> QED BY <1>2, <2>1, <2>2 DEF CodecInv, Codec!Save
<1>3. CASE Codec!Load
  <2>1. encoded \in Written(type, format)
    BY <1>3 DEF CodecInv, Codec!Load, Written
  <2> QED BY <1>3, <2>1 DEF CodecInv, Codec!Load
<1>4. CASE UNCHANGED codecVars
  BY <1>4 DEF codecVars, CodecInv
<1> QED BY <1>1, <1>2, <1>3, <1>4 DEF Codec!Next

\* What a field of a numeric type makes of a number.
NumberTaken(given, ty, v) ==
    /\ ty \in {"int", "uint"} => v = given.datum
    /\ ty = "float" => Codec!Nearest(v, given.datum) /\ (given.datum \in Floats => v = given.datum)

\* A number among the raw values and what Save wrote is one of Numbers, and a
\* native float a float.
LEMMA SuppliedNumber ==
  ASSUME CodecInv, raw \in Codec!Raws \cup Written(type, format), Codec!Supplied.kind \in Codec!Numeric,
         type \in {"int", "uint", "float"}
  PROVE  /\ Codec!Supplied.datum \in Codec!Numbers
         /\ raw.kind = "text" => Codec!Supplied.kind \in {"number", "exponent"}
         /\ Codec!Supplied.kind = "float" => Codec!Supplied.datum \in Floats
<1> USE DEF Codec!Supplied, Codec!Numeric, Codec!Raw
<1>1. Floats \subseteq Codec!Numbers
  BY PartsConstants DEF Codec!CodecConstants
<1>2. CASE raw \in Codec!Raws
  <2>1. CASE raw.kind = "text"
    <3>1. raw.datum \in Readings
      BY <1>2, <2>1, RawIs
    <3> QED BY <2>1, <3>1, ReadingIs
  <2>2. CASE raw.kind # "text"
    BY <1>1, <1>2, <2>2, RawIs
  <2> QED BY <2>1, <2>2
<1>3. CASE raw \in Written(type, format)
  <2>1. PICK v \in Holdable(type) : raw = Codec!Numeral(v, type, format)
    BY <1>3 DEF Written, Codec!Encode
  <2>2. v \in Codec!Numbers /\ (type = "float" => v \in Floats)
    BY <1>1 DEF Holdable
  <2> QED BY <2>1, <2>2 DEF Codec!Numeral
<1> QED BY <1>2, <1>3

LEMMA NumbersTaken ==
  ASSUME CodecInv, raw \in Codec!Raws \cup Written(type, format), value.ok,
         value = Codec!coerceWithSchema(raw, type),
         Codec!Supplied.kind \in Codec!Numeric, type \in {"int", "uint", "float"}
  PROVE  NumberTaken(Codec!Supplied, type, value.datum)
<1> DEFINE given == Codec!Supplied
           text == IF raw.kind = "text" THEN raw.datum ELSE Codec!Sprint(raw)
<1>1. /\ given.datum \in Codec!Numbers
      /\ raw.kind = "text" => given.kind \in {"number", "exponent"}
      /\ given.kind = "float" => given.datum \in Floats
  BY SuppliedNumber
<1>2. CASE raw.kind = type
  <2>1. given = raw /\ value.datum = given.datum
    BY <1>2 DEF Codec!Supplied, Codec!coerceWithSchema, Codec!Value
  <2>2. ASSUME type = "float" PROVE Codec!Nearest(given.datum, given.datum)
    <3>1. given.datum \in Floats /\ Floats \subseteq Int
      BY <1>1, <1>2, <2>1, <2>2, PartsConstants DEF Codec!CodecConstants, Codec!Numbers
    <3> QED BY <3>1, Rounded, <1>1
  <2> QED BY <2>1, <2>2 DEF NumberTaken
<1>3. CASE raw.kind # type
  <2>1. value = Codec!FromText(text, type)
    <3>1. CASE raw.kind = "text"
      BY <3>1 DEF Codec!coerceWithSchema
    <3>2. CASE raw.kind # "text"
      <4>1. raw.kind \in Codec!Numeric
        BY <3>2 DEF Codec!Supplied
      <4> QED BY <1>3, <3>2, <4>1 DEF Codec!coerceWithSchema, Codec!Numeric
    <3> QED BY <3>1, <3>2
  <2>2. text.kind \in {"number", "exponent"} /\ text.datum = given.datum
    BY <1>1 DEF Codec!Supplied, Codec!Sprint, Codec!Raw
  <2> HIDE DEF text, given
  <2>3. value = Codec!ParseNumber(given.datum, type)
    BY <2>1, <2>2 DEF Codec!FromText, Codec!Failed
  <2>4. CASE type = "float"
    <3>1. value.datum = Codec!Round(given.datum)
      BY <2>3, <2>4 DEF Codec!ParseNumber, Codec!Value
    <3> QED BY <1>1, <2>4, <3>1, Rounded DEF NumberTaken, given
  <2>5. CASE type \in {"int", "uint"}
    <3>1. value.datum = given.datum
      BY <2>3, <2>5 DEF Codec!ParseNumber, Codec!If, Codec!Value, Codec!Failed
    <3> QED BY <2>5, <3>1 DEF NumberTaken, given
  <2> QED BY <2>4, <2>5
<1> QED BY <1>2, <1>3

LEMMA CodecInvSays ==
  CodecInv => Codec!TypeOK /\ Codec!Exact /\ Codec!SavedReloads
<1> SUFFICES ASSUME CodecInv PROVE Codec!TypeOK /\ Codec!Exact /\ Codec!SavedReloads
  OBVIOUS
<1>1. Codec!TypeOK
  <2>1. SUFFICES ASSUME value.ok
                 PROVE  CASE type \in {"int", "uint"} -> Codec!Fits(value.datum, type)
                          [] type = "bool" -> value.datum \in BOOLEAN
                          [] type = "float" -> value.datum \in Floats
                          [] OTHER -> TRUE
    BY DEF Codec!TypeOK, CodecInv
  <2>2. value.datum \in Holdable(type)
    BY <2>1, ValueHeld DEF Codec!Value
  <2> QED BY <2>2 DEF Holdable
<1>2. Codec!Exact
  <2>1. SUFFICES ASSUME value.ok
                 PROVE  /\ Codec!Supplied.kind \in Codec!Numeric /\ type \in {"int", "uint", "float"}
                             => NumberTaken(Codec!Supplied, type, value.datum)
                        /\ type = "string" => raw.kind = "text"
    BY DEF Codec!Exact, NumberTaken
  <2>2. raw \in Codec!Raws \cup Written(type, format) /\ value = Codec!coerceWithSchema(raw, type)
    BY <2>1 DEF CodecInv, Codec!Failed
  <2>3. Codec!Supplied.kind \in Codec!Numeric /\ type \in {"int", "uint", "float"}
          => NumberTaken(Codec!Supplied, type, value.datum)
    BY <2>1, <2>2, NumbersTaken
  <2>4. ASSUME type = "string" PROVE raw.kind = "text"
    <3>1. CASE raw \in Written(type, format)
      BY <2>4, <3>1, EncodedReturns DEF Written, CodecInv
    <3>2. CASE raw \in Codec!Raws
      <4>1. raw.kind # "string"
        BY <3>2, RawIs DEF Codec!Raw
      <4> QED BY <2>1, <2>2, <2>4, <4>1 DEF Codec!coerceWithSchema, Codec!Failed
    <3> QED BY <2>2, <3>1, <3>2
  <2> QED BY <2>3, <2>4
<1>3. Codec!SavedReloads
  <2> SUFFICES ASSUME saved.ok, ~(format = "json" /\ Codec!SavedNil)
               PROVE  Codec!coerceWithSchema(encoded, type)
                        = IF Codec!SavedNil THEN Codec!Value(Codec!Empty) ELSE saved
    BY DEF Codec!SavedReloads
  <2>1. PICK v \in Holdable(type) :
               saved = Codec!Value(v) /\ encoded = Codec!Encode(v, type, format)
    BY DEF CodecInv, Codec!Failed
  <2>2. saved.datum = v /\ type \in Codec!Types /\ format \in Codec!Formats
    BY <2>1 DEF Codec!Value, CodecInv
  <2>3. CASE type \notin {"strings", "items"}
    BY <2>1, <2>2, <2>3, EncodedReturns DEF Codec!SavedNil
  <2>4. CASE type \in {"strings", "items"}
    BY <2>1, <2>2, <2>4, ListKept DEF Codec!SavedNil
  <2> QED BY <2>3, <2>4
<1> QED BY <1>1, <1>2, <1>3

LEMMA CodecAtWork ==
  ASSUME [MCNext]_<<part, vars, codecVars, schemaVars, logVars>>
  PROVE  [Codec!Next]_codecVars
  BY DEF MCNext

\* For every width of integers, every set of floats and every text
\* (coerceWithSchema of config/decode.go, Save and Load of config/file.go): a
\* value fits into its field, an integer field takes a number as it is or not at
\* all, a float field the nearest float, and what was saved in any of the formats
\* is what the next program loads, except for a nil list.
THEOREM ValuesKept ==
  MCSpec => [](Codec!TypeOK /\ Codec!Exact /\ Codec!SavedReloads)
<1>1. MCInit => CodecInv
  BY DEF MCInit, Codec!Init, CodecInv
<1>2. CodecInv /\ [MCNext]_<<part, vars, codecVars, schemaVars, logVars>> => CodecInv'
  BY CodecAtWork, CodecStep
<1> QED BY <1>1, <1>2, CodecInvSays, PTL DEF MCSpec

-----------------------------------------------------------------------------
\* The order of keys

Text == Seq(Schema!Chars)

LEMMA PrefixIs ==
  ASSUME NEW T, NEW s \in Seq(T), NEW t \in Seq(T)
  PROVE  Schema!IsPrefix(s, t) <=> Len(s) <= Len(t) /\ \A i \in 1..Len(s) : s[i] = t[i]
<1>1. PICK m \in Nat, n \in Nat : m = Len(s) /\ n = Len(t)
  OBVIOUS
<1>2. ASSUME m <= n
      PROVE  SubSeq(s, 1, m) = SubSeq(t, 1, m) <=> \A i \in 1..m : s[i] = t[i]
  <2>1. /\ SubSeq(s, 1, m) = [i \in 1..m |-> s[i]]
        /\ SubSeq(t, 1, m) = [i \in 1..m |-> t[i]]
    BY <1>1, <1>2
  <2> QED BY <2>1
<1> QED BY <1>1, <1>2 DEF Schema!IsPrefix

LEMMA Letters ==
  ASSUME NEW k \in Text
  PROVE  Len(k) \in Nat /\ \A i \in 1..Len(k) : k[i] \in 1..4 /\ k[i] \in Nat
  BY DEF Text, Schema!Chars, Schema!Hyphen, Schema!LetterA

\* Where a key is apart from a greater one for the first time: there it ends or
\* has a lower character.
Apart(k, l, i) ==
    /\ i <= Len(k) + 1
    /\ \A j \in 1..(i - 1) : k[j] = l[j]
    /\ i <= Len(k) => k[i] < l[i]

LEMMA LessIs ==
  ASSUME NEW k \in Text, NEW l \in Text
  PROVE  Schema!Less(k, l) <=> \E i \in 1..Len(l) : Apart(k, l, i)
<1>1. PICK m \in Nat, n \in Nat : m = Len(k) /\ n = Len(l)
  BY DEF Text
<1>2. Schema!IsPrefix(k, l) <=> m <= n /\ \A i \in 1..m : k[i] = l[i]
  BY <1>1, PrefixIs DEF Text
<1>3. ASSUME Schema!IsStrictPrefix(k, l)
      PROVE  \E i \in 1..n : Apart(k, l, i)
  <2>1. m <= n /\ k # l /\ \A i \in 1..m : k[i] = l[i]
    BY <1>2, <1>3 DEF Schema!IsStrictPrefix
  <2>2. m # n
    <3>1. m = n => k = l
      BY <1>1, <2>1, SeqEqual DEF Text
    <3> QED BY <2>1, <3>1
  <2>3. m + 1 \in 1..n /\ Apart(k, l, m + 1)
    BY <1>1, <2>1, <2>2 DEF Apart
  <2> QED BY <2>3
<1>4. ASSUME NEW i \in 1..m, i <= n, k[i] < l[i], \A j \in 1..i-1 : k[j] = l[j]
      PROVE  \E a \in 1..n : Apart(k, l, a)
  <2>1. i \in 1..n /\ Apart(k, l, i)
    BY <1>1, <1>4 DEF Apart
  <2> QED BY <2>1
<1>5. ASSUME NEW i \in 1..n, Apart(k, l, i)
      PROVE  Schema!Less(k, l)
  <2>1. i <= m + 1 /\ (\A j \in 1..(i - 1) : k[j] = l[j]) /\ (i <= m => k[i] < l[i])
    BY <1>1, <1>5 DEF Apart
  <2>2. CASE i <= m
    <3>1. i \in 1..m /\ i <= n
      BY <2>2
    <3> QED BY <1>1, <2>1, <2>2, <3>1 DEF Schema!Less
  <2>3. CASE i = m + 1
    <3>1. m < n /\ \A j \in 1..m : k[j] = l[j]
      BY <2>1, <2>3
    <3>2. k # l
      BY <1>1, <3>1
    <3>3. Schema!IsStrictPrefix(k, l)
      BY <1>2, <3>1, <3>2 DEF Schema!IsStrictPrefix
    <3> QED BY <3>3 DEF Schema!Less
  <2> QED BY <2>1, <2>2, <2>3
<1> QED BY <1>1, <1>3, <1>4, <1>5 DEF Schema!Less

LEMMA NotLessItself ==
  ASSUME NEW k \in Text
  PROVE  ~ Schema!Less(k, k)
<1>1. \A i \in 1..Len(k) : ~ Apart(k, k, i)
  BY Letters DEF Apart
<1> QED BY <1>1, LessIs

LEMMA LessThrough ==
  ASSUME NEW k \in Text, NEW l \in Text, NEW m \in Text, Schema!Less(k, l), Schema!Less(l, m)
  PROVE  Schema!Less(k, m)
<1>1. PICK a \in 1..Len(l) : Apart(k, l, a)
  BY LessIs
<1>2. PICK b \in 1..Len(m) : Apart(l, m, b)
  BY LessIs
<1>3. PICK x \in Nat, y \in Nat, z \in Nat : x = Len(k) /\ y = Len(l) /\ z = Len(m)
  BY DEF Text
<1>4. /\ \A i \in 1..x : k[i] \in Nat
      /\ \A i \in 1..y : l[i] \in Nat
      /\ \A i \in 1..z : m[i] \in Nat
  BY <1>3, Letters
<1>5. /\ a <= x + 1 /\ (\A j \in 1..(a - 1) : k[j] = l[j]) /\ (a <= x => k[a] < l[a])
      /\ b <= y + 1 /\ (\A j \in 1..(b - 1) : l[j] = m[j]) /\ (b <= y => l[b] < m[b])
      /\ a \in 1..y /\ b \in 1..z
  BY <1>1, <1>2, <1>3 DEF Apart
<1>6. CASE a < b
  <2>1. a \in 1..z /\ l[a] = m[a] /\ \A j \in 1..(a - 1) : k[j] = m[j]
    BY <1>5, <1>6
  <2>2. Apart(k, m, a)
    BY <1>3, <1>5, <2>1 DEF Apart
  <2> QED BY <1>3, <2>1, <2>2, LessIs
<1>7. CASE a >= b
  <2>1. b <= y /\ b <= x + 1 /\ \A j \in 1..(b - 1) : k[j] = m[j]
    BY <1>5, <1>7
  <2>2. ASSUME b <= x PROVE k[b] < m[b]
    <3>1. b \in 1..x /\ b \in 1..y /\ b \in 1..z
      BY <1>5, <2>1, <2>2
    <3>2. l[b] < m[b] /\ k[b] <= l[b]
      <4>1. CASE a = b
        BY <1>4, <1>5, <2>1, <2>2, <3>1, <4>1
      <4>2. CASE b < a
        <5>1. b \in 1..(a - 1)
          BY <1>5, <3>1, <4>2
        <5> QED BY <1>4, <1>5, <2>1, <3>1, <5>1
      <4> QED BY <1>5, <1>7, <4>1, <4>2
    <3> QED BY <1>4, <3>1, <3>2
  <2>3. Apart(k, m, b)
    BY <1>3, <2>1, <2>2 DEF Apart
  <2> QED BY <1>3, <1>5, <2>3, LessIs
<1> QED BY <1>5, <1>6, <1>7

LEMMA OneIsLess ==
  ASSUME NEW k \in Text, NEW l \in Text, k # l
  PROVE  Schema!Less(k, l) \/ Schema!Less(l, k)
<1>1. PICK m \in Nat, n \in Nat : m = Len(k) /\ n = Len(l)
  BY DEF Text
<1>2. /\ \A i \in 1..m : k[i] \in Nat
      /\ \A i \in 1..n : l[i] \in Nat
  BY <1>1, Letters
<1> DEFINE D == {i \in Nat : i > 0 /\ (i > m \/ i > n \/ k[i] # l[i])}
<1>3. m + 1 \in D /\ D \in SUBSET Nat
  OBVIOUS
<1>4. PICK d \in D : \A i \in D : d <= i
  BY <1>3, LeastNatural
<1>5. d \in Nat /\ d > 0 /\ (d > m \/ d > n \/ k[d] # l[d]) /\ d <= m + 1 /\ d <= n + 1
  <2>1. n + 1 \in D
    OBVIOUS
  <2> QED BY <1>3, <1>4, <2>1
<1>6. \A j \in 1..(d - 1) : j <= m /\ j <= n /\ k[j] = l[j]
  <2> SUFFICES ASSUME NEW j \in 1..(d - 1) PROVE j <= m /\ j <= n /\ k[j] = l[j]
    OBVIOUS
  <2>1. j \in Nat /\ j > 0 /\ j < d
    BY <1>5
  <2>2. j \notin D
    BY <1>4, <1>5, <2>1
  <2> QED BY <2>1, <2>2
<1> HIDE DEF D
<1>7. CASE d <= m /\ d <= n
  <2>1. d \in 1..m /\ d \in 1..n /\ (k[d] < l[d] \/ l[d] < k[d])
    BY <1>2, <1>5, <1>7
  <2>2. Apart(k, l, d) \/ Apart(l, k, d)
    BY <1>1, <1>6, <2>1 DEF Apart
  <2> QED BY <1>1, <2>1, <2>2, LessIs
<1>8. CASE d = m + 1 /\ d <= n
  <2>1. d \in 1..n /\ Apart(k, l, d)
    BY <1>1, <1>6, <1>8 DEF Apart
  <2> QED BY <1>1, <2>1, LessIs
<1>9. CASE d = n + 1 /\ d <= m
  <2>1. d \in 1..m /\ Apart(l, k, d)
    BY <1>1, <1>6, <1>9 DEF Apart
  <2> QED BY <1>1, <2>1, LessIs
<1>10. CASE d = m + 1 /\ d = n + 1
  <2>1. m = n /\ \A j \in 1..m : k[j] = l[j]
    BY <1>6, <1>10
  <2> QED BY <1>1, <2>1, SeqEqual DEF Text
<1> QED BY <1>5, <1>7, <1>8, <1>9, <1>10

\* Without hyphens nothing comes between a key and those in its namespace but
\* others in its namespace.
LEMMA Between ==
  ASSUME NEW k \in Text, NEW h \in Text, NEW l \in Text,
         ~ Schema!Contains(h, Schema!Hyphen), Schema!Less(k, h), h = l \/ Schema!Less(h, l),
         Schema!IsPrefix(k \o <<Schema!Dot>>, l)
  PROVE  Schema!IsPrefix(k \o <<Schema!Dot>>, h)
<1> DEFINE dotted == k \o <<Schema!Dot>>
<1>1. PICK x \in Nat, y \in Nat, z \in Nat : x = Len(k) /\ y = Len(h) /\ z = Len(l)
  BY DEF Text
<1>2. /\ \A i \in 1..x : k[i] \in Nat
      /\ \A i \in 1..y : h[i] \in 1..4
      /\ \A i \in 1..z : l[i] \in Nat
  BY <1>1, Letters
<1>3. \A i \in 1..y : h[i] # 1
  BY <1>1 DEF Schema!Contains, Schema!Hyphen
<1>4. /\ dotted \in Text /\ Len(dotted) = x + 1 /\ dotted[x + 1] = 2
      /\ \A i \in 1..x : dotted[i] = k[i]
  BY <1>1 DEF Text, Schema!Dot, Schema!Chars, Schema!Hyphen, Schema!LetterA
<1> HIDE DEF dotted
<1>5. x + 1 <= z /\ l[x + 1] = 2 /\ \A i \in 1..x : l[i] = k[i]
  <2>1. Len(dotted) <= Len(l) /\ \A i \in 1..Len(dotted) : dotted[i] = l[i]
    <3>1. Schema!IsPrefix(dotted, l)
      BY DEF dotted
    <3>2. dotted \in Seq(Schema!Chars) /\ l \in Seq(Schema!Chars)
      BY <1>4 DEF Text
    <3> QED BY <3>1, <3>2, PrefixIs
  <2> QED BY <1>1, <1>4, <2>1
<1>6. PICK a \in 1..y : Apart(k, h, a)
  BY <1>1, LessIs
<1>7. a <= x + 1 /\ (\A j \in 1..(a - 1) : k[j] = h[j]) /\ (a <= x => k[a] < h[a])
  BY <1>1, <1>6 DEF Apart
<1>8. CASE h = l
  BY <1>8
<1>9. CASE Schema!Less(h, l)
  <2>1. PICK b \in 1..z : Apart(h, l, b)
    BY <1>1, <1>9, LessIs
  <2>2. b <= y + 1 /\ (\A j \in 1..(b - 1) : h[j] = l[j]) /\ (b <= y => h[b] < l[b])
    BY <1>1, <2>1 DEF Apart
  <2>3. a = x + 1
    <3> SUFFICES ASSUME a <= x PROVE FALSE
      BY <1>7
    <3>1. k[a] < h[a] /\ l[a] = k[a] /\ a \in 1..x /\ a \in 1..y /\ a \in 1..z
      BY <1>5, <1>7
    <3>2. CASE a < b
      BY <1>2, <2>2, <3>1, <3>2
    <3>3. CASE a = b
      BY <1>2, <2>2, <3>1, <3>3
    <3>4. CASE a > b
      <4>1. b \in 1..(a - 1) /\ b \in 1..x /\ b \in 1..y /\ h[b] < l[b] /\ k[b] = h[b] /\ l[b] = k[b]
        BY <1>5, <1>7, <2>2, <3>1, <3>4
      <4> QED BY <1>2, <4>1
    <3> QED BY <3>2, <3>3, <3>4
  <2>4. \A j \in 1..x : k[j] = h[j]
    BY <1>7, <2>3
  <2>5. x + 1 \in 1..y /\ h[x + 1] \in 1..4 /\ h[x + 1] # 1
    BY <1>2, <1>3, <2>3
  <2>6. h[x + 1] <= 2
    <3>1. CASE b <= x
      <4>1. b \in 1..x /\ h[b] < l[b] /\ k[b] = h[b] /\ l[b] = k[b]
        BY <1>5, <2>2, <2>3, <2>4, <3>1
      <4> QED BY <1>2, <4>1
    <3>2. CASE b = x + 1
      BY <1>5, <2>2, <2>3, <2>5, <3>2
    <3>3. CASE b > x + 1
      <4>1. x + 1 \in 1..(b - 1)
        BY <3>3
      <4> QED BY <1>5, <2>2, <2>5, <4>1
    <3> QED BY <3>1, <3>2, <3>3
  <2>7. h[x + 1] = 2 /\ x + 1 <= y
    BY <2>5, <2>6
  <2>8. \A i \in 1..(x + 1) : dotted[i] = h[i]
    BY <1>4, <2>4, <2>7
  <2> QED BY <1>1, <1>4, <2>7, <2>8, PrefixIs DEF Text, dotted
<1> QED BY <1>8, <1>9

-----------------------------------------------------------------------------
\* Paths and keys

LEMMA SchemaNames ==
  /\ Names \subseteq Text /\ FileNames \subseteq Text
  /\ \A n \in Names : ~ Schema!Contains(n, Schema!Dot) /\ ~ Schema!Contains(n, Schema!Hyphen)
  BY PartsConstants, NamesHaveNoHyphens DEF Schema!SchemaConstants, Text

LEMMA PathIs ==
  ASSUME NEW N, NEW p \in Schema!Paths(N)
  PROVE  \/ Len(p) = 1 /\ p[1] \in N /\ p = <<p[1]>>
         \/ Len(p) = 2 /\ p[1] \in N /\ p[2] \in N /\ p = <<p[1], p[2]>>
<1>1. CASE p \in {<<n>> : n \in N}
  BY <1>1
<1>2. CASE p \in N \X N
  BY <1>2
<1> QED BY <1>1, <1>2 DEF Schema!Paths

LEMMA ConcatAt ==
  ASSUME NEW A, NEW d \in Seq(A), NEW b \in Seq(A), NEW i \in 1..Len(b)
  PROVE  (d \o b)[Len(d) + i] = b[i]
  OBVIOUS

LEMMA KeyOfTwo ==
  ASSUME NEW a \in Text, NEW b \in Text
  PROVE  LET k == a \o <<Schema!Dot>> \o b IN
         /\ k \in Text /\ Len(k) = Len(a) + 1 + Len(b) /\ k[Len(a) + 1] = Schema!Dot
         /\ \A i \in 1..Len(a) : k[i] = a[i]
         /\ \A i \in 1..Len(b) : k[Len(a) + 1 + i] = b[i]
<1>1. PICK m \in Nat, n \in Nat : m = Len(a) /\ n = Len(b)
  BY DEF Text
<1> DEFINE d == a \o <<Schema!Dot>>
<1>2. /\ d \in Text /\ Len(d) = m + 1 /\ d[m + 1] = Schema!Dot
      /\ \A i \in 1..m : d[i] = a[i]
  BY <1>1 DEF Text, Schema!Dot, Schema!Chars, Schema!Hyphen, Schema!LetterA
<1> HIDE DEF d
<1> DEFINE k == d \o b
<1>3. k \in Text /\ Len(k) = m + 1 + n
  BY <1>1, <1>2 DEF Text
<1>4. \A i \in 1..(m + 1) : k[i] = d[i]
  BY <1>1, <1>2 DEF Text
<1>5. \A i \in 1..n : k[m + 1 + i] = b[i]
  <2> SUFFICES ASSUME NEW i \in 1..n PROVE k[m + 1 + i] = b[i]
    OBVIOUS
  <2>1. d \in Seq(Schema!Chars) /\ b \in Seq(Schema!Chars) /\ i \in 1..Len(b)
    BY <1>1, <1>2 DEF Text
  <2>2. k[Len(d) + i] = b[i]
    BY <2>1, ConcatAt
  <2> QED BY <1>2, <2>2
<1> HIDE DEF k
<1>6. k[m + 1] = Schema!Dot /\ \A i \in 1..m : k[i] = a[i]
  BY <1>2, <1>4
<1> QED BY <1>1, <1>3, <1>5, <1>6 DEF k, d

LEMMA KeyIs ==
  ASSUME NEW N, N \subseteq Text, NEW p \in Schema!Paths(N)
  PROVE  /\ Schema!key(p) \in Text
         /\ Len(p) = 1 => Schema!key(p) = p[1] /\ p[1] \in N /\ p = <<p[1]>>
         /\ Len(p) # 1 => /\ Len(p) = 2 /\ p[1] \in N /\ p[2] \in N /\ p = <<p[1], p[2]>>
                          /\ Schema!key(p) = p[1] \o <<Schema!Dot>> \o p[2]
<1>1. CASE Len(p) = 1
  <2>1. p[1] \in N /\ p = <<p[1]>>
    BY <1>1, PathIs
  <2> QED BY <1>1, <2>1 DEF Schema!key
<1>2. CASE Len(p) # 1
  <2>1. Len(p) = 2 /\ p[1] \in N /\ p[2] \in N /\ p = <<p[1], p[2]>>
    BY <1>2, PathIs
  <2>2. Schema!key(p) = p[1] \o <<Schema!Dot>> \o p[2]
    BY <1>2 DEF Schema!key
  <2>3. p[1] \in Text /\ p[2] \in Text
    BY <2>1
  <2> QED BY <1>2, <2>1, <2>2, <2>3, KeyOfTwo
<1> QED BY <1>1, <1>2

\* A key of names without hyphens has none.
LEMMA KeyWithoutHyphen ==
  ASSUME NEW p \in Schema!Paths(Names)
  PROVE  ~ Schema!Contains(Schema!key(p), Schema!Hyphen)
<1>1. CASE Len(p) = 1
  BY <1>1, SchemaNames, KeyIs
<1>2. CASE Len(p) # 1
  <2>1. p[1] \in Names /\ p[2] \in Names /\ Schema!key(p) = p[1] \o <<Schema!Dot>> \o p[2]
    BY <1>2, SchemaNames, KeyIs
  <2>2. p[1] \in Text /\ p[2] \in Text
    BY <2>1, SchemaNames
  <2> DEFINE a == p[1]
             b == p[2]
             k == a \o <<Schema!Dot>> \o b
  <2> HIDE DEF a, b, k
  <2>3. PICK m \in Nat, n \in Nat : m = Len(a) /\ n = Len(b)
    BY <2>2 DEF Text, a, b
  <2>4. /\ Len(k) = m + 1 + n /\ k[m + 1] = Schema!Dot
        /\ \A i \in 1..m : k[i] = a[i]
        /\ \A i \in 1..n : k[m + 1 + i] = b[i]
    BY <2>2, <2>3, KeyOfTwo DEF a, b, k
  <2>5. (\A i \in 1..m : a[i] # Schema!Hyphen) /\ \A i \in 1..n : b[i] # Schema!Hyphen
    BY <2>1, <2>3, SchemaNames DEF Schema!Contains, a, b
  <2>6. ASSUME NEW i \in 1..(m + 1 + n) PROVE k[i] # Schema!Hyphen
    <3>1. CASE i <= m
      BY <2>4, <2>5, <3>1
    <3>2. CASE i = m + 1
      BY <2>4, <3>2 DEF Schema!Dot, Schema!Hyphen
    <3>3. CASE i > m + 1
      <4>1. PICK j \in 1..n : i = m + 1 + j
        <5>1. i - (m + 1) \in 1..n /\ i = m + 1 + (i - (m + 1))
          BY <3>3
        <5> QED BY <5>1
      <4> QED BY <2>4, <2>5, <4>1
    <3> QED BY <3>1, <3>2, <3>3
  <2> QED BY <2>1, <2>4, <2>6 DEF Schema!Contains, k, a, b
<1> QED BY <1>1, <1>2

\* Names without dots: a key is that of one path.
Undotted(p) == \A i \in 1..Len(p) : ~ Schema!Contains(p[i], Schema!Dot)

LEMMA KeySplits ==
  ASSUME NEW a \in Text, NEW b \in Text, NEW c \in Text, NEW d \in Text,
         ~ Schema!Contains(a, Schema!Dot), ~ Schema!Contains(c, Schema!Dot),
         a \o <<Schema!Dot>> \o b = c \o <<Schema!Dot>> \o d
  PROVE  a = c /\ b = d
<1> DEFINE k == a \o <<Schema!Dot>> \o b
           l == c \o <<Schema!Dot>> \o d
<1> HIDE DEF k, l
<1>0. k = l
  BY DEF k, l
<1>1. PICK m \in Nat, n \in Nat : m = Len(a) /\ n = Len(b)
  BY DEF Text
<1>2. PICK x \in Nat, y \in Nat : x = Len(c) /\ y = Len(d)
  BY DEF Text
<1>3. /\ Len(k) = m + 1 + n /\ k[m + 1] = Schema!Dot
      /\ \A i \in 1..m : k[i] = a[i]
      /\ \A i \in 1..n : k[m + 1 + i] = b[i]
  <2>1. /\ Len(k) = Len(a) + 1 + Len(b) /\ k[Len(a) + 1] = Schema!Dot
        /\ \A i \in 1..Len(a) : k[i] = a[i]
        /\ \A i \in 1..Len(b) : k[Len(a) + 1 + i] = b[i]
    BY KeyOfTwo DEF k
  <2> QED BY <1>1, <2>1
<1>4. /\ Len(k) = x + 1 + y /\ k[x + 1] = Schema!Dot
      /\ \A i \in 1..x : k[i] = c[i]
      /\ \A i \in 1..y : k[x + 1 + i] = d[i]
  <2>1. /\ Len(l) = Len(c) + 1 + Len(d) /\ l[Len(c) + 1] = Schema!Dot
        /\ \A i \in 1..Len(c) : l[i] = c[i]
        /\ \A i \in 1..Len(d) : l[Len(c) + 1 + i] = d[i]
    BY KeyOfTwo DEF l
  <2> QED BY <1>0, <1>2, <2>1
<1>5. (\A i \in 1..m : a[i] # Schema!Dot) /\ \A i \in 1..x : c[i] # Schema!Dot
  BY <1>1, <1>2 DEF Schema!Contains
<1>6. m = x
  <2>1. ~ (m < x)
    BY <1>3, <1>4, <1>5
  <2>2. ~ (x < m)
    BY <1>3, <1>4, <1>5
  <2> QED BY <2>1, <2>2
<1>7. n = y
  BY <1>3, <1>4, <1>6
<1>8. \A i \in 1..m : a[i] = c[i]
  BY <1>3, <1>4, <1>6
<1>9. \A i \in 1..n : b[i] = d[i]
  BY <1>3, <1>4, <1>6, <1>7
<1>10. a = c
  BY <1>1, <1>2, <1>6, <1>8, SeqEqual DEF Text
<1>11. b = d
  BY <1>1, <1>2, <1>7, <1>9, SeqEqual DEF Text
<1> QED BY <1>10, <1>11

LEMMA KeyHasDot ==
  ASSUME NEW a \in Text, NEW b \in Text
  PROVE  Schema!Contains(a \o <<Schema!Dot>> \o b, Schema!Dot)
<1> DEFINE k == a \o <<Schema!Dot>> \o b
<1> HIDE DEF k
<1>1. PICK m \in Nat, n \in Nat : m = Len(a) /\ n = Len(b)
  BY DEF Text
<1>2. Len(k) = m + 1 + n /\ k[m + 1] = Schema!Dot
  BY <1>1, KeyOfTwo DEF k
<1>3. m + 1 \in 1..Len(k)
  BY <1>2
<1> QED BY <1>2, <1>3 DEF Schema!Contains, k

LEMMA KeyIsOfOne ==
  ASSUME NEW N, N \subseteq Text, NEW p \in Schema!Paths(N), NEW q \in Schema!Paths(N),
         Undotted(p), Undotted(q), Schema!key(p) = Schema!key(q)
  PROVE  p = q
<1>1. Len(p) \in {1, 2} /\ Len(q) \in {1, 2}
  BY KeyIs
<1>2. (\A i \in 1..Len(p) : ~ Schema!Contains(p[i], Schema!Dot))
        /\ \A i \in 1..Len(q) : ~ Schema!Contains(q[i], Schema!Dot)
  BY DEF Undotted
<1>3. ~ Schema!Contains(p[1], Schema!Dot) /\ ~ Schema!Contains(q[1], Schema!Dot)
  BY <1>1, <1>2
<1>4. CASE Len(p) = 1 /\ Len(q) = 1
  <2>1. Schema!key(p) = p[1] /\ p = <<p[1]>>
    BY <1>4, KeyIs
  <2>2. Schema!key(q) = q[1] /\ q = <<q[1]>>
    BY <1>4, KeyIs
  <2> QED BY <2>1, <2>2
<1>5. CASE Len(p) = 1 /\ Len(q) # 1
  <2>1. p[1] = q[1] \o <<Schema!Dot>> \o q[2] /\ q[1] \in Text /\ q[2] \in Text
    BY <1>5, KeyIs
  <2> QED BY <1>3, <2>1, KeyHasDot
<1>6. CASE Len(p) # 1 /\ Len(q) = 1
  <2>1. q[1] = p[1] \o <<Schema!Dot>> \o p[2] /\ p[1] \in Text /\ p[2] \in Text
    BY <1>6, KeyIs
  <2> QED BY <1>3, <2>1, KeyHasDot
<1>7. CASE Len(p) # 1 /\ Len(q) # 1
  <2>1. /\ p[1] \in Text /\ p[2] \in Text /\ p = <<p[1], p[2]>>
        /\ q[1] \in Text /\ q[2] \in Text /\ q = <<q[1], q[2]>>
        /\ Schema!key(p) = p[1] \o <<Schema!Dot>> \o p[2]
        /\ Schema!key(q) = q[1] \o <<Schema!Dot>> \o q[2]
    BY <1>7, KeyIs
  <2>2. p[1] \o <<Schema!Dot>> \o p[2] = q[1] \o <<Schema!Dot>> \o q[2]
    BY <2>1
  <2> DEFINE a == p[1]
             b == p[2]
             c == q[1]
             d == q[2]
  <2>3. /\ a \in Text /\ b \in Text /\ c \in Text /\ d \in Text
        /\ ~ Schema!Contains(a, Schema!Dot) /\ ~ Schema!Contains(c, Schema!Dot)
        /\ a \o <<Schema!Dot>> \o b = c \o <<Schema!Dot>> \o d
    BY <1>3, <2>1, <2>2
  <2>4. p = <<a, b>> /\ q = <<c, d>>
    BY <2>1
  <2> HIDE DEF a, b, c, d
  <2>5. a = c /\ b = d
    BY <2>3, KeySplits
  <2> QED BY <2>4, <2>5
<1> QED BY <1>1, <1>4, <1>5, <1>6, <1>7

-----------------------------------------------------------------------------
\* The fields in the order of their keys

Keyed(fs) ==
    /\ IsFiniteSet(fs)
    /\ \A f \in fs : f.path \in Schema!Paths(Names)
    /\ \A f, g \in fs : Schema!key(f.path) = Schema!key(g.path) => f = g

LEMMA SchemaCardinality ==
  \A S : Schema!Cardinality(S) = Cardinality(S)
  BY DEF Schema!Cardinality, Cardinality

Rank(f, fs) == Cardinality(Schema!Below(f, fs))

LEMMA LowerRank ==
  ASSUME NEW fs, Keyed(fs), NEW f \in fs, NEW g \in fs,
         Schema!Less(Schema!key(f.path), Schema!key(g.path))
  PROVE  Rank(f, fs) < Rank(g, fs)
<1> DEFINE F == Schema!Below(f, fs)
           G == Schema!Below(g, fs)
<1>1. \A h \in fs : Schema!key(h.path) \in Text
  BY SchemaNames, KeyIs DEF Keyed
<1>2. F \subseteq G
  BY <1>1, LessThrough DEF Schema!Below
<1>3. f \in G /\ f \notin F
  BY <1>1, NotLessItself DEF Schema!Below
<1>4. IsFiniteSet(G) /\ G \in SUBSET fs
  BY FS_Subset DEF Keyed, Schema!Below
<1> HIDE DEF F, G
<1>5. Cardinality(F) <= Cardinality(G) /\ Cardinality(F) # Cardinality(G)
  BY <1>2, <1>3, <1>4, FS_Subset
<1>6. IsFiniteSet(F)
  BY <1>2, <1>4, FS_Subset
<1>7. Cardinality(F) \in Nat /\ Cardinality(G) \in Nat
  BY <1>4, <1>6, FS_CardinalityType
<1> QED BY <1>5, <1>7 DEF F, G, Rank

LEMMA RankIs ==
  ASSUME NEW fs, Keyed(fs), NEW f \in fs
  PROVE  Rank(f, fs) \in 0..(Cardinality(fs) - 1)
<1> DEFINE F == Schema!Below(f, fs)
<1>1. F \subseteq fs /\ f \notin F /\ IsFiniteSet(fs)
  <2>1. Schema!key(f.path) \in Text
    BY SchemaNames, KeyIs DEF Keyed
  <2> QED BY <2>1, NotLessItself DEF Schema!Below, Keyed
<1> HIDE DEF F
<1>2. IsFiniteSet(F) /\ Cardinality(F) <= Cardinality(fs) /\ Cardinality(F) # Cardinality(fs)
  BY <1>1, FS_Subset
<1>3. Cardinality(F) \in Nat /\ Cardinality(fs) \in Nat
  BY <1>1, <1>2, FS_CardinalityType
<1> QED BY <1>2, <1>3 DEF F, Rank

\* Every place has its field, and fields are in the order of their keys.
LEMMA SortedIs ==
  ASSUME NEW fs, Keyed(fs)
  PROVE  LET n == Cardinality(fs)
             r == Schema!Sorted(fs)
         IN /\ n \in Nat /\ DOMAIN r = 1..n /\ Len(r) = n
            /\ \A i \in 1..n : r[i] \in fs /\ Rank(r[i], fs) = i - 1
            /\ \A f \in fs : Rank(f, fs) + 1 \in 1..n /\ r[Rank(f, fs) + 1] = f
<1> DEFINE n == Cardinality(fs)
           r == Schema!Sorted(fs)
           rank == [f \in fs |-> Rank(f, fs)]
<1>1. IsFiniteSet(fs) /\ n \in Nat
  BY FS_CardinalityType DEF Keyed
<1>2. rank \in [fs -> 0..(n - 1)]
  BY RankIs
<1>3. ASSUME NEW f \in fs, NEW g \in fs, Rank(f, fs) = Rank(g, fs) PROVE f = g
  <2>1. Schema!key(f.path) \in Text /\ Schema!key(g.path) \in Text
    BY SchemaNames, KeyIs DEF Keyed
  <2>2. Rank(f, fs) \in Int /\ Rank(g, fs) \in Int
    <3>1. Rank(f, fs) \in 0..(n - 1) /\ Rank(g, fs) \in 0..(n - 1)
      BY RankIs
    <3> QED BY <1>1, <3>1
  <2>3. /\ ~ Schema!Less(Schema!key(f.path), Schema!key(g.path))
        /\ ~ Schema!Less(Schema!key(g.path), Schema!key(f.path))
    BY <1>3, <2>2, LowerRank
  <2>4. Schema!key(f.path) = Schema!key(g.path)
    BY <2>1, <2>3, OneIsLess
  <2> QED BY <2>4 DEF Keyed
<1>4. rank \in Injection(fs, 0..(n - 1))
  BY <1>2, <1>3 DEF Injection, IsInjective
<1>5. IsFiniteSet(0..(n - 1)) /\ Cardinality(0..(n - 1)) = n
  BY SMTT(30), <1>1, FS_Interval
<1>6. rank \in Surjection(fs, 0..(n - 1))
  BY <1>1, <1>4, <1>5, FS_Injection
<1>7. \A i \in 0..(n - 1) : \E f \in fs : Rank(f, fs) = i
  BY <1>6 DEF Surjection
<1> HIDE DEF rank
<1>8. r = [i \in 1..n |-> CHOOSE f \in fs : Rank(f, fs) = i - 1]
  BY SchemaCardinality DEF Schema!Sorted, Rank
<1>9. DOMAIN r = 1..n /\ Len(r) = n
  BY <1>1, <1>8
<1>10. ASSUME NEW i \in 1..n PROVE r[i] \in fs /\ Rank(r[i], fs) = i - 1
  <2>1. i - 1 \in 0..(n - 1)
    BY <1>1
  <2>2. r[i] = CHOOSE f \in fs : Rank(f, fs) = i - 1
    BY <1>8
  <2> HIDE DEF r
  <2> QED BY <1>7, <2>1, <2>2
<1> HIDE DEF r
<1>11. ASSUME NEW f \in fs PROVE Rank(f, fs) + 1 \in 1..n /\ r[Rank(f, fs) + 1] = f
  <2>1. PICK i \in 1..n : i = Rank(f, fs) + 1 /\ i - 1 = Rank(f, fs)
    <3>1. Rank(f, fs) \in 0..(n - 1)
      BY RankIs
    <3> HIDE DEF n
    <3>2. Rank(f, fs) + 1 \in 1..n /\ (Rank(f, fs) + 1) - 1 = Rank(f, fs)
      BY <1>1, <3>1
    <3> QED BY <3>2, Zenon
  <2>2. r[i] \in fs /\ Rank(r[i], fs) = Rank(f, fs)
    BY <1>10, <2>1
  <2> QED BY <1>3, <2>1, <2>2
<1> HIDE DEF n
<1> QED BY <1>1, <1>9, <1>10, <1>11 DEF n, r

\* For names without hyphens it is enough that Collides compares neighbours.
LEMMA NeighboursSuffice ==
  ASSUME NEW fs, Keyed(fs), ~ Schema!Collides(fs), NEW f \in fs, NEW g \in fs
  PROVE  ~ Schema!IsPrefix(Schema!key(f.path) \o <<Schema!Dot>>, Schema!key(g.path))
<1> SUFFICES ASSUME Schema!IsPrefix(Schema!key(f.path) \o <<Schema!Dot>>, Schema!key(g.path))
             PROVE  FALSE
  OBVIOUS
<1> DEFINE n == Cardinality(fs)
           r == Schema!Sorted(fs)
           a == Rank(f, fs)
           b == Rank(g, fs)
           K(h) == Schema!key(h.path)
<1>1. \A h \in fs : K(h) \in Text /\ ~ Schema!Contains(K(h), Schema!Hyphen)
  BY SchemaNames, KeyIs, KeyWithoutHyphen DEF Keyed
<1>2. Schema!Less(K(f), K(g))
  <2> DEFINE d == K(f) \o <<Schema!Dot>>
  <2>1. K(f) \in Text /\ K(g) \in Text
    BY <1>1
  <2> HIDE DEF K
  <2>2. PICK x \in Nat, y \in Nat : x = Len(K(f)) /\ y = Len(K(g))
    BY <2>1 DEF Text
  <2>3. d \in Text /\ Len(d) = x + 1 /\ \A i \in 1..x : d[i] = K(f)[i]
    BY <2>1, <2>2 DEF Text, Schema!Dot, Schema!Chars, Schema!Hyphen, Schema!LetterA
  <2>4. Schema!IsPrefix(d, K(g))
    BY DEF K
  <2> HIDE DEF d
  <2>5. d \in Seq(Schema!Chars) /\ K(g) \in Seq(Schema!Chars)
    BY <2>1, <2>3 DEF Text
  <2>6. Len(d) <= Len(K(g)) /\ \A i \in 1..Len(d) : d[i] = K(g)[i]
    BY <2>4, <2>5, PrefixIs
  <2>7. x + 1 \in 1..y /\ Apart(K(f), K(g), x + 1)
    BY <2>2, <2>3, <2>6 DEF Apart
  <2> QED BY <2>1, <2>2, <2>7, LessIs
<1>3. a < b
  BY <1>2, LowerRank
<1>4. a \in 0..(n - 1) /\ b \in 0..(n - 1) /\ n \in Nat
  BY RankIs, SortedIs
<1> HIDE DEF n, a, b
<1>5. PICK i \in 2..n : i = a + 2 /\ i - 1 = a + 1 /\ i \in 1..n
  <2>1. a + 2 \in 2..n /\ a + 2 \in 1..n /\ (a + 2) - 1 = a + 1
    BY <1>3, <1>4
  <2> QED BY <2>1, Zenon
<1>6. r[i - 1] = f
  BY <1>5, SortedIs DEF a
<1>7. r[i] \in fs /\ Rank(r[i], fs) = a + 1 /\ Len(r) = n
  <2>1. Rank(r[i], fs) = i - 1
    BY <1>5, SortedIs DEF n
  <2> QED BY <1>5, <2>1, SortedIs DEF n
<1> HIDE DEF r
<1>8. Schema!Less(K(f), K(r[i]))
  <2>1. K(r[i]) # K(f)
    <3>1. r[i] # f
      BY <1>4, <1>7 DEF a
    <3> QED BY <1>7, <3>1 DEF Keyed
  <2>2. ~ Schema!Less(K(r[i]), K(f))
    <3>1. ~ (Rank(r[i], fs) < Rank(f, fs))
      BY <1>4, <1>7 DEF a
    <3> QED BY <1>7, <3>1, LowerRank
  <2>3. K(r[i]) \in Text /\ K(f) \in Text
    BY <1>1, <1>7
  <2> HIDE DEF K
  <2> QED BY <2>1, <2>2, <2>3, OneIsLess
<1>9. K(r[i]) = K(g) \/ Schema!Less(K(r[i]), K(g))
  <2>1. ~ Schema!Less(K(g), K(r[i]))
    <3>1. ~ (Rank(g, fs) < Rank(r[i], fs))
      BY <1>3, <1>4, <1>7 DEF b
    <3> QED BY <1>7, <3>1, LowerRank
  <2>2. K(r[i]) \in Text /\ K(g) \in Text
    BY <1>1, <1>7
  <2> HIDE DEF K
  <2> QED BY <2>1, <2>2, OneIsLess
<1>10. Schema!IsPrefix(K(f) \o <<Schema!Dot>>, K(r[i]))
  <2>1. /\ K(f) \in Text /\ K(r[i]) \in Text /\ K(g) \in Text
        /\ ~ Schema!Contains(K(r[i]), Schema!Hyphen)
    BY <1>1, <1>7
  <2>2. Schema!IsPrefix(K(f) \o <<Schema!Dot>>, K(g))
    OBVIOUS
  <2> HIDE DEF K
  <2> QED BY <1>8, <1>9, <2>1, <2>2, Between
<1> QED BY <1>5, <1>6, <1>7, <1>10 DEF Schema!Collides, r

-----------------------------------------------------------------------------
\* Documents

LEMMA PathSeq ==
  ASSUME NEW N, NEW p \in Schema!Paths(N)
  PROVE  p \in Seq(N)
<1>1. CASE p \in {<<n>> : n \in N}
  <2>1. PICK n \in N : p = <<n>>
    BY <1>1
  <2> QED BY <2>1
<1>2. CASE p \in N \X N
  <2>1. PICK m \in N, n \in N : p = <<m, n>>
    BY <1>2
  <2> QED BY <2>1
<1> QED BY <1>1, <1>2 DEF Schema!Paths

\* A path below another is in its namespace.
LEMMA PathPrefix ==
  ASSUME NEW N, NEW p \in Schema!Paths(N), NEW q \in Schema!Paths(N), Schema!IsPrefix(p, q)
  PROVE  p = q \/ (Len(p) = 1 /\ Len(q) = 2 /\ p[1] = q[1])
<1>1. \/ Len(p) = 1 /\ p[1] \in N /\ p = <<p[1]>>
      \/ Len(p) = 2 /\ p[1] \in N /\ p[2] \in N /\ p = <<p[1], p[2]>>
  BY PathIs
<1>2. \/ Len(q) = 1 /\ q[1] \in N /\ q = <<q[1]>>
      \/ Len(q) = 2 /\ q[1] \in N /\ q[2] \in N /\ q = <<q[1], q[2]>>
  BY PathIs
<1>3. p \in Seq(N) /\ q \in Seq(N)
  BY PathSeq
<1>5. Len(p) <= Len(q) /\ \A i \in 1..Len(p) : p[i] = q[i]
  BY <1>3, PrefixIs
<1>6. CASE Len(p) = 1
  <2>1. p[1] = q[1]
    BY <1>5, <1>6
  <2> QED BY <1>1, <1>2, <1>6, <2>1
<1>7. CASE Len(p) = 2
  <2>1. Len(q) = 2 /\ p[1] = q[1] /\ p[2] = q[2]
    BY <1>2, <1>5, <1>7
  <2> QED BY <1>1, <1>2, <1>7, <2>1
<1> QED BY <1>1, <1>6, <1>7

LEMMA DottedPrefix ==
  ASSUME NEW a \in Text, NEW b \in Text
  PROVE  Schema!IsPrefix(a \o <<Schema!Dot>>, a \o <<Schema!Dot>> \o b)
<1> DEFINE d == a \o <<Schema!Dot>>
           k == a \o <<Schema!Dot>> \o b
<1>1. PICK m \in Nat, n \in Nat : m = Len(a) /\ n = Len(b)
  BY DEF Text
<1>2. /\ d \in Text /\ Len(d) = m + 1 /\ d[m + 1] = Schema!Dot
      /\ \A i \in 1..m : d[i] = a[i]
  BY <1>1 DEF Text, Schema!Dot, Schema!Chars, Schema!Hyphen, Schema!LetterA
<1> HIDE DEF d, k
<1>3. /\ k \in Text /\ Len(k) = m + 1 + n /\ k[m + 1] = Schema!Dot
      /\ \A i \in 1..m : k[i] = a[i]
  BY <1>1, KeyOfTwo DEF k
<1>4. Len(d) <= Len(k) /\ \A i \in 1..Len(d) : d[i] = k[i]
  BY <1>2, <1>3
<1>5. d \in Seq(Schema!Chars) /\ k \in Seq(Schema!Chars)
  BY <1>2, <1>3 DEF Text
<1>6. Schema!IsPrefix(d, k)
  BY <1>4, <1>5, PrefixIs
<1> QED BY <1>6 DEF d, k

\* The key of a path below another is in the namespace of its key.
LEMMA KeyBelow ==
  ASSUME NEW N, N \subseteq Text, NEW p \in Schema!Paths(N), NEW q \in Schema!Paths(N),
         Len(p) = 1, Len(q) = 2, p[1] = q[1]
  PROVE  Schema!IsPrefix(Schema!key(p) \o <<Schema!Dot>>, Schema!key(q))
<1>1. Schema!key(p) = p[1]
  BY KeyIs
<1>2. q[1] \in N /\ q[2] \in N /\ Schema!key(q) = q[1] \o <<Schema!Dot>> \o q[2]
  <2>1. Len(q) # 1
    OBVIOUS
  <2>2. /\ Len(q) # 1 => /\ Len(q) = 2 /\ q[1] \in N /\ q[2] \in N /\ q = <<q[1], q[2]>>
                         /\ Schema!key(q) = q[1] \o <<Schema!Dot>> \o q[2]
    BY KeyIs, Zenon
  <2> QED BY <2>1, <2>2
<1>3. q[1] \in Text /\ q[2] \in Text
  BY <1>2
<1> QED BY <1>1, <1>2, <1>3, DottedPrefix

LEMMA PathsApart ==
  ASSUME NEW fs, Keyed(fs), ~ Schema!Collides(fs), NEW f \in fs, NEW g \in fs,
         Schema!IsPrefix(f.path, g.path)
  PROVE  f = g
<1>1. f.path \in Schema!Paths(Names) /\ g.path \in Schema!Paths(Names)
  BY DEF Keyed
<1>2. CASE f.path = g.path
  BY <1>2 DEF Keyed
<1>3. CASE Len(f.path) = 1 /\ Len(g.path) = 2 /\ f.path[1] = g.path[1]
  BY <1>1, <1>3, KeyBelow, SchemaNames, NeighboursSuffice
<1> QED BY <1>1, <1>2, <1>3, PathPrefix

LEMMA LastPosition ==
  ASSUME NEW n \in Nat, NEW s \in SUBSET (1..n), s # {}
  PROVE  /\ Schema!Max(s) \in s
         /\ IsFiniteSet(s) /\ Cardinality(s) \in Nat
         /\ Cardinality(s \ {Schema!Max(s)}) = Cardinality(s) - 1
<1>1. \A k \in s : k \in Nat /\ n - k \in Nat
  <2> SUFFICES ASSUME NEW k \in s PROVE k \in Nat /\ n - k \in Nat
    OBVIOUS
  <2>1. k \in 1..n
    OBVIOUS
  <2> QED BY <2>1
<1>2. \E m \in s : \A k \in s : m >= k
  <2> DEFINE D == {n - k : k \in s}
  <2>1. D \in SUBSET Nat
    BY <1>1
  <2>2. D # {}
    OBVIOUS
  <2>3. PICK d \in D : \A e \in D : d <= e
    BY <2>1, <2>2, LeastNatural
  <2>4. PICK m \in s : d = n - m
    BY <2>3
  <2>5. ASSUME NEW k \in s PROVE m >= k
    <3>1. n - k \in D
      OBVIOUS
    <3>2. n - m <= n - k
      BY <2>3, <2>4, <3>1
    <3>3. k \in Nat /\ m \in Nat
      BY <1>1
    <3> QED BY <3>2, <3>3
  <2> QED BY <2>5
<1>3. Schema!Max(s) \in s
  BY <1>2 DEF Schema!Max
<1>4. IsFiniteSet(1..n)
  BY FS_Interval
<1>5. IsFiniteSet(s)
  BY <1>4, FS_Subset
<1> QED BY <1>3, <1>5, FS_RemoveElement, FS_CardinalityType

\* The turns of the fold in Document.
Nests(it, q) ==
    it = [s \in SUBSET DOMAIN q |->
             IF s = {} THEN {}
             ELSE Schema!putNested(it[s \ {Schema!Max(s)}], q[Schema!Max(s)])]

LEMMA DocumentFolds ==
  ASSUME NEW fs, NEW vs
  PROVE  LET q == [i \in 1..Cardinality(fs) |->
                      Schema!Leaf(Schema!Sorted(fs)[i].path, vs[Schema!Sorted(fs)[i].path])]
         IN Schema!Document(fs, vs) = (CHOOSE it : Nests(it, q))[DOMAIN q]
<1> DEFINE q == [i \in 1..Cardinality(fs) |->
                    Schema!Leaf(Schema!Sorted(fs)[i].path, vs[Schema!Sorted(fs)[i].path])]
<1>1. Schema!Document(fs, vs) = Schema!FoldLeft(Schema!putNested, {}, q)
  BY SchemaCardinality DEF Schema!Document
<1> HIDE DEF q
<1>2. Schema!Document(fs, vs) = (CHOOSE it : Nests(it, q))[DOMAIN q]
  BY <1>1 DEF Schema!FoldLeft, Schema!MapThenFoldSet, Nests
<1> QED BY <1>2 DEF q

\* Leaves none of which is below another.
Apiece(q, n) ==
    /\ DOMAIN q = 1..n
    /\ \A i, j \in 1..n : Schema!IsPrefix(q[i].path, q[j].path) => i = j

LeavesAt(q, s) == {q[i] : i \in s}

LEMMA NestsOne ==
  ASSUME NEW n \in Nat, NEW q, Apiece(q, n), NEW s \in SUBSET (1..n), NEW m \in s
  PROVE  Schema!putNested(LeavesAt(q, s \ {m}), q[m]) = LeavesAt(q, s)
<1>1. \A i \in s \ {m} : /\ ~ Schema!IsPrefix(q[i].path, q[m].path)
                         /\ ~ Schema!IsPrefix(q[m].path, q[i].path)
  BY DEF Apiece
<1> QED BY <1>1 DEF Schema!putNested, LeavesAt

LEMMA NestsAll ==
  ASSUME NEW n \in Nat, NEW q, Apiece(q, n)
  PROVE  (CHOOSE it : Nests(it, q))[DOMAIN q] = LeavesAt(q, 1..n)
<1> DEFINE all == [s \in SUBSET (1..n) |-> LeavesAt(q, s)]
<1>1. Nests(all, q)
  <2> DEFINE d(s) == LeavesAt(q, s)
             e(s) == IF s = {} THEN {}
                     ELSE Schema!putNested(all[s \ {Schema!Max(s)}], q[Schema!Max(s)])
  <2>1. ASSUME NEW s \in SUBSET (1..n) PROVE e(s) = d(s)
    <3>1. CASE s = {}
      BY <3>1 DEF LeavesAt
    <3>2. CASE s # {}
      <4>1. Schema!Max(s) \in s
        BY <3>2, LastPosition
      <4>2. s \ {Schema!Max(s)} \in SUBSET (1..n)
        OBVIOUS
      <4>3. all[s \ {Schema!Max(s)}] = LeavesAt(q, s \ {Schema!Max(s)})
        BY <4>2
      <4>4. Schema!putNested(LeavesAt(q, s \ {Schema!Max(s)}), q[Schema!Max(s)]) = d(s)
        <5>1. PICK m \in s : m = Schema!Max(s)
          BY <4>1
        <5>2. Schema!putNested(LeavesAt(q, s \ {m}), q[m]) = LeavesAt(q, s)
          BY NestsOne
        <5> QED BY <5>1, <5>2
      <4> HIDE DEF all, d
      <4> QED BY <3>2, <4>3, <4>4
    <3> QED BY <3>1, <3>2
  <2>2. all = [s \in SUBSET (1..n) |-> d(s)]
    OBVIOUS
  <2> HIDE DEF all, d, e
  <2>3. all = [s \in SUBSET (1..n) |-> e(s)]
    BY <2>1, <2>2
  <2> QED BY <2>3 DEF Nests, Apiece, e
<1> HIDE DEF all
<1> DEFINE it == CHOOSE h : Nests(h, q)
<1>2. Nests(it, q)
  BY <1>1
<1> HIDE DEF it
<1>3. ASSUME NEW s \in SUBSET (1..n)
      PROVE  /\ s = {} => it[s] = {}
             /\ s # {} => it[s] = Schema!putNested(it[s \ {Schema!Max(s)}], q[Schema!Max(s)])
  <2> DEFINE e(t) == IF t = {} THEN {}
                     ELSE Schema!putNested(it[t \ {Schema!Max(t)}], q[Schema!Max(t)])
  <2>1. it = [t \in SUBSET (1..n) |-> e(t)]
    BY <1>2 DEF Nests, Apiece
  <2> HIDE DEF e
  <2>2. it[s] = e(s)
    BY <2>1, Zenon
  <2> QED BY <2>2 DEF e
<1> DEFINE Wrong == {s \in SUBSET (1..n) : it[s] # LeavesAt(q, s)}
           Bad == {Cardinality(s) : s \in Wrong}
<1>4. \A s \in SUBSET (1..n) : Cardinality(s) \in Nat
  <2>1. IsFiniteSet(1..n)
    BY FS_Interval
  <2>2. \A s \in SUBSET (1..n) : IsFiniteSet(s)
    BY <2>1, FS_Subset
  <2> QED BY <2>2, FS_CardinalityType
<1>5. Wrong = {}
  <2> SUFFICES ASSUME Wrong # {} PROVE FALSE
    OBVIOUS
  <2>1. Bad \in SUBSET Nat /\ Bad # {}
    BY <1>4
  <2>2. PICK c \in Bad : \A k \in Bad : c <= k
    BY <2>1, LeastNatural
  <2>3. PICK s \in Wrong : c = Cardinality(s)
    BY <2>2
  <2>4. s \in SUBSET (1..n) /\ it[s] # LeavesAt(q, s)
    OBVIOUS
  <2>5. s # {}
    BY <1>3, <2>4 DEF LeavesAt
  <2> DEFINE m == Schema!Max(s)
             rest == s \ {m}
  <2>6. /\ m \in s /\ rest \in SUBSET (1..n)
        /\ Cardinality(s) \in Nat /\ Cardinality(rest) = Cardinality(s) - 1
    BY <2>4, <2>5, LastPosition
  <2>7. it[s] = Schema!putNested(it[rest], q[m])
    BY <1>3, <2>4, <2>5
  <2> HIDE DEF m
  <2>8. it[rest] = LeavesAt(q, rest)
    <3> SUFFICES ASSUME rest \in Wrong PROVE FALSE
      BY <2>6
    <3>1. Cardinality(rest) \in Bad
      OBVIOUS
    <3> HIDE DEF rest, Bad, Wrong
    <3> QED BY <2>2, <2>3, <2>6, <3>1
  <2> QED BY <2>4, <2>6, <2>7, <2>8, NestsOne
<1>6. it[1..n] = LeavesAt(q, 1..n)
  BY <1>5
<1> QED BY <1>6 DEF Apiece, it

\* What Save writes is every field's value at its path.
LEMMA DocumentIs ==
  ASSUME NEW fs, Keyed(fs), ~ Schema!Collides(fs), NEW vs
  PROVE  Schema!Document(fs, vs) = {Schema!Leaf(f.path, vs[f.path]) : f \in fs}
<1> DEFINE n == Cardinality(fs)
           r == Schema!Sorted(fs)
           q == [i \in 1..n |-> Schema!Leaf(r[i].path, vs[r[i].path])]
<1>1. /\ n \in Nat
      /\ \A i \in 1..n : r[i] \in fs /\ Rank(r[i], fs) = i - 1
      /\ \A f \in fs : Rank(f, fs) + 1 \in 1..n /\ r[Rank(f, fs) + 1] = f
  BY SortedIs
<1>2. Schema!Document(fs, vs) = (CHOOSE it : Nests(it, q))[DOMAIN q]
  BY DocumentFolds
<1> HIDE DEF n, r
<1>3. \A i \in 1..n : q[i] = Schema!Leaf(r[i].path, vs[r[i].path]) /\ q[i].path = r[i].path
  BY DEF Schema!Leaf
<1>4. DOMAIN q = 1..n
  OBVIOUS
<1> HIDE DEF q
<1>5. Apiece(q, n)
  <2> SUFFICES ASSUME NEW i \in 1..n, NEW j \in 1..n, Schema!IsPrefix(q[i].path, q[j].path)
               PROVE  i = j
    BY <1>4 DEF Apiece
  <2>1. r[i] = r[j]
    BY <1>1, <1>3, PathsApart
  <2>2. i - 1 = j - 1
    BY <1>1, <2>1
  <2> QED BY <1>1, <2>2
<1>6. Schema!Document(fs, vs) = {q[i] : i \in 1..n}
  BY <1>1, <1>2, <1>5, NestsAll DEF LeavesAt
<1>7. {q[i] : i \in 1..n} = {Schema!Leaf(f.path, vs[f.path]) : f \in fs}
  <2>1. \A i \in 1..n : q[i] \in {Schema!Leaf(f.path, vs[f.path]) : f \in fs}
    BY <1>1, <1>3
  <2>2. ASSUME NEW f \in fs
        PROVE  Schema!Leaf(f.path, vs[f.path]) \in {q[i] : i \in 1..n}
    <3>1. PICK i \in 1..n : r[i] = f
      BY <1>1
    <3> QED BY <1>3, <3>1
  <2> QED BY <2>1, <2>2
<1> QED BY <1>6, <1>7

-----------------------------------------------------------------------------
\* Schemas and their files

AnyNames == Names \cup FileNames
Registered == {f.path : f \in fields}

\* Fields have keys of their own; an accepted schema has passed the checks of
\* makeRegistry; and a document is a tree.
SchemaInv ==
    /\ phase \in {"walk", "refused", "ready", "stopped", "failed"}
    /\ Keyed(fields)
    /\ phase \in {"ready", "stopped", "failed"} =>
          ~Schema!Collides(fields) /\ ~Schema!DuplicateEnv(fields) /\ values \in [Registered -> 0..1]
    /\ \A l \in document : l.path \in Schema!Paths(AnyNames) /\ l.v \in 0..2
    /\ \A l, m \in document : Schema!IsPrefix(l.path, m.path) => l = m

LEMMA WiderPaths ==
  ASSUME NEW M, NEW N, M \subseteq N, NEW p \in Schema!Paths(M)
  PROVE  p \in Schema!Paths(N)
<1>1. CASE p \in {<<n>> : n \in M}
  BY <1>1 DEF Schema!Paths
<1>2. CASE p \in M \X M
  BY <1>2 DEF Schema!Paths
<1> QED BY <1>1, <1>2 DEF Schema!Paths

LEMMA SameSchema ==
  ASSUME UNCHANGED fields
  PROVE  /\ Schema!Collides(fields)' <=> Schema!Collides(fields)
         /\ Schema!DuplicateEnv(fields)' <=> Schema!DuplicateEnv(fields)
         /\ Registered' = Registered
         /\ Keyed(fields)' <=> Keyed(fields)
  BY DEF Schema!Collides, Schema!DuplicateEnv, Schema!Sorted, Schema!Below, Registered, Keyed

LEMMA SchemaBegin ==
  Schema!Init => SchemaInv
  BY FS_EmptySet DEF Schema!Init, SchemaInv, Keyed

LEMMA FieldKeeps ==
  ASSUME SchemaInv, NEW p \in Schema!Paths(Names), NEW env, Schema!Field(p, env)
  PROVE  SchemaInv'
<1>1. CASE UNCHANGED <<fields, values, document>> /\ phase' = "refused"
  BY <1>1 DEF SchemaInv, Keyed
<1>2. CASE ~ \E f \in fields : Schema!key(f.path) = Schema!key(p)
  <2> DEFINE new == [path |-> p, env |-> env]
  <2>1. /\ fields' = fields \cup {new} /\ phase = "walk" /\ phase' = phase
        /\ UNCHANGED <<values, document>>
    BY <1>2 DEF Schema!Field
  <2>2. new.path = p
    OBVIOUS
  <2> HIDE DEF new
  <2>3. Keyed(fields')
    <3>1. IsFiniteSet(fields')
      BY <2>1, FS_AddElement DEF SchemaInv, Keyed
    <3>2. \A f \in fields' : f.path \in Schema!Paths(Names)
      BY <2>1, <2>2 DEF SchemaInv, Keyed
    <3>3. \A f, g \in fields' : Schema!key(f.path) = Schema!key(g.path) => f = g
      BY <1>2, <2>1, <2>2 DEF SchemaInv, Keyed
    <3> QED BY <3>1, <3>2, <3>3 DEF Keyed
  <2>4. Keyed(fields)'
    BY <2>3 DEF Keyed
  <2> QED BY <2>1, <2>4 DEF SchemaInv
<1> QED BY <1>1, <1>2 DEF Schema!Field

LEMMA RegistryKeeps ==
  ASSUME SchemaInv, Schema!makeRegistry
  PROVE  SchemaInv'
<1>1. CASE phase' = "refused"
  BY <1>1 DEF SchemaInv, Keyed, Schema!makeRegistry
<1>2. CASE ~ (Schema!Collides(fields) \/ Schema!DuplicateEnv(fields))
  <2>1. /\ phase' = "ready" /\ UNCHANGED <<fields, document>>
        /\ values' = [p \in Registered |-> 0]
    BY <1>2 DEF Schema!makeRegistry, Registered
  <2>2. values' \in [Registered -> 0..1]
    BY <2>1
  <2>3. values' \in [Registered' -> 0..1]
    BY <2>1, <2>2 DEF Registered
  <2>4. (~ Schema!Collides(fields) /\ ~ Schema!DuplicateEnv(fields))'
    BY <1>2, <2>1, SameSchema
  <2> QED BY <2>1, <2>3, <2>4 DEF SchemaInv, Keyed
<1> QED BY <1>1, <1>2 DEF Schema!makeRegistry

LEMMA SettingKeeps ==
  ASSUME SchemaInv, NEW p, Schema!Set(p)
  PROVE  SchemaInv'
<1>1. /\ phase = "ready" /\ UNCHANGED <<phase, fields, document>>
      /\ values' = [values EXCEPT ![p] = 1]
  BY DEF Schema!Set
<1>2. values \in [Registered -> 0..1]
  BY <1>1 DEF SchemaInv
<1>3. values' \in [Registered -> 0..1]
  <2> DEFINE R == Registered
             B == 0..1
  <2>1. 1 \in B /\ values \in [R -> B]
    BY <1>2
  <2> HIDE DEF R, B
  <2>2. values' \in [R -> B]
    BY <1>1, <2>1
  <2> QED BY <2>2 DEF R, B
<1>4. values' \in [Registered' -> 0..1]
  BY <1>1, <1>3 DEF Registered
<1>5. (~ Schema!Collides(fields) /\ ~ Schema!DuplicateEnv(fields))'
  BY <1>1, SameSchema DEF SchemaInv
<1> QED BY <1>1, <1>4, <1>5 DEF SchemaInv, Keyed

\* What is written is a tree.
LEMMA WrittenTree ==
  ASSUME SchemaInv, phase \in {"ready", "stopped", "failed"}
  PROVE  LET doc == Schema!Document(fields, values) IN
         /\ doc = {Schema!Leaf(f.path, values[f.path]) : f \in fields}
         /\ \A l \in doc : l.path \in Schema!Paths(Names) /\ l.v \in 0..1
         /\ \A l, m \in doc : Schema!IsPrefix(l.path, m.path) => l = m
<1>1. Keyed(fields) /\ ~ Schema!Collides(fields) /\ values \in [Registered -> 0..1]
  BY DEF SchemaInv
<1>2. Schema!Document(fields, values) = {Schema!Leaf(f.path, values[f.path]) : f \in fields}
  BY <1>1, DocumentIs
<1> DEFINE doc == Schema!Document(fields, values)
<1>3. ASSUME NEW l \in doc
      PROVE  \E f \in fields : /\ l = Schema!Leaf(f.path, values[f.path])
                               /\ l.path = f.path /\ l.v = values[f.path]
  <2>1. PICK f \in fields : l = Schema!Leaf(f.path, values[f.path])
    BY <1>2
  <2>2. l.path = f.path /\ l.v = values[f.path]
    BY <2>1 DEF Schema!Leaf
  <2> QED BY <2>1, <2>2
<1>4. \A f \in fields : f.path \in Schema!Paths(Names) /\ values[f.path] \in 0..1
  BY <1>1 DEF Keyed, Registered
<1> HIDE DEF doc
<1>5. \A l \in doc : l.path \in Schema!Paths(Names) /\ l.v \in 0..1
  <2> SUFFICES ASSUME NEW l \in doc PROVE l.path \in Schema!Paths(Names) /\ l.v \in 0..1
    OBVIOUS
  <2>1. PICK f \in fields : l.path = f.path /\ l.v = values[f.path]
    BY <1>3
  <2> QED BY <1>4, <2>1
<1>6. ASSUME NEW l \in doc, NEW m \in doc, Schema!IsPrefix(l.path, m.path)
      PROVE  l = m
  <2>1. PICK f \in fields : l = Schema!Leaf(f.path, values[f.path]) /\ l.path = f.path
    BY <1>3
  <2>2. PICK g \in fields : m = Schema!Leaf(g.path, values[g.path]) /\ m.path = g.path
    BY <1>3
  <2>3. Schema!IsPrefix(f.path, g.path)
    BY <1>6, <2>1, <2>2
  <2>4. f = g
    BY <1>1, <2>3, PathsApart
  <2> QED BY <2>1, <2>2, <2>4
<1> QED BY <1>2, <1>5, <1>6 DEF doc

LEMMA SavingKeeps ==
  ASSUME SchemaInv, Schema!Save
  PROVE  SchemaInv'
<1> DEFINE doc == Schema!Document(fields, values)
<1>1. phase = "ready" /\ document' = doc /\ UNCHANGED <<phase, fields, values>>
  BY DEF Schema!Save
<1>2. /\ \A l \in doc : l.path \in Schema!Paths(Names) /\ l.v \in 0..1
      /\ \A l, m \in doc : Schema!IsPrefix(l.path, m.path) => l = m
  BY <1>1, WrittenTree
<1> HIDE DEF doc
<1>3. ASSUME NEW l \in doc PROVE l.path \in Schema!Paths(AnyNames) /\ l.v \in 0..2
  <2>1. l.path \in Schema!Paths(Names) /\ l.v \in 0..1
    BY <1>2
  <2>2. Names \subseteq AnyNames
    BY DEF AnyNames
  <2>3. l.path \in Schema!Paths(AnyNames)
    BY <2>1, <2>2, WiderPaths
  <2> QED BY <2>1, <2>3
<1>4. /\ \A l \in document' : l.path \in Schema!Paths(AnyNames) /\ l.v \in 0..2
      /\ \A l, m \in document' : Schema!IsPrefix(l.path, m.path) => l = m
  BY <1>1, <1>2, <1>3
<1>5. Registered' = Registered /\ (Keyed(fields) <=> Keyed(fields)')
  BY <1>1, SameSchema
<1>6. (~ Schema!Collides(fields) /\ ~ Schema!DuplicateEnv(fields))'
  BY <1>1, SameSchema DEF SchemaInv
<1> QED BY <1>1, <1>4, <1>5, <1>6 DEF SchemaInv

\* A program that stops or starts has the same schema.
LEMMA RestartKeeps ==
  ASSUME SchemaInv, phase \in {"ready", "stopped"}, phase' \in {"ready", "stopped", "failed"},
         UNCHANGED <<fields, document>>, values' \in [DOMAIN values -> 0..1]
  PROVE  SchemaInv'
<1>1. values' \in [Registered' -> 0..1]
  BY DEF SchemaInv, Registered
<1>2. (~ Schema!Collides(fields) /\ ~ Schema!DuplicateEnv(fields))'
  BY SameSchema DEF SchemaInv
<1> QED BY <1>1, <1>2 DEF SchemaInv, Keyed

LEMMA EditKeeps ==
  ASSUME SchemaInv, NEW p \in Schema!Paths(FileNames), NEW v \in {1, Schema!Object},
         Schema!Edit(p, v)
  PROVE  SchemaInv'
<1> DEFINE new == Schema!Leaf(p, v)
<1>1. /\ document' = document \cup {new} /\ UNCHANGED <<phase, fields, values>>
      /\ \A l \in document : ~ Schema!IsPrefix(l.path, p) /\ ~ Schema!IsPrefix(p, l.path)
  BY DEF Schema!Edit
<1>2. new.path = p /\ new.v = v /\ v \in 0..2
  BY DEF Schema!Leaf, Schema!Object
<1> HIDE DEF new
<1>3. p \in Schema!Paths(AnyNames)
  <2>1. FileNames \subseteq AnyNames
    BY DEF AnyNames
  <2> QED BY <2>1, WiderPaths
<1>4. /\ \A l \in document' : l.path \in Schema!Paths(AnyNames) /\ l.v \in 0..2
      /\ \A l, m \in document' : Schema!IsPrefix(l.path, m.path) => l = m
  BY <1>1, <1>2, <1>3 DEF SchemaInv
<1>5. Registered' = Registered /\ (Keyed(fields) <=> Keyed(fields)')
  BY <1>1, SameSchema
<1>6. (Schema!Collides(fields)' <=> Schema!Collides(fields))
        /\ (Schema!DuplicateEnv(fields)' <=> Schema!DuplicateEnv(fields))
  BY <1>1, SameSchema
<1> QED BY <1>1, <1>4, <1>5, <1>6 DEF SchemaInv

LEMMA SchemaStep ==
  SchemaInv /\ [Schema!Next]_schemaVars => SchemaInv'
<1> SUFFICES ASSUME SchemaInv, [Schema!Next]_schemaVars PROVE SchemaInv'
  OBVIOUS
<1>1. CASE Schema!Stop
  <2>1. values' \in [DOMAIN values -> 0..1]
    BY <1>1 DEF Schema!Stop
  <2> QED BY <1>1, <2>1, RestartKeeps DEF Schema!Stop
<1>2. CASE Schema!Load
  <2>1. values' \in [DOMAIN values -> 0..1]
    BY <1>2 DEF Schema!Load
  <2> QED BY <1>2, <2>1, RestartKeeps DEF Schema!Load
<1>3. CASE UNCHANGED schemaVars
  <2>1. UNCHANGED <<phase, fields, values, document>>
    BY <1>3 DEF schemaVars
  <2>2. (Schema!Collides(fields)' <=> Schema!Collides(fields))
          /\ (Schema!DuplicateEnv(fields)' <=> Schema!DuplicateEnv(fields))
    BY <2>1, SameSchema
  <2>3. Registered' = Registered /\ (Keyed(fields) <=> Keyed(fields)')
    BY <2>1, SameSchema
  <2> QED BY <2>1, <2>2, <2>3 DEF SchemaInv
<1> QED BY <1>1, <1>2, <1>3, FieldKeeps, RegistryKeeps, SettingKeeps, SavingKeeps, EditKeeps
        DEF Schema!Next

LEMMA SchemaAtWork ==
  ASSUME [MCNext]_<<part, vars, codecVars, schemaVars, logVars>>
  PROVE  [Schema!Next]_schemaVars
  BY DEF MCNext, Ended

-----------------------------------------------------------------------------
\* What flatten makes of a document

Whole(l, ks) == Len(l.path) = 2 /\ l.path[1] \in ks
Entry(l, ks) == IF Whole(l, ks) THEN <<l.path[1], Schema!Object>> ELSE <<Schema!key(l.path), l.v>>
Dropped(l, ks, ps) == l.v = Schema!Object /\ Schema!key(l.path) \in ps \ ks

LEMMA FlattenIs ==
  ASSUME NEW doc, NEW ks, NEW ps
  PROVE  /\ Schema!flatten(doc, ks, ps).ok <=> \A l \in doc : Undotted(l.path)
         /\ Schema!flatten(doc, ks, ps).flat
              = {Entry(l, ks) : l \in {d \in doc : ~ Dropped(d, ks, ps)}}
  BY DEF Schema!flatten, Undotted, Entry, Whole, Dropped

LEMMA NamesArePlain ==
  ASSUME NEW p \in Schema!Paths(Names)
  PROVE  Undotted(p)
<1>1. ASSUME NEW i \in 1..Len(p) PROVE ~ Schema!Contains(p[i], Schema!Dot)
  <2>1. p[i] \in Names
    BY PathSeq
  <2> QED BY <2>1, SchemaNames
<1> QED BY <1>1 DEF Undotted

\* In an accepted schema no field has another's namespace for its key.
LEMMA NoFieldAbove ==
  ASSUME SchemaInv, phase \in {"ready", "stopped", "failed"}, NEW f \in fields
  PROVE  ~ Whole(Schema!Leaf(f.path, values[f.path]), Schema!leaves)
<1> SUFFICES ASSUME Whole(Schema!Leaf(f.path, values[f.path]), Schema!leaves) PROVE FALSE
  OBVIOUS
<1>1. Keyed(fields) /\ ~ Schema!Collides(fields) /\ values \in [Registered -> 0..1]
  BY DEF SchemaInv
<1>2. Len(f.path) = 2 /\ f.path[1] \in Schema!leaves
  BY DEF Whole, Schema!Leaf
<1>3. PICK g \in fields : f.path[1] = Schema!key(g.path)
  BY <1>1, <1>2 DEF Schema!leaves, Registered
<1>4. f.path \in Schema!Paths(Names) /\ g.path \in Schema!Paths(Names)
  BY <1>1 DEF Keyed
<1>5. f.path[1] \in Names
  BY <1>2, <1>4, PathIs
<1>6. Len(g.path) = 1
  <2> SUFFICES ASSUME Len(g.path) # 1 PROVE FALSE
    OBVIOUS
  <2>1. /\ g.path[1] \in Names /\ g.path[2] \in Names
        /\ Schema!key(g.path) = g.path[1] \o <<Schema!Dot>> \o g.path[2]
    BY <1>4, SchemaNames, KeyIs
  <2>2. g.path[1] \in Text /\ g.path[2] \in Text
    BY <2>1, SchemaNames
  <2> QED BY <1>3, <1>5, <2>1, <2>2, SchemaNames, KeyHasDot
<1>7. g.path[1] = f.path[1]
  BY <1>3, <1>4, <1>6, SchemaNames, KeyIs
<1> QED BY <1>1, <1>2, <1>4, <1>6, <1>7, SchemaNames, KeyBelow, NeighboursSuffice

LEMMA SchemaSavedLoads ==
  ASSUME SchemaInv
  PROVE  Schema!SavedLoads
<1> SUFFICES ASSUME phase = "ready"
             PROVE  LET doc == Schema!flatten(Schema!Document(fields, values), Schema!leaves,
                                              Schema!namespaces) IN
                    doc.ok /\ doc.flat = {<<Schema!key(p), values[p]>> : p \in DOMAIN values}
  BY DEF Schema!SavedLoads
<1> DEFINE ks == Schema!leaves
           ps == Schema!namespaces
           doc == Schema!Document(fields, values)
           leaf(f) == Schema!Leaf(f.path, values[f.path])
<1> HIDE DEF ks, ps
<1>1. values \in [Registered -> 0..1]
  BY DEF SchemaInv
<1>2. /\ doc = {leaf(f) : f \in fields}
      /\ \A l \in doc : l.path \in Schema!Paths(Names) /\ l.v \in 0..1
  BY WrittenTree
<1> HIDE DEF doc
<1>3. Schema!flatten(doc, ks, ps).ok
  BY <1>2, FlattenIs, NamesArePlain
<1>4. {d \in doc : ~ Dropped(d, ks, ps)} = doc
  BY <1>2 DEF Dropped, Schema!Object
<1>5. Schema!flatten(doc, ks, ps).flat = {Entry(l, ks) : l \in doc}
  BY <1>4, FlattenIs
<1>6. \A f \in fields : Entry(leaf(f), ks) = <<Schema!key(f.path), values[f.path]>>
  <2> SUFFICES ASSUME NEW f \in fields
               PROVE  Entry(leaf(f), ks) = <<Schema!key(f.path), values[f.path]>>
    OBVIOUS
  <2>1. ~ Whole(leaf(f), ks)
    BY NoFieldAbove DEF ks
  <2>2. leaf(f).path = f.path /\ leaf(f).v = values[f.path]
    BY DEF Schema!Leaf
  <2> HIDE DEF leaf
  <2> QED BY <2>1, <2>2 DEF Entry
<1> HIDE DEF leaf
<1>7. {Entry(l, ks) : l \in doc} = {<<Schema!key(f.path), values[f.path]>> : f \in fields}
  BY <1>2, <1>6
<1>8. {<<Schema!key(f.path), values[f.path]>> : f \in fields}
        = {<<Schema!key(p), values[p]>> : p \in DOMAIN values}
  BY <1>1 DEF Registered
<1> QED BY <1>3, <1>5, <1>7, <1>8 DEF doc, ks, ps

LEMMA SchemaUnambiguous ==
  ASSUME SchemaInv
  PROVE  Schema!TypeOK /\ Schema!Unambiguous
<1>1. Schema!TypeOK
  BY DEF SchemaInv, Keyed, Schema!TypeOK
<1>2. Schema!CollisionsRefused
  BY NeighboursSuffice DEF SchemaInv, Schema!CollisionsRefused
<1>3. phase = "ready" => \A f, g \in fields : f.env # <<>> /\ f.env = g.env => f = g
  BY DEF SchemaInv, Schema!DuplicateEnv
<1> QED BY <1>1, <1>2, <1>3 DEF Schema!Unambiguous

\* A Load that succeeds has taken every value of the file.
TakesAll ==
    phase = "stopped" /\ phase' = "ready" =>
        \A l \in document : l.v # Schema!Object => l.path \in DOMAIN values /\ values'[l.path] = l.v

LEMMA LoadIsStrict ==
  ASSUME SchemaInv, [Schema!Next]_schemaVars
  PROVE  TakesAll
<1> SUFFICES ASSUME phase = "stopped", phase' = "ready",
                    NEW l \in document, l.v # Schema!Object
             PROVE  l.path \in DOMAIN values /\ values'[l.path] = l.v
  BY DEF TakesAll
<1> DEFINE ks == Schema!leaves
           doc == Schema!flatten(document, ks, Schema!namespaces)
<1> HIDE DEF ks
<1>1. Schema!Load
  BY DEF Schema!Next, Schema!Field, Schema!makeRegistry, Schema!Set, Schema!Save, Schema!Stop,
         Schema!Edit, schemaVars
<1>2. /\ doc.ok /\ \A e \in doc.flat : e[1] \in ks /\ e[2] # Schema!Object
      /\ values' = [p \in DOMAIN values |-> IF <<Schema!key(p), 1>> \in doc.flat THEN 1 ELSE 0]
  BY <1>1 DEF Schema!Load, ks
<1>3. /\ \A m \in document : Undotted(m.path)
      /\ doc.flat = {Entry(m, ks) : m \in {d \in document : ~ Dropped(d, ks, Schema!namespaces)}}
  BY <1>2, FlattenIs
<1> HIDE DEF doc
<1>4. ASSUME NEW m \in document, m.v # Schema!Object
      PROVE  <<Schema!key(m.path), m.v>> \in doc.flat /\ Schema!key(m.path) \in ks
  <2>1. ~ Dropped(m, ks, Schema!namespaces)
    BY <1>4 DEF Dropped
  <2>2. Entry(m, ks) \in doc.flat
    BY <1>3, <2>1
  <2>3. ~ Whole(m, ks)
    BY <1>2, <2>2 DEF Entry
  <2>4. Entry(m, ks) = <<Schema!key(m.path), m.v>>
    BY <2>3 DEF Entry
  <2> QED BY <1>2, <2>2, <2>4
<1>5. PICK p \in DOMAIN values : Schema!key(p) = Schema!key(l.path)
  BY <1>4 DEF ks, Schema!leaves
<1>6. AnyNames \subseteq Text
  BY SchemaNames DEF AnyNames
<1>7. p \in Schema!Paths(AnyNames) /\ Undotted(p)
  <2>1. p \in Schema!Paths(Names)
    BY DEF SchemaInv, Registered, Keyed
  <2>2. Names \subseteq AnyNames
    BY DEF AnyNames
  <2> QED BY <2>1, <2>2, WiderPaths, NamesArePlain
<1>8. p = l.path
  <2>1. l.path \in Schema!Paths(AnyNames) /\ Undotted(l.path)
    BY <1>3 DEF SchemaInv
  <2> QED BY <1>5, <1>6, <1>7, <2>1, KeyIsOfOne
<1>9. CASE l.v = 1
  BY <1>2, <1>4, <1>8, <1>9
<1>10. CASE l.v = 0
  <2>1. <<Schema!key(p), 1>> \notin doc.flat
    <3> SUFFICES ASSUME <<Schema!key(p), 1>> \in doc.flat PROVE FALSE
      OBVIOUS
    <3>1. PICK m \in document : Entry(m, ks) = <<Schema!key(p), 1>>
      BY <1>3
    <3>2. ~ Whole(m, ks)
      BY <3>1 DEF Entry, Schema!Object
    <3>3. Schema!key(m.path) = Schema!key(p) /\ m.v = 1
      BY <3>1, <3>2 DEF Entry
    <3>4. m.path \in Schema!Paths(AnyNames) /\ Undotted(m.path)
      BY <1>3 DEF SchemaInv
    <3>5. m.path = l.path
      BY <1>6, <1>7, <1>8, <3>3, <3>4, KeyIsOfOne
    <3>6. Schema!IsPrefix(l.path, m.path)
      <4>1. l.path \in Seq(AnyNames)
        BY PathSeq DEF SchemaInv
      <4>2. Len(l.path) \in Nat
        BY <4>1
      <4> QED BY <3>5, <4>2 DEF Schema!IsPrefix
    <3>7. l = m
      BY <3>6 DEF SchemaInv
    <3> QED BY <1>10, <3>3, <3>7
  <2> QED BY <1>2, <1>8, <1>10, <2>1
<1>11. l.v \in 0..1
  BY DEF SchemaInv, Schema!Object
<1> QED BY <1>9, <1>10, <1>11

-----------------------------------------------------------------------------
\* The parts together

\* The configuration of the other parts does not touch Config.
LEMMA ConfigAtWork ==
  ASSUME [MCNext]_<<part, vars, codecVars, schemaVars, logVars>>
  PROVE  [Next]_vars
  BY DEF MCNext

\* Every variable of the config package has its type, for all fields, layers,
\* widths, names without hyphens, goroutines and sizes of the log buffer.
THEOREM PartsTypes == MCSpec => []TypesOK
<1> DEFINE I == Inv /\ CodecInv /\ SchemaInv /\ LogInv
<1>1. MCInit => I
  <2>1. MCInit => Inv
    BY InitInv DEF MCInit
  <2>2. MCInit => CodecInv
    BY DEF MCInit, Codec!Init, CodecInv
  <2>3. MCInit => SchemaInv
    BY SchemaBegin DEF MCInit
  <2>4. MCInit => LogInv
    BY LogBegin DEF MCInit
  <2> QED BY <2>1, <2>2, <2>3, <2>4
<1>2. I /\ [MCNext]_<<part, vars, codecVars, schemaVars, logVars>> => I'
  BY ConfigAtWork, NextInv, CodecAtWork, CodecStep, SchemaAtWork, SchemaStep, LogAtWork, LogStep
<1>3. I => TypesOK
  <2>1. Inv => TypeOK
    BY InvIsTyped
  <2> QED BY <2>1, CodecInvSays, SchemaUnambiguous, LogInvSays DEF TypesOK
<1> QED BY <1>1, <1>2, <1>3, PTL DEF MCSpec

\* What Save wrote the next program loads as it was, whichever layers the values
\* came from, whatever their types, the format and the nesting of their keys,
\* and a file with sensitive values is private (Save, putNested, Load, flatten).
THEOREM SavedIsLoaded == MCSpec => []SavedReadsBack
<1> DEFINE I == Inv /\ CodecInv /\ SchemaInv
<1>1. MCInit => I
  <2>1. MCInit => Inv
    BY InitInv DEF MCInit
  <2>2. MCInit => CodecInv
    BY DEF MCInit, Codec!Init, CodecInv
  <2>3. MCInit => SchemaInv
    BY SchemaBegin DEF MCInit
  <2> QED BY <2>1, <2>2, <2>3
<1>2. I /\ [MCNext]_<<part, vars, codecVars, schemaVars, logVars>> => I'
  BY ConfigAtWork, NextInv, CodecAtWork, CodecStep, SchemaAtWork, SchemaStep
<1>3. I => SavedReadsBack
  BY InvReadsBack, CodecInvSays, SchemaSavedLoads DEF SavedReadsBack
<1> QED BY <1>1, <1>2, <1>3, PTL DEF MCSpec

\* An integer field takes a number as it is or refuses it, and a float field the
\* nearest float (coerceWithSchema), for every width of integers and every set of
\* floats; comparing neighbours in the order of the keys is enough for no leaf of
\* a file and no variable of the environment to be for two fields (makeRegistry),
\* for names without hyphens; and a Load that succeeds has taken every value in
\* the file.
THEOREM ValuesAreExact == MCSpec => ValuesExact
<1> DEFINE I == CodecInv /\ SchemaInv
<1>1. MCInit => I
  <2>1. MCInit => CodecInv
    BY DEF MCInit, Codec!Init, CodecInv
  <2>2. MCInit => SchemaInv
    BY SchemaBegin DEF MCInit
  <2> QED BY <2>1, <2>2
<1>2. I /\ [MCNext]_<<part, vars, codecVars, schemaVars, logVars>> => I'
  BY CodecAtWork, CodecStep, SchemaAtWork, SchemaStep
<1>3. I => Codec!Exact /\ Schema!Unambiguous
  BY CodecInvSays, SchemaUnambiguous
<1>4. I /\ [MCNext]_<<part, vars, codecVars, schemaVars, logVars>> => [TakesAll]_(Schema!vars)
  BY SchemaAtWork, LoadIsStrict
<1>5. Schema!Strict <=> [][TakesAll]_(Schema!vars)
  BY DEF Schema!Strict, TakesAll
<1> HIDE DEF I
<1> QED BY <1>1, <1>2, <1>3, <1>4, <1>5, PTL DEF MCSpec, ValuesExact
=============================================================================
