------------------------------- MODULE Schema ------------------------------
(***************************************************************************)
(* The keys of a config: how makeRegistry (config/registry.go) accepts the *)
(* fields of a struct, how Save nests their values in a document           *)
(* (putNested) and how Load flattens a document into keys again (flatten). *)
(*                                                                         *)
(* A character is a number in the order of the bytes; a name is a sequence *)
(* of characters, a path a sequence of names, and a key the path joined    *)
(* with dots.  A document is the set of its leaves: paths with a value, or *)
(* with Object for an empty object.                                        *)
(***************************************************************************)
EXTENDS Integers, Sequences, FiniteSets, SequencesExt

CONSTANTS
    Names,      \* names of fields, without a dot
    FileNames,  \* names an edited file may hold
    MaxFields,  \* bound: fields of a struct
    MaxLeaves   \* bound: leaves of a file that someone edits

Hyphen == 1
Dot == 2
Underscore == 3
LetterA == 4
Chars == Hyphen..LetterA

SchemaConstants ==
    /\ Names \subseteq Seq(Chars) /\ FileNames \subseteq Seq(Chars)
    /\ \A n \in Names : ~Contains(n, Dot)
    /\ MaxFields \in Nat /\ MaxLeaves \in Nat

Paths(names) == {<<n>> : n \in names} \cup (names \X names)
Values == 0..1   \* 0 is the default
Object == 2      \* an empty object

VARIABLES
    phase,    \* "walk", "refused", "ready", "stopped" or "failed"
    fields,   \* the fields seen by walk
    values,   \* path -> value, of the fields
    file      \* the document

vars == <<phase, fields, values, file>>

-----------------------------------------------------------------------------
\* Keys

key(path) == IF Len(path) = 1 THEN path[1] ELSE path[1] \o <<Dot>> \o path[2]

\* derivedEnv without a prefix: dots become underscores.
derivedEnv(path) == [i \in 1..Len(key(path)) |->
                        IF key(path)[i] = Dot THEN Underscore ELSE key(path)[i]]

Less(k, l) ==
    \/ IsStrictPrefix(k, l)
    \/ \E i \in 1..Len(k) : /\ i <= Len(l) /\ k[i] < l[i]
                            /\ \A j \in 1..i-1 : k[j] = l[j]

\* The fields in the order of their keys: each has its place after those below it.
Below(f, fs) == {g \in fs : Less(key(g.path), key(f.path))}
Sorted(fs) == [i \in 1..Cardinality(fs) |->
                  CHOOSE f \in fs : Cardinality(Below(f, fs)) = i - 1]

\* Mutant: neighbours are not compared.
CollidesNot(fs) == FALSE

\* Only neighbours in the order of the keys are compared.
Collides(fs) ==
    LET r == Sorted(fs) IN
    \E i \in 2..Len(r) : IsPrefix(key(r[i-1].path) \o <<Dot>>, key(r[i].path))

DuplicateEnv(fs) == \E f, g \in fs : f # g /\ f.env # <<>> /\ f.env = g.env

-----------------------------------------------------------------------------
\* Documents

Leaf(path, v) == [path |-> path, v |-> v]

\* Mutant: the object on the way is always a new one.
putNestedFresh(doc, leaf) ==
    {l \in doc : l.path[1] # leaf.path[1]} \cup {leaf}

\* Objects on the way are kept, a value on the way gives place to an object, and
\* whatever is at the path gives place to the value.
putNested(doc, leaf) ==
    {l \in doc : ~IsPrefix(l.path, leaf.path) /\ ~IsPrefix(leaf.path, l.path)} \cup {leaf}

\* Save, of fields that are all to be saved.
Document(fs, vs) == FoldLeft(putNested, {}, [i \in 1..Cardinality(fs) |->
                        Leaf(Sorted(fs)[i].path, vs[Sorted(fs)[i].path])])

\* Mutant: names with dots are taken as they are.
flattenDotted(doc, fieldKeys, parents) ==
    [ok |-> TRUE, flat |-> {<<key(l.path), l.v>> : l \in doc}]

\* The keys of a document and what they hold.  A name with a dot is refused,
\* an object where a field is stays whole, and an empty object is dropped where
\* other fields have their namespace.
flatten(doc, fieldKeys, parents) ==
    LET Whole(l) == Len(l.path) = 2 /\ l.path[1] \in fieldKeys
        Dropped(l) == l.v = Object /\ key(l.path) \in parents \ fieldKeys IN
    [ok   |-> ~\E l \in doc : \E i \in 1..Len(l.path) : Contains(l.path[i], Dot),
     flat |-> {IF Whole(l) THEN <<l.path[1], Object>> ELSE <<key(l.path), l.v>> :
                  l \in {d \in doc : ~Dropped(d)}}]

-----------------------------------------------------------------------------
Init ==
    /\ phase = "walk"
    /\ fields = {}
    /\ values = <<>>
    /\ file = {}

\* Mutant: a key may be declared twice.
FieldAgain(path, env) ==
    /\ phase = "walk"
    /\ Cardinality(fields) < MaxFields
    /\ fields' = fields \cup {[path |-> path, env |-> env]}
    /\ UNCHANGED <<phase, values, file>>

\* walk comes to the next field, with a derived name for the environment, an
\* explicit one or none.
Field(path, env) ==
    /\ phase = "walk"
    /\ Cardinality(fields) < MaxFields
    /\ IF \E f \in fields : key(f.path) = key(path)
       THEN phase' = "refused" /\ UNCHANGED fields
       ELSE fields' = fields \cup {[path |-> path, env |-> env]} /\ UNCHANGED phase
    /\ UNCHANGED <<values, file>>

\* The end of makeRegistry.
makeRegistry ==
    /\ phase = "walk"
    /\ fields # {}
    /\ IF Collides(fields) \/ DuplicateEnv(fields)
       THEN phase' = "refused" /\ UNCHANGED values
       ELSE phase' = "ready" /\ values' = [p \in {f.path : f \in fields} |-> 0]
    /\ UNCHANGED <<fields, file>>

Set(path) ==
    /\ phase = "ready"
    /\ path \in DOMAIN values
    /\ values' = [values EXCEPT ![path] = 1]
    /\ UNCHANGED <<phase, fields, file>>

Save ==
    /\ phase = "ready"
    /\ file' = Document(fields, values)
    /\ UNCHANGED <<phase, fields, values>>

Stop ==
    /\ phase = "ready"
    /\ phase' = "stopped"
    /\ values' = [p \in DOMAIN values |-> 0]
    /\ UNCHANGED <<fields, file>>

\* Someone adds a leaf to the file.
Edit(path, v) ==
    /\ phase = "stopped"
    /\ Cardinality(file) < MaxLeaves
    /\ ~\E l \in file : IsPrefix(l.path, path) \/ IsPrefix(path, l.path)
    /\ file' = file \cup {Leaf(path, v)}
    /\ UNCHANGED <<phase, fields, values>>

leaves == {key(p) : p \in DOMAIN values}
namespaces == {p[1] : p \in {q \in DOMAIN values : Len(q) = 2}}

\* Load of a program that starts: a key that is no field's, or an object at a
\* field, fails it.  What the file leaves out has its default.
Load ==
    /\ phase = "stopped"
    /\ LET doc == flatten(file, leaves, namespaces)
           ok == doc.ok /\ \A e \in doc.flat : e[1] \in leaves /\ e[2] # Object
       IN /\ phase' = IF ok THEN "ready" ELSE "failed"
          /\ values' = [p \in DOMAIN values |->
                           IF ok /\ <<key(p), 1>> \in doc.flat THEN 1 ELSE 0]
    /\ UNCHANGED <<fields, file>>

Next ==
    \/ \E p \in Paths(Names) : \E env \in {derivedEnv(p), <<>>, <<LetterA>>} : Field(p, env)
    \/ makeRegistry
    \/ \E p \in Paths(Names) : Set(p)
    \/ Save
    \/ Stop
    \/ \E p \in Paths(FileNames), v \in {1, Object} : Edit(p, v)
    \/ Load

Spec == Init /\ [][Next]_vars

-----------------------------------------------------------------------------
\* Properties

\* Fields have different keys, and a document is a tree: no leaf is below
\* another.
TypeOK ==
    /\ phase \in {"walk", "refused", "ready", "stopped", "failed"}
    /\ \A f, g \in fields : key(f.path) = key(g.path) => f = g
    /\ \A l, m \in file : IsPrefix(l.path, m.path) => l = m

\* What the README says of a schema: "scalar/namespace collisions fail loading".
\* A key of an accepted schema is never the namespace of another.
\* (With hyphens in names the code departs from this: "Departures observed" in
\* the README.)
CollisionsRefused ==
    phase = "ready" => \A f, g \in fields : ~IsPrefix(key(f.path) \o <<Dot>>, key(g.path))

\* In an accepted schema no leaf of a file and no variable of the environment
\* is for two fields, although dots and underscores meet in derivedEnv.
Unambiguous ==
    /\ CollisionsRefused
    /\ phase = "ready" => \A f, g \in fields : f.env # <<>> /\ f.env = g.env => f = g

\* What Save would write, the next program would load as it was: nothing of it
\* is lost or refused.
SavedLoads ==
    phase = "ready" =>
        LET doc == flatten(Document(fields, values), leaves, namespaces) IN
        doc.ok /\ doc.flat = {<<key(p), values[p]>> : p \in DOMAIN values}

\* "keys must match the schema exactly": a Load that succeeds has taken every
\* value in the file, wherever it is.
Strict ==
    [][phase = "stopped" /\ phase' = "ready" =>
          \A l \in file : l.v # Object => l.path \in DOMAIN values /\ values'[l.path] = l.v]_vars
=============================================================================
