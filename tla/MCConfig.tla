------------------------------ MODULE MCConfig ------------------------------
(***************************************************************************)
(* The parts of the config package: snapshots and layers (Config), the     *)
(* conversion of values (Codec), keys and documents (Schema) and the       *)
(* buffer of log records (LogBuffer).  A behaviour is one of one part, and *)
(* the variables of the others stay as they are.                           *)
(*                                                                         *)
(* Config has three fields: a port with a default, which an environment    *)
(* variable may override, a sensitive token with a default, and a required *)
(* name.  Every field is saved.  Schemas use the names a and a_a, and      *)
(* files also the dotted name a.a.                                         *)
(***************************************************************************)
EXTENDS Config, Sequences

CONSTANTS
    EnvPort,     \* the environment variable of the port, or Unset
    Bits,        \* bits of int and uint
    Floats,      \* the numbers a float can hold
    Plain,       \* floats from here on are formatted with an exponent
    Words,       \* strings that are nothing else
    Names,       \* names of fields
    FileNames,   \* names an edited file may hold
    MaxFields,   \* bound: fields of a struct
    MaxLeaves,   \* bound: leaves of a file that someone edits
    MaxRecords,  \* maxLogRecords
    MaxAdded     \* bound: log records

MCFields == {"port", "token", "name"}
MCLayer(p, t, n) == [f \in MCFields |-> IF f = "port" THEN p ELSE IF f = "token" THEN t ELSE n]
MCLayers == [default |-> MCLayer("a", "a", Unset), initial |-> MCLayer(Unset, Unset, "b"),
             env |-> MCLayer(EnvPort, Unset, Unset), flag |-> MCLayer(Unset, Unset, Unset)]
MCAllowed == [MCFields -> {"a", "b", Unset}] \ {MCLayer("b", "b", "b")}
MCEdits == {MCLayer("b", "b", "a"), MCLayer(Unset, "b", Unset), MCLayer("x", Unset, "a")}

\* The numbers, in halves, that a single significant bit can hold.
MCFloats == {-4, -2, -1, 0, 1, 2, 4, 8}

VARIABLES
    part,  \* "config", "codec", "schema" or "log"
    type, format, raw, value, encoded, saved,
    phase, fields, values, document,
    added, records, discarded, taken, delivered, reported

Codec == INSTANCE Codec WITH file <- encoded
Schema == INSTANCE Schema WITH file <- document
Log == INSTANCE LogBuffer WITH Goroutines <- Threads

ASSUME PartsConstants == Codec!CodecConstants /\ Schema!SchemaConstants /\ Log!BufferConstants

\* A hyphen is below the dot in the order of the keys: see "Departures observed"
\* in the README.
ASSUME NamesHaveNoHyphens == \A n \in Names : ~Schema!Contains(n, Schema!Hyphen)

\* The names a, a_a and, in files, a.a, with the characters of Schema.
MCNames == {<<4>>, <<4, 3, 4>>}
MCFileNames == MCNames \cup {<<4, 2, 4>>}

codecVars == <<type, format, raw, value, encoded, saved>>
schemaVars == <<phase, fields, values, document>>
logVars == <<added, records, discarded, taken, delivered, reported>>

MCInit ==
    /\ part \in {"config", "codec", "schema", "log"}
    /\ Init /\ Codec!Init /\ Schema!Init /\ Log!Init
    /\ part # "codec" => type = "string" /\ format = "json"

\* A schema may be refused, and then nothing more happens.
Ended == phase \in {"refused", "failed"} /\ UNCHANGED schemaVars

MCNext ==
    /\ \/ part = "config" /\ Next /\ UNCHANGED <<codecVars, schemaVars, logVars>>
       \/ part = "codec" /\ Codec!Next /\ UNCHANGED <<vars, schemaVars, logVars>>
       \/ part = "schema" /\ (Schema!Next \/ Ended) /\ UNCHANGED <<vars, codecVars, logVars>>
       \/ part = "log" /\ Log!Next /\ UNCHANGED <<vars, codecVars, schemaVars>>
    /\ UNCHANGED part

MCSpec == MCInit /\ [][MCNext]_<<part, vars, codecVars, schemaVars, logVars>>

-----------------------------------------------------------------------------
\* Every variable of the four modules has its type: converted values fit into
\* their fields, documents are trees, the log buffer stays within its limit.
TypesOK == TypeOK /\ Codec!TypeOK /\ Schema!TypeOK /\ Log!TypeOK

\* What Save wrote the next program loads as it was, whichever layers the values
\* came from, whatever their types, the format and the nesting of their keys (a
\* nil list in JSON is left out); and a file with sensitive values is private.
SavedReadsBack ==
    /\ RoundTrip /\ SensitivePrivate
    /\ Codec!SavedReloads /\ Schema!SavedLoads

\* An integer field takes a number as it is or refuses it: never rounded, cut down
\* to the width of the field or changed in sign.  A float field takes the nearest
\* float, and floats as they are.  In a schema that makeRegistry accepts no
\* leaf of a file and no variable of the environment is for two fields, and a
\* Load that succeeds has taken every value in the file, wherever it is.
ValuesExact == [](Codec!Exact /\ Schema!Unambiguous) /\ Schema!Strict

\* Every log record that was added is in the buffer, on its way, delivered once,
\* or counted among the discarded ones the logger is told of, however flushes
\* overlap; and the buffer holds the newest, in order and without gaps.
LogAccounted == Log!AtMostOnce /\ Log!Conserved /\ Log!NewestKept
=============================================================================
