------------------------------- MODULE Codec -------------------------------
(***************************************************************************)
(* How one field of a config gets its value (config/decode.go) and how     *)
(* Save writes it: coerceWithSchema converts what Set, the environment or  *)
(* a file supplies to the type of the field, Save encodes the value in the *)
(* file's format, and the next program decodes it again.                   *)
(*                                                                         *)
(* A raw value is a kind and a content.  Numbers are counted in halves, so *)
(* that the odd ones are fractions; an int has Bits bits, and a float      *)
(* holds some of the numbers, so that a float field rounds.  A text is     *)
(* what it can be parsed as; a number in it may be spelled with an         *)
(* exponent.  Lists are of strings, and Nil is Go's nil slice.             *)
(***************************************************************************)
EXTENDS Integers, Sequences, FiniteSets

CONSTANTS
    Bits,    \* bits of int and uint
    Floats,  \* the numbers a float can hold
    Plain,   \* floats from here on are formatted with an exponent
    Words    \* strings that are nothing else

Types == {"string", "bool", "int", "uint", "float", "duration", "strings", "items"}
Formats == {"json", "yaml", "toml"}

Limit == 2 ^ (Bits - 1)
Numbers == -(2 * Limit + 2)..(4 * Limit)

CodecConstants ==
    /\ Bits \in Nat \ {0, 1}
    /\ Floats # {} /\ Floats \subseteq Numbers
    /\ Plain \in 0..(2 * Limit)
    /\ Words # {}

Integral(n) == n % 2 = 0
Fits(n, type) ==
    CASE type = "int"  -> Integral(n) /\ n >= -2 * Limit /\ n <= 2 * Limit - 2
      [] type = "uint" -> Integral(n) /\ n >= 0 /\ n <= 4 * Limit - 2

\* Rounding to a number that a float can hold.
Distance(m, n) == IF m < n THEN n - m ELSE m - n
Nearest(f, n) == f \in Floats /\ \A g \in Floats : Distance(f, n) <= Distance(g, n)
Round(n) == CHOOSE f \in Floats : Nearest(f, n)

List(items) == [nil |-> FALSE, items |-> items]
Nil == [nil |-> TRUE, items |-> <<>>]
Empty == List(<<>>)
Lists == {Nil, Empty} \cup {List(<<[kind |-> "word", datum |-> w]>>) : w \in Words}

Raw(kind, v) == [kind |-> kind, datum |-> v]
Absent == Raw("absent", 0)
Null == Raw("null", 0)

\* What callers and files may supply: texts, native values, decoded ones.
Texts == {Raw("text", Raw("word", w)) : w \in Words}
    \cup {Raw("text", Raw(spelling, n)) : spelling \in {"number", "exponent"}, n \in Numbers}
    \cup {Raw("text", Raw("bool", b)) : b \in BOOLEAN}
    \cup {Raw("text", Raw("duration", n)) : n \in 0..1}
    \cup {Raw("text", Raw("nan", 0))}
    \cup {Raw("text", Raw("array", l)) : l \in Lists \ {Nil}}
Natives == {Raw("bool", b) : b \in BOOLEAN}
      \cup {Raw("int", n) : n \in {m \in Numbers : Fits(m, "int")}}
      \cup {Raw("uint", n) : n \in {m \in Numbers : Fits(m, "uint")}}
      \cup {Raw("float", n) : n \in Floats} \cup {Raw("nan", 0)}
      \cup {Raw("duration", n) : n \in 0..1}
      \cup {Raw("strings", l) : l \in Lists}
      \cup {Raw("items", l) : l \in Lists}
Decoded == {Raw(spelling, n) : spelling \in {"number", "exponent"}, n \in Numbers}
      \cup {Raw("list", l) : l \in Lists \ {Nil}}
      \cup {Raw("mixed", 0), Raw("object", 0), Null}
      \cup {Raw("objects", l) : l \in Lists \ {Nil, Empty}}
Raws == Texts \cup Natives \cup Decoded

-----------------------------------------------------------------------------
\* Conversion

Value(v) == [ok |-> TRUE, datum |-> v]
Failed == [ok |-> FALSE, datum |-> 0]
If(condition, v) == IF condition THEN Value(v) ELSE Failed

\* append([]string(nil), l...) of an empty list is nil.
Copied(l) == IF l.items = <<>> THEN Nil ELSE l

\* Mutant: any integer is taken, and cut down to the width of the type.
ParseNumberCut(n, type) ==
    IF type = "float" THEN Value(Round(n))
    ELSE If(Integral(n), IF type = "uint" THEN n % (4 * Limit)
                         ELSE ((n + 2 * Limit) % (4 * Limit)) - 2 * Limit)

\* Mutant: the width of the type is not looked at.
ParseNumberWide(n, type) ==
    IF type = "float" THEN Value(Round(n)) ELSE If(Integral(n) /\ (type = "uint" => n >= 0), n)

\* strconv.ParseInt and ParseUint with the width of the type, and ParseFloat.
ParseNumber(n, type) == IF type = "float" THEN Value(Round(n)) ELSE If(Fits(n, type), n)

\* A text, or what fmt.Sprint makes of a number or a bool.
FromText(text, type) ==
    CASE type = "string"   -> Value(text)
      [] type = "strings"  -> Value(IF text.kind = "array" THEN text.datum ELSE List(<<text>>))
      [] type = "duration" -> If(text.kind = "duration" \/ text = Raw("number", 0), text.datum)
      [] type = "bool"     -> IF text \in {Raw("number", 0), Raw("number", 2)}
                              THEN Value(text.datum = 2) ELSE If(text.kind = "bool", text.datum)
      [] type = "items"    -> If(text.kind = "array", text.datum)
      [] OTHER             -> IF text.kind = "number" \/ (text.kind = "exponent" /\ type = "float")
                              THEN ParseNumber(text.datum, type) ELSE Failed

\* json.Number's String, and fmt.Sprint of the other numbers.
Sprint(raw) ==
    IF raw.kind = "exponent" \/ (raw.kind = "float" /\ Distance(raw.datum, 0) >= Plain)
    THEN Raw("exponent", raw.datum) ELSE Raw("number", raw.datum)

Numeric == {"number", "exponent", "int", "uint", "float"}

\* coerceWithSchema and coerceStructuredSlice.  A value of the field's own type
\* is taken, a text is parsed, numbers and bools are formatted and parsed, and
\* lists and objects are for the types that hold them.
coerceWithSchema(raw, type) ==
    IF raw.kind = "text" THEN FromText(raw.datum, type)
    ELSE IF raw.kind = type THEN Value(IF type = "strings" THEN Copied(raw.datum) ELSE raw.datum)
    ELSE IF type = "string" THEN Failed
    ELSE IF raw.kind = "list"
         THEN If(type = "strings" \/ (type = "items" /\ raw.datum = Empty), raw.datum)
    ELSE IF raw.kind = "objects" THEN If(type = "items", raw.datum)
    ELSE IF raw.kind \in Numeric /\ type # "items" THEN FromText(Sprint(raw), type)
    ELSE IF raw.kind = "bool" /\ type # "items" THEN FromText(raw, type)
    ELSE Failed

\* External: an array in the format and what its decoder returns for it; only
\* JSON tells a nil slice from an empty one.
Array(l, kind, format) ==
    IF l.nil /\ format = "json" THEN Null
    ELSE Raw(IF l.items = <<>> THEN "list" ELSE kind, List(l.items))

\* External: a number; YAML and TOML decode to Go's own types, and YAML a float
\* that is formatted like an integer to one.
Numeral(n, type, format) ==
    IF format = "json" THEN Raw("number", n)
    ELSE IF type = "float" /\ (format = "toml" \/ ~Integral(n) \/ Distance(n, 0) >= Plain)
         THEN Raw("float", n)
    ELSE Raw(IF Fits(n, "int") THEN "int" ELSE "uint", n)

\* External: TOML has no unsigned integer above the greatest int, and its
\* encoder refuses one.
Encodable(v, type, format) == type = "uint" /\ format = "toml" => Fits(v, "int")

\* Mutant: a duration is written as the number that it is.
EncodeRawDuration(v, type, format) ==
    CASE type = "string"  -> Raw("text", v)
      [] type = "bool"    -> Raw("bool", v)
      [] type = "strings" -> Array(v, "list", format)
      [] type = "items"   -> Array(v, "objects", format)
      [] OTHER            -> Numeral(v, type, format)

\* Save: durations as text, lists and objects as arrays, the rest as it is.
Encode(v, type, format) ==
    CASE type = "string"   -> Raw("text", v)
      [] type = "bool"     -> Raw("bool", v)
      [] type = "duration" -> Raw("text", Raw("duration", v))
      [] type = "strings"  -> Array(v, "list", format)
      [] type = "items"    -> Array(v, "objects", format)
      [] OTHER             -> Numeral(v, type, format)

-----------------------------------------------------------------------------
VARIABLES
    type,    \* the field's type
    format,  \* the file's format
    raw,     \* what was supplied last
    value,   \* the field's value
    file,    \* what the file holds for the field
    saved    \* history: the value that was saved

vars == <<type, format, raw, value, file, saved>>

Init ==
    /\ type \in Types
    /\ format \in Formats
    /\ raw = Absent
    /\ value = Failed
    /\ file = Absent
    /\ saved = Failed

\* Set with a value; one that does not convert changes nothing.
Set(r) ==
    /\ coerceWithSchema(r, type).ok
    /\ raw' = r
    /\ value' = coerceWithSchema(r, type)
    /\ UNCHANGED <<type, format, file, saved>>

\* A value that the format cannot hold is refused, and the file stays.
Save ==
    /\ value.ok
    /\ Encodable(value.datum, type, format)
    /\ file' = Encode(value.datum, type, format)
    /\ saved' = value
    /\ UNCHANGED <<type, format, raw, value>>

\* The program is started again and loads the file.
Load ==
    /\ file # Absent
    /\ raw' = file
    /\ value' = coerceWithSchema(file, type)
    /\ UNCHANGED <<type, format, file, saved>>

Next == (\E r \in Raws : Set(r)) \/ Save \/ Load

Spec == Init /\ [][Next]_vars

-----------------------------------------------------------------------------
\* Properties

\* A value fits into its type: no text or number overflows it.
TypeOK ==
    /\ type \in Types
    /\ value.ok => CASE type \in {"int", "uint"} -> Fits(value.datum, type)
                     [] type = "bool" -> value.datum \in BOOLEAN
                     [] type = "float" -> value.datum \in Floats
                     [] OTHER -> TRUE

\* What was supplied, without the quotes of a text.
Supplied == IF raw.kind = "text" THEN raw.datum ELSE raw

\* A number, native or decoded or in a text, is taken by an integer field as it
\* is or refused: never rounded, cut down to the width of the type or changed in
\* sign.  A float field rounds it to the nearest float, which for a float is
\* itself; and a string field takes nothing but a text.
Exact ==
    value.ok =>
        /\ Supplied.kind \in Numeric /\ type \in {"int", "uint"} => value.datum = Supplied.datum
        /\ Supplied.kind \in Numeric /\ type = "float" =>
              /\ Nearest(value.datum, Supplied.datum)
              /\ Supplied.datum \in Floats => value.datum = Supplied.datum
        /\ type = "string" => raw.kind = "text"

SavedNil == type \in {"strings", "items"} /\ saved.datum.nil

\* What Save wrote is what the next program loads; a nil slice becomes an empty
\* one, and in JSON it is not looked at here.
SavedReloads ==
    saved.ok /\ ~(format = "json" /\ SavedNil) =>
        coerceWithSchema(file, type) = IF SavedNil THEN Value(Empty) ELSE saved

\* What the README says of persistence: "To persist an externally supplied
\* value, call `Set` first."  A saved value can be loaded again.
\* (The code departs from this: "Departures observed" in the README.)
SetPersists == file # Absent => coerceWithSchema(file, type).ok
=============================================================================
