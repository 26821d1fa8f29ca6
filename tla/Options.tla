------------------------------ MODULE Options ------------------------------
(***************************************************************************)
(* The options of the certs package (options.go).  Every constructor and   *)
(* operation takes a list of options of one interface; parseOptions folds  *)
(* it into optionValues, from left to right, and stops at the first option *)
(* that is nil, belongs to another operation, is repeated or is refused by *)
(* its own apply.                                                          *)
(*                                                                         *)
(* An option is a name and an argument; what the fold keeps is, for every  *)
(* field of optionValues, the arguments stored there.                      *)
(***************************************************************************)
EXTENDS Sequences, SequencesExt, FiniteSets

CONSTANTS
    Arguments,   \* arguments a caller may pass
    Unusable,    \* the empty or nil one among them
    MaxOptions   \* bound: options in one list

OptionsConstants == Unusable \in Arguments

VARIABLES
    scope,   \* the operation the list is for
    given,   \* the options applied so far
    parsed   \* parseOptions' variables: seen, the values, and the answer

vars == <<scope, given, parsed>>

Scopes == {"Authority", "Ensure", "IssuerManager", "IssuerDefinition", "Sign",
           "CSR", "Load", "TrustBundle", "Save", "Store", "Promote"}

\* The options and the operations each is valid for; a nil one is for none.
ScopesOf ==
    [nil |-> {},
     WithStore |-> {"Authority", "IssuerManager"},
     WithLogger |-> {"Authority", "IssuerManager", "CSR"},
     WithAuthorityName |-> {"Authority"}, WithIdentity |-> {"Authority"},
     WithOwner |-> {"Authority", "Store"}, WithGroup |-> {"Authority", "Store"},
     WithRootKeySpec |-> {"Authority"}, WithIssuanceMode |-> {"Authority"},
     WithIssuer |-> {"Authority"}, WithRootValidity |-> {"Authority"},
     WithRootRotateBefore |-> {"Ensure"}, WithIssuerRotateBefore |-> {"Ensure"},
     WithIssuerName |-> {"IssuerManager"},
     WithRootUnlock |-> {"Authority", "Promote"},
     WithProfile |-> {"Sign"}, WithLifetime |-> {"Sign"},
     WithSubject |-> {"Sign", "CSR"}, WithSANs |-> {"Sign", "CSR"},
     WithAdditionalSANs |-> {"Sign"}, WithKeySpec |-> {"CSR"},
     WithKeyPassphrase |-> {"CSR", "Load"},
     WithCert |-> {"Load", "TrustBundle"}, WithCertPEM |-> {"Load", "TrustBundle"},
     WithCertPath |-> {"Load", "TrustBundle"},
     WithKey |-> {"Load"}, WithKeyPath |-> {"Load"}, WithReplace |-> {"Save"},
     WithIssuerValidity |-> {"IssuerDefinition"},
     WithAllowedProfiles |-> {"IssuerDefinition"},
     WithSubjectOwner |-> {"IssuerDefinition"},
     WithRequiredSubject |-> {"IssuerDefinition"},
     WithDNSPolicy |-> {"IssuerDefinition"}, WithDNSSuffixes |-> {"IssuerDefinition"},
     WithIPPolicy |-> {"IssuerDefinition"}, WithIPRanges |-> {"IssuerDefinition"},
     WithURIPolicy |-> {"IssuerDefinition"}, WithURIPrefixes |-> {"IssuerDefinition"},
     WithEmailPolicy |-> {"IssuerDefinition"},
     WithEmailDomains |-> {"IssuerDefinition"}]

Names == DOMAIN ScopesOf
Option == [name: Names, arg: Arguments]

Repeatable == {"WithCert", "WithCertPEM", "WithCertPath", "WithIssuer",
               "WithIssuerRotateBefore"}

\* Options that refuse an empty or nil argument.
Checked == {"WithStore", "WithRootUnlock", "WithKeyPassphrase", "WithCert",
            "WithCertPEM", "WithCertPath", "WithKey", "WithKeyPath"}

\* The field an option sets: the SAN policies have two names each.
Field(name) ==
    CASE name = "WithDNSPolicy"   -> "WithDNSSuffixes"
      [] name = "WithIPPolicy"    -> "WithIPRanges"
      [] name = "WithURIPolicy"   -> "WithURIPrefixes"
      [] name = "WithEmailPolicy" -> "WithEmailDomains"
      [] OTHER -> name

Shared == {"WithDNSSuffixes", "WithIPRanges", "WithURIPrefixes", "WithEmailDomains"}

\* Mutant: only WithKeyPath looks at the other source of the key.
RefusesKeyPathOnly(o, values) ==
    \/ o.name \in Checked /\ o.arg = Unusable
    \/ Field(o.name) \in Shared /\ values[Field(o.name)] # <<>>
    \/ o.name = "WithKeyPath" /\ values["WithKey"] # <<>>
    \/ /\ o.name = "WithIssuerRotateBefore"
       /\ o.arg \in Range(values[o.name])

\* Mutant: the aliases of a policy do not know of each other.
RefusesUnshared(o, values) ==
    \/ o.name \in Checked /\ o.arg = Unusable
    \/ o.name = "WithKey" /\ values["WithKeyPath"] # <<>>
    \/ o.name = "WithKeyPath" /\ values["WithKey"] # <<>>
    \/ /\ o.name = "WithIssuerRotateBefore"
       /\ o.arg \in Range(values[o.name])

\* What an option's own apply refuses, given the values so far.
Refuses(o, values) ==
    \/ o.name \in Checked /\ o.arg = Unusable
    \/ Field(o.name) \in Shared /\ values[Field(o.name)] # <<>>
    \/ o.name = "WithKey" /\ values["WithKeyPath"] # <<>>
    \/ o.name = "WithKeyPath" /\ values["WithKey"] # <<>>
    \/ /\ o.name = "WithIssuerRotateBefore"
       /\ o.arg \in Range(values[o.name])

\* What apply stores: a repeatable option appends, the others assign.
Apply(o, values) ==
    [values EXCEPT ![Field(o.name)] =
        IF o.name \in Repeatable THEN Append(@, o.arg) ELSE <<o.arg>>]

Nothing == [seen |-> {}, values |-> [n \in Names |-> <<>>], err |-> FALSE]

\* Mutant: what is remembered as seen is the operation, not the option.
ParseSeenScope(p, s, o) ==
    IF \/ p.err
       \/ s \notin ScopesOf[o.name]
       \/ o.name \in p.seen /\ o.name \notin Repeatable
       \/ Refuses(o, p.values)
    THEN [p EXCEPT !.err = TRUE]
    ELSE [p EXCEPT !.seen = @ \cup {s}, !.values = Apply(o, @)]

\* One turn of the loop of parseOptions.
Parse(p, s, o) ==
    IF \/ p.err
       \/ s \notin ScopesOf[o.name]
       \/ o.name \in p.seen /\ o.name \notin Repeatable
       \/ Refuses(o, p.values)
    THEN [p EXCEPT !.err = TRUE]
    ELSE [p EXCEPT !.seen = @ \cup {o.name}, !.values = Apply(o, @)]

\* The whole loop over a list.
parseOptions(s, opts) ==
    FoldLeft(LAMBDA p, o : Parse(p, s, o), Nothing, opts)

-----------------------------------------------------------------------------

Init ==
    /\ scope \in Scopes
    /\ given = <<>>
    /\ parsed = Nothing

\* The next option of the caller's list.
Next ==
    \E o \in Option :
        /\ ~parsed.err
        /\ Len(given) < MaxOptions
        /\ given' = Append(given, o)
        /\ parsed' = Parse(parsed, scope, o)
        /\ UNCHANGED scope

Spec == Init /\ [][Next]_vars

-----------------------------------------------------------------------------
\* Properties

\* Every variable has its type.
TypeOK ==
    /\ scope \in Scopes
    /\ given \in Seq(Option)
    /\ parsed \in [seen: SUBSET Names, values: [Names -> Seq(Arguments)], err: BOOLEAN]

\* No option silently undoes another: when parseOptions accepts a list, the
\* argument of every option in it is in the values, also of those that share
\* a field under two names.
NothingOverwritten ==
    ~parsed.err => \A i \in DOMAIN given :
        given[i].arg \in Range(parsed.values[Field(given[i].name)])

\* A key comes from one source, and whether a list of options is accepted
\* does not depend on the order the caller wrote it in; nor do the values,
\* but for the order of those that may be repeated.
OrderIrrelevant ==
    ~parsed.err => \A perm \in SetToSeqs(DOMAIN given) :
        LET p == parseOptions(scope, [i \in DOMAIN given |-> given[perm[i]]]) IN
        /\ ~p.err
        /\ \A n \in Names : Range(p.values[n]) = Range(parsed.values[n])
=============================================================================
