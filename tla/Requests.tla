------------------------------ MODULE Requests ------------------------------
(***************************************************************************)
(* What an issuer may certify: the definition an operator declares         *)
(* (models.go), the request a client makes (csr.go), the policy SignCSR    *)
(* holds it against (issuer.go), and the record of the leaf, which every   *)
(* later reader of the ledger checks again (validate.go).                  *)
(*                                                                         *)
(* The same name has many spellings, and each of these places normalises   *)
(* it by its own rules, some refusing what others merge; between them it   *)
(* passes through X.509 and JSON.  A DNS name is a sequence of labels with *)
(* its case and what surrounds it; an IP address is a network and a host,  *)
(* in 4 or 16 bytes; a URI is a sequence of chunks, the first its scheme   *)
(* with its case.                                                          *)
(* Organization stands for the five fields of an Identity treated alike.   *)
(* Times, serials and the steps of the signing loop are in Issuance.       *)
(***************************************************************************)
EXTENDS Naturals, Sequences, SequencesExt, FiniteSets

CONSTANTS
    Configs,      \* identity and issuer definition a manager is given
    Requests,     \* subject and names NewCSR is given
    ForeignCSRs,  \* CSRs made elsewhere
    SignOptions   \* options of SignCSR

VARIABLES
    config,  \* what NewAuthorityManager was given and what it made of it
    store,   \* the stored authority
    csr,     \* the request in hand
    leaf,    \* the leaf issued for it, and its ledger record
    answer   \* what the last call answered

vars == <<config, store, csr, leaf, answer>>

None == [none |-> TRUE]

-----------------------------------------------------------------------------
\* Identities

Field(t, pad) == [t |-> t, pad |-> pad]
Blank == Field("", FALSE)
Plain(v) == [o |-> Field(v.o, FALSE), cn |-> Field(v.cn, FALSE)]

\* A value with a control character, or longer than its field allows; as a part
\* of a URI, a host that X.509 does not have, such as one that ends in a dot.
Unfit == "unfit"

FitIdentity(v) == v.o.t # Unfit /\ v.cn.t # Unfit

\* Surrounding whitespace is removed.
normalizeIdentity(v) == [o |-> v.o.t, cn |-> v.cn.t]

-----------------------------------------------------------------------------
\* Names

Kinds == {"dns", "ip", "uri", "email"}
NoSANs == [k \in Kinds |-> <<>>]
Wildcard == "*"

\* pad: "space" around the name, one trailing "dot" or two "dots", or a "lead"
\* dot in front.
DNS(labels, upper, pad) == [labels |-> labels, upper |-> upper, pad |-> pad]
IP(net, host, wide) == [net |-> net, host |-> host, wide |-> wide]
URI(chunks, upper) == [chunks |-> chunks, upper |-> upper]
Email(local, labels, upper, pad) ==
    [local |-> local, labels |-> labels, upper |-> upper, pad |-> pad]

validLabels(labels, wildcard) ==
    LET rest == IF wildcard /\ Len(labels) > 1 /\ Head(labels) = Wildcard
                THEN Tail(labels) ELSE labels IN
    rest # <<>> /\ Wildcard \notin Range(rest)

validDNSName(d, wildcard) == d.pad = "none" /\ validLabels(d.labels, wildcard)

\* The spelling that is kept of one name.
Spelled(kind, x) ==
    CASE kind = "dns" ->
           DNS(x.labels, FALSE, IF x.pad \in {"space", "dot"} THEN "none" ELSE x.pad)
      [] kind = "email" -> [x EXCEPT !.pad = FALSE]
      [] OTHER -> x

ValidName(kind, x) ==
    CASE kind = "dns"   -> validDNSName(x, TRUE)
      [] kind = "ip"    -> x.net # Unfit
      [] kind = "uri"   -> x.chunks # <<>> /\ Head(x.chunks) # ""
      [] kind = "email" -> x.local # "" /\ validLabels(x.labels, FALSE)

\* The keys of the duplicate checks: the text of an address, an e-mail address
\* whatever its case.
SameName(kind, x, y) ==
    CASE kind = "ip"    -> x.net = y.net /\ x.host = y.host
      [] kind = "email" -> x.local = y.local /\ x.labels = y.labels
      [] OTHER -> x = y

SpelledSANs(s) == [k \in Kinds |-> [i \in DOMAIN s[k] |-> Spelled(k, s[k][i])]]

ValidSANs(s) ==
    \A k \in Kinds : \A x \in Range(SpelledSANs(s)[k]) : ValidName(k, x)

NoDuplicates(s) ==
    \A k \in Kinds : \A i, j \in DOMAIN s[k] :
        i # j => ~SameName(k, SpelledSANs(s)[k][i], SpelledSANs(s)[k][j])

\* normalizeSANs refuses duplicates, normalizeSANsAllowDuplicates keeps the
\* first of them.
Normalizes(s) == ValidSANs(s) /\ NoDuplicates(s)
normalizeSANs(s) == SpelledSANs(s)

normalizeSANsAllowDuplicates(s) ==
    [k \in Kinds |->
        FoldLeft(LAMBDA out, x : IF \E y \in Range(out) : SameName(k, x, y)
                                 THEN out ELSE Append(out, x),
                 <<>>, SpelledSANs(s)[k])]

mergeSANs(a, b) == normalizeSANsAllowDuplicates([k \in Kinds |-> a[k] \o b[k]])

\* url.Parse reads the scheme of a text in lower case.
Parse(u) == URI(u.chunks, FALSE)

\* What becomes of names in a certificate or CSR (addresses in 4 bytes, URIs as
\* text), when it can be parsed again, and in JSON (addresses as text, read back
\* in 16 bytes, and URIs as text).
Parses(s) == \A u \in Range(s.uri) : Unfit \notin Range(u.chunks)
x509(s) == [s EXCEPT !.ip = [i \in DOMAIN @ |-> [@[i] EXCEPT !.wide = FALSE]],
                     !.uri = [i \in DOMAIN @ |-> Parse(@[i])]]
MarshalJSON(s) == [s EXCEPT !.ip = [i \in DOMAIN @ |-> <<@[i].net, @[i].host>>]]
UnmarshalJSON(w) == [w EXCEPT !.ip = [i \in DOMAIN @ |-> IP(@[i][1], @[i][2], TRUE)],
                              !.uri = [i \in DOMAIN @ |-> Parse(@[i])]]

-----------------------------------------------------------------------------
\* Issuer definitions

Profiles == <<"client", "server", "both">>

\* A suffix loses its surrounding dots as well.
Suffix(d) == DNS(d.labels, FALSE, "none")

\* Mutant: a dot at the end of the domain is dropped, once.
DomainOneDot(d) ==
    DNS(d.labels, FALSE, IF d.pad = "dots" THEN "dot"
                         ELSE IF d.pad \in {"space", "dot"} THEN "none" ELSE d.pad)

\* An e-mail domain loses only whitespace; a dot stays, and then never matches.
Domain(d) == DNS(d.labels, FALSE, IF d.pad = "space" THEN "none" ELSE d.pad)

FitDefinition(d) ==
    /\ d.profiles # <<>>
    /\ Range(d.profiles) \subseteq Range(Profiles)
    /\ IsInjective(d.profiles)
    /\ d.owner.t # Unfit
    /\ FitIdentity(d.required)
    /\ \A s \in Range(d.dns) : validDNSName(Suffix(s), FALSE)
    /\ \A n \in Range(d.ip) : n # Unfit
    /\ \A u \in Range(d.uri) : ValidName("uri", u)
    /\ \A e \in Range(d.email) : e.labels # <<>>

finishIssuerDefinition(d) ==
    [d EXCEPT !.owner = Field(@.t, FALSE), !.required = Plain(normalizeIdentity(@)),
              !.dns = [i \in DOMAIN @ |-> Suffix(@[i])],
              !.email = [i \in DOMAIN @ |-> Domain(@[i])]]

\* A definition that did not come from NewIssuerDefinition, or comes from the
\* store: what is empty gets its default, and the rest is done again.
Defaulted(d) == [d EXCEPT !.profiles = IF @ = <<>> THEN Profiles ELSE @]
validateDefinition(d) == finishIssuerDefinition(Defaulted(d))

-----------------------------------------------------------------------------
\* What callers may supply

Pads == {"none", "space", "dot", "dots", "lead"}
FieldSet == [t: STRING, pad: BOOLEAN]
IdentitySet == [o: FieldSet, cn: FieldSet]

\* The names of a kind.
NameSet(kind) ==
    CASE kind = "dns"   -> [labels: Seq(STRING), upper: BOOLEAN, pad: Pads]
      [] kind = "ip"    -> [net: STRING, host: Nat, wide: BOOLEAN]
      [] kind = "uri"   -> [chunks: Seq(STRING), upper: BOOLEAN]
      [] kind = "email" -> [local: STRING, labels: Seq(STRING), upper: BOOLEAN, pad: BOOLEAN]

IsSANs(s) ==
    s = [k \in Kinds |-> s[k]] /\ \A k \in Kinds : s[k] \in Seq(NameSet(k))

IsDefinition(d) ==
    /\ d = [profiles |-> d.profiles, owner |-> d.owner, required |-> d.required,
            dns |-> d.dns, ip |-> d.ip, uri |-> d.uri, email |-> d.email]
    /\ d.owner \in FieldSet /\ d.required \in IdentitySet
    /\ d.dns \in Seq(NameSet("dns")) /\ d.email \in Seq(NameSet("dns"))
    /\ d.ip \in Seq(STRING) /\ d.uri \in Seq(NameSet("uri"))

ASSUME RequestsConstants ==
    /\ \A c \in Configs : c.identity \in IdentitySet /\ IsDefinition(c.def)
    /\ \A r \in Requests : r.subject \in IdentitySet /\ IsSANs(r.sans)
    /\ \A c \in ForeignCSRs :
         c.subject \in IdentitySet /\ IsSANs(c.sans) /\ c.sound \in BOOLEAN
    /\ \A o \in SignOptions :
         /\ o.subject = None \/ o.subject \in IdentitySet
         /\ o.sans = None \/ IsSANs(o.sans)
         /\ o.more = None \/ IsSANs(o.more)

-----------------------------------------------------------------------------
\* The policy

\* The name is the suffix, or ends in a dot and the suffix.
matchesDNSSuffix(d, suffixes) ==
    \E s \in Range(suffixes) : IsSuffix(s.labels, d.labels)

validateRequest(def, subject, sans) ==
    /\ def.owner.t # "" => subject.o = def.owner.t
    /\ def.required.o.t # "" => subject.o = def.required.o.t
    /\ def.required.cn.t # "" => subject.cn = def.required.cn.t
    /\ \A d \in Range(sans.dns) : def.dns # <<>> => matchesDNSSuffix(d, def.dns)
    /\ \A a \in Range(sans.ip) : def.ip # <<>> => a.net \in Range(def.ip)
    /\ \A u \in Range(sans.uri) :
          def.uri # <<>> =>
             \E p \in Range(def.uri) : p.upper = u.upper /\ IsPrefix(p.chunks, u.chunks)
    /\ \A e \in Range(sans.email) :
          def.email # <<>> =>
             \E p \in Range(def.email) : p.labels = e.labels /\ p.pad = "none"

usages(profile) ==
    CASE profile = "client" -> {"client auth"}
      [] profile = "server" -> {"server auth"}
      [] OTHER -> {"client auth", "server auth"}

\* validateLedgerRecord, as far as the contents of the leaf go.
validateLedgerRecord(rec, cert) ==
    /\ rec.profile \in Range(Profiles)
    /\ rec.subject = cert.subject
    /\ ValidSANs(cert.sans) /\ ValidSANs(rec.sans)
    /\ MarshalJSON(normalizeSANsAllowDuplicates(cert.sans))
         = MarshalJSON(normalizeSANsAllowDuplicates(rec.sans))
    /\ cert.usages = usages(rec.profile)

-----------------------------------------------------------------------------
\* Operations

Init ==
    /\ config = None
    /\ store = None
    /\ csr = None
    /\ leaf = None
    /\ answer = "none"

\* Mutant: definitions are normalised but not checked.
NewAuthorityManagerUnchecked ==
    /\ config = None
    /\ \E c \in Configs :
       LET accepted == FitIdentity(c.identity) IN
       /\ answer' = IF accepted THEN "manager" ELSE "invalid"
       /\ config' = IF accepted
                    THEN [identity |-> normalizeIdentity(c.identity),
                          def |-> validateDefinition(c.def), declared |-> c.def]
                    ELSE None
    /\ UNCHANGED <<store, csr, leaf>>

\* NewAuthorityManager normalises its identity and its issuers, or refuses.
NewAuthorityManager ==
    /\ config = None
    /\ \E c \in Configs :
       LET accepted == FitIdentity(c.identity) /\ FitDefinition(Defaulted(c.def)) IN
       /\ answer' = IF accepted THEN "manager" ELSE "invalid"
       /\ config' = IF accepted
                    THEN [identity |-> normalizeIdentity(c.identity),
                          def |-> validateDefinition(c.def), declared |-> c.def]
                    ELSE None
    /\ UNCHANGED <<store, csr, leaf>>

\* caName replaces the common name by that of the certificate authority, so
\* that identityFromCAName reads none back.
RootSubject(identity) == [identity EXCEPT !.cn = ""]

\* validateState: what the update is about to write must normalise to itself
\* and agree with the root's certificate.
ValidState(s) ==
    /\ RootSubject(s.identity) = s.identity
    /\ FitDefinition(Defaulted(s.def)) /\ validateDefinition(s.def) = s.def

Ensure ==
    /\ config # None
    /\ store = None
    /\ LET s == [identity |-> config.identity, def |-> config.def] IN
       /\ answer' = IF ValidState(s) THEN "provisioned" ELSE "drift"
       /\ store' = IF ValidState(s) THEN s ELSE None
    /\ UNCHANGED <<config, csr, leaf>>

\* Mutant: the subject is passed on as it is.
NewCSRUnchecked ==
    /\ store # None
    /\ csr = None
    /\ \E r \in Requests :
       LET accepted == Normalizes(r.sans) /\ Parses(r.sans) IN
       /\ answer' = IF accepted THEN "request" ELSE "invalid"
       /\ csr' = IF accepted
                 THEN [subject |-> r.subject, sans |-> x509(normalizeSANs(r.sans)),
                       sound |-> TRUE, own |-> TRUE]
                 ELSE None
    /\ UNCHANGED <<config, store, leaf>>

\* NewCSR parses the request it made, and refuses one that does not parse.
NewCSR ==
    /\ store # None
    /\ csr = None
    /\ \E r \in Requests :
       LET accepted == FitIdentity(r.subject) /\ Normalizes(r.sans) IN
       /\ answer' = IF ~accepted THEN "invalid" ELSE IF Parses(r.sans) THEN "request" ELSE "corrupt"
       /\ csr' = IF accepted /\ Parses(r.sans)
                 THEN [subject |-> Plain(normalizeIdentity(r.subject)),
                       sans |-> x509(normalizeSANs(r.sans)),
                       sound |-> TRUE, own |-> TRUE]
                 ELSE None
    /\ UNCHANGED <<config, store, leaf>>

\* A CSR from elsewhere: names as its maker wrote them.  It is not sound when
\* it is not one block with a good signature and a supported key, does not
\* parse, or carries other extensions or subject attributes.
Receive ==
    /\ store # None
    /\ csr = None
    /\ \E c \in ForeignCSRs :
         csr' = [subject |-> c.subject, sans |-> x509(c.sans),
                 sound |-> c.sound /\ Parses(c.sans), own |-> FALSE]
    /\ answer' = "request"
    /\ UNCHANGED <<config, store, leaf>>

\* The subject and the names the leaf will have, after the options.
Subject(o) == normalizeIdentity(IF o.subject = None THEN csr.subject ELSE o.subject)

Names(o) ==
    LET base == IF o.sans = None THEN normalizeSANsAllowDuplicates(csr.sans)
                ELSE normalizeSANs(o.sans) IN
    IF o.more = None THEN base ELSE mergeSANs(base, o.more)

\* Mutant: the record keeps the names before WithAdditionalSANs.
SignedBeforeMerge(o) ==
    [cert |-> [subject |-> Subject(o), sans |-> x509(Names(o)), usages |-> usages(o.profile)],
     rec |-> [subject |-> Subject(o), sans |-> Names([o EXCEPT !.more = None]),
              profile |-> o.profile]]

Signed(o) ==
    [cert |-> [subject |-> Subject(o), sans |-> x509(Names(o)), usages |-> usages(o.profile)],
     rec |-> [subject |-> Subject(o), sans |-> Names(o), profile |-> o.profile]]

\* Mutant: only what the CSR itself asks for is held against the policy.
SignAnswerCSROnly(o) ==
    IF \/ o.profile \notin Range(Profiles)
       \/ ~csr.sound \/ ~FitIdentity(csr.subject) \/ ~ValidSANs(csr.sans)
    THEN "invalid"
    ELSE IF ~validateRequest(store.def, normalizeIdentity(csr.subject),
                             normalizeSANsAllowDuplicates(csr.sans))
    THEN "forbidden"
    ELSE IF \/ o.subject # None /\ ~FitIdentity(o.subject)
            \/ o.sans # None /\ ~Normalizes(o.sans)
            \/ o.more # None /\ ~ValidSANs(o.more)
    THEN "invalid"
    ELSE IF o.profile \notin Range(store.def.profiles)
    THEN "forbidden"
    ELSE IF ~Parses(Names(o)) \/ ~validateLedgerRecord(Signed(o).rec, Signed(o).cert)
    THEN "corrupt"
    ELSE "issued"

\* The checks of SignCSR in their order: the CSR as it is, then with the
\* options applied, the certificate that was made, and the record as
\* appendLedger validates it.
SignAnswer(o) ==
    IF \/ o.profile \notin Range(Profiles)
       \/ ~csr.sound \/ ~FitIdentity(csr.subject) \/ ~ValidSANs(csr.sans)
    THEN "invalid"
    ELSE IF ~validateRequest(store.def, normalizeIdentity(csr.subject),
                             normalizeSANsAllowDuplicates(csr.sans))
    THEN "forbidden"
    ELSE IF \/ o.subject # None /\ ~FitIdentity(o.subject)
            \/ o.sans # None /\ ~Normalizes(o.sans)
            \/ o.more # None /\ ~ValidSANs(o.more)
    THEN "invalid"
    ELSE IF \/ ~validateRequest(store.def, Subject(o), Names(o))
            \/ o.profile \notin Range(store.def.profiles)
    THEN "forbidden"
    ELSE IF ~Parses(Names(o)) \/ ~validateLedgerRecord(Signed(o).rec, Signed(o).cert)
    THEN "corrupt"
    ELSE "issued"

SignCSR ==
    /\ csr # None
    /\ leaf = None
    /\ \E o \in SignOptions :
         LET given == SignAnswer(o) IN
         /\ answer' = given
         /\ leaf' = [answer |-> given, options |-> o,
                     issued |-> IF given = "issued" THEN Signed(o) ELSE None]
    /\ UNCHANGED <<config, store, csr>>

Next == NewAuthorityManager \/ Ensure \/ NewCSR \/ Receive \/ SignCSR

Spec == Init /\ [][Next]_vars

-----------------------------------------------------------------------------
\* Properties

Answers == {"none", "manager", "provisioned", "drift", "request", "issued",
            "invalid", "forbidden", "corrupt"}

\* Every variable has its type; what has been accepted is spelled one way.
TypeOK ==
    /\ answer \in Answers
    /\ config # None => FitDefinition(config.def)
    /\ store # None => config # None /\ store.def = config.def
    /\ csr # None => store # None
    /\ leaf # None => csr # None /\ leaf.answer \in Answers

\* What the operator declared, read without regard to spelling: a policy that
\* names something restricts names of its kind.
Declared(subject, sans) ==
    LET d == config.declared IN
    /\ d.owner.t \in {"", subject.o}
    /\ d.required.o.t \in {"", subject.o}
    /\ d.required.cn.t \in {"", subject.cn}
    /\ \A x \in Range(sans.dns) : d.dns = <<>> \/
          \E i \in DOMAIN d.dns : \E n \in DOMAIN x.labels :
              SubSeq(x.labels, n, Len(x.labels)) = d.dns[i].labels
    /\ \A x \in Range(sans.ip) : d.ip = <<>> \/ x.net \in Range(d.ip)
    /\ \A x \in Range(sans.uri) : d.uri = <<>> \/
          \E i \in DOMAIN d.uri : SubSeq(x.chunks, 1, Len(d.uri[i].chunks)) = d.uri[i].chunks
    /\ \A x \in Range(sans.email) : d.email = <<>> \/
          \E i \in DOMAIN d.email : d.email[i].labels = x.labels

\* No combination of CSR and options makes SignCSR certify what the operator's
\* declaration excludes, and options cannot rescue a CSR that asks for it:
\* both the leaf and the request behind it are within the policy.
WithinPolicy ==
    leaf # None /\ leaf.answer = "issued" =>
        /\ Declared(leaf.issued.cert.subject, leaf.issued.cert.sans)
        /\ Declared(normalizeIdentity(csr.subject), csr.sans)
        /\ \E p \in Range(store.def.profiles) : leaf.issued.cert.usages = usages(p)

\* Names whose URIs a certificate gives back as they were.
GivenBack(s) == \A u \in Range(s.uri) : ~u.upper /\ Unfit \notin Range(u.chunks)

\* A request that passes the policy is refused by its own certificate or ledger
\* record only for a URI of the options that X.509 does not give back as it was;
\* and the record, once written as JSON and read back, still agrees with the
\* certificate in it: one that did not would make the ledger unreadable.
RecordReadable ==
    leaf # None =>
        /\ leaf.answer = "corrupt" => \E s \in {leaf.options.sans, leaf.options.more} :
                                         s # None /\ ~GivenBack(s)
        /\ leaf.answer = "issued" =>
             validateLedgerRecord(
                 [leaf.issued.rec EXCEPT !.sans = UnmarshalJSON(MarshalJSON(@))],
                 leaf.issued.cert)

\* SignCSR either refuses names or certifies them: what passes normalizeSANs and
\* the policy is not found to be corrupt afterwards.
\* (The code departs from this: "Departures observed" in the README.)
NamesNeverCorrupt == leaf # None => leaf.answer # "corrupt"

\* What NewCSR made is never malformed for SignCSR, and without options the
\* leaf says exactly what the request says; only of a URI that was given with
\* two spellings of its scheme the request has two and the leaf one.
OwnRequestHonoured ==
    leaf # None /\ csr.own
      /\ leaf.options.subject = None /\ leaf.options.sans = None /\ leaf.options.more = None
      /\ leaf.options.profile \in Range(Profiles)
      => /\ leaf.answer \in {"issued", "forbidden"}
         /\ leaf.answer = "issued" =>
              /\ Plain(leaf.issued.cert.subject) = csr.subject
              /\ NoDuplicates(csr.sans) => leaf.issued.cert.sans = csr.sans
              /\ \A k \in Kinds : Range(leaf.issued.cert.sans[k]) = Range(csr.sans[k])

\* A configuration NewAuthorityManager accepts can be provisioned, whatever
\* its spelling, when the identity has no common name.
ProvisionsAccepted ==
    answer = "drift" => config.identity.cn # ""

\* A configuration NewAuthorityManager accepts can be provisioned.
\* (The code departs from this: "Departures observed" in the README.)
Provisions == answer # "drift"
=============================================================================
