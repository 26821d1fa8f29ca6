----------------------------- MODULE CertChain -----------------------------
(***************************************************************************)
(* How certificates and a key that arrive in any order become a chain      *)
(* (normalizeBundle in certs/bundle.go) or a set of trusted roots          *)
(* (normalizeTrustCertificates in trust_bundle.go).                        *)
(*                                                                         *)
(* A certificate is a positive number; Cert gives the fields that the code *)
(* looks at.  The order of the numbers is that of the encodings, by which  *)
(* trust bundles are sorted.  A bundle's key is the name of a key, its     *)
(* passphrase "" when there is none.                                       *)
(***************************************************************************)
EXTENDS Naturals, Sequences, FiniteSets, SequencesExt

CONSTANTS
    Cert,        \* [certificate -> [subject, issuer, key, by, ca, usage]]
    Passphrases  \* what a caller may supply, "" for nothing

Certs == DOMAIN Cert

ASSUME ChainConstants ==
    /\ Certs \subseteq Nat \ {0}
    /\ \A c \in Certs : /\ Cert[c].ca \in BOOLEAN
                        /\ Cert[c].usage \in {"sign", "none", "other"}
                        /\ Cert[c].key # ""
    /\ "" \in Passphrases

NoBundle == [certs |-> <<>>, leaf |-> 0, intermediates |-> <<>>, root |-> 0,
             key |-> "", pass |-> ""]

Refused == [ok |-> FALSE, bundle |-> NoBundle]
Accepted(b) == [ok |-> TRUE, bundle |-> b]

-----------------------------------------------------------------------------
\* Chains

\* External: x509.Certificate.CheckSignatureFrom checks the signature and that
\* the parent is a CA whose key usage, where it states one, allows signing.
CheckSignatureFrom(child, parent) ==
    /\ Cert[child].by = Cert[parent].key
    /\ Cert[parent].ca
    /\ Cert[parent].usage # "other"

SelfSigned(c) ==
    Cert[c].subject = Cert[c].issuer /\ Cert[c].ca /\ CheckSignatureFrom(c, c)

Issued(parent, child) ==
    Cert[child].issuer = Cert[parent].subject /\ CheckSignatureFrom(child, parent)

CACapable(c) == Cert[c].ca /\ Cert[c].usage = "sign"

Issuers == [c \in Certs |-> IF SelfSigned(c) THEN {} ELSE {p \in Certs \ {c} : Issued(p, c)}]

Parents(c, S) == Issuers[c] \cap S
Children(p, S) == {c \in S : p \in Parents(c, S)}
Bottoms(S) == {c \in S : Children(c, S) = {}}

\* Mutant: CheckSignatureFrom is trusted to have looked at the issuer's usage.
LinkableUnchecked(S) ==
    /\ \A c \in S : Cardinality(Parents(c, S)) <= 1
    /\ \A p \in S : Cardinality(Children(p, S)) <= 1
    /\ Cardinality(Bottoms(S)) = 1

\* Every certificate has at most one issuer and one subject among the others,
\* issuers may issue, and one certificate has issued none.
Linkable(S) ==
    /\ \A c \in S : Cardinality(Parents(c, S)) <= 1
    /\ \A c \in S : \A p \in Parents(c, S) : CACapable(p)
    /\ \A p \in S : Cardinality(Children(p, S)) <= 1
    /\ Cardinality(Bottoms(S)) = 1

\* From the bottom up; 0 behind the topmost certificate.
Ordered(S) ==
    LET up[i \in 1..Cardinality(S)] ==
            IF i = 1 THEN CHOOSE c \in Bottoms(S) : TRUE
            ELSE IF up[i - 1] = 0 \/ Parents(up[i - 1], S) = {} THEN 0
            ELSE CHOOSE p \in Parents(up[i - 1], S) : TRUE
    IN up

\* The roles of an ordered chain.
Roles(ordered, key) ==
    LET top == Last(ordered)
        root == IF SelfSigned(top) THEN top ELSE 0
        leaf == IF Cert[ordered[1]].ca THEN 0 ELSE ordered[1]
        first == IF leaf = 0 THEN 1 ELSE 2
        end == IF root = 0 THEN Len(ordered) ELSE Len(ordered) - 1
    IN [certs |-> ordered, leaf |-> leaf, intermediates |-> SubSeq(ordered, first, end),
        root |-> root, key |-> key, pass |-> ""]

\* Mutant: only complete chains have their key compared.
KeyFitsComplete(b) ==
    (b.key # "" /\ b.leaf # 0 /\ b.root # 0) => b.key = Cert[b.leaf].key

KeyFits(b) == (b.key # "" /\ b.leaf # 0) => b.key = Cert[b.leaf].key

normalizeBundle(certs, key) ==
    LET S == ToSet(certs)
        b == Roles(Ordered(S), key)
    IN IF certs = <<>> THEN Accepted([NoBundle EXCEPT !.key = key])
       ELSE IF /\ IsInjective(certs)
               /\ Linkable(S)
               /\ \A i \in 1..Len(certs) : Ordered(S)[i] # 0
               /\ KeyFits(b)
            THEN Accepted(b)
            ELSE Refused

\* parseKeyPEM: an encrypted key needs its passphrase, a clear one none.
parseKeyPEM(file, pass) == file.pass = pass

-----------------------------------------------------------------------------
\* Trust bundles: self-signed CAs in canonical order

TrustRoot(c) == CACapable(c) /\ SelfSigned(c)

Canonical(certs) ==
    CHOOSE s \in SetToSeqs(ToSet(certs)) : \A i, j \in DOMAIN s : i < j => s[i] < s[j]

\* Mutant: certificates stay in the order in which they came.
normalizeTrustUnsorted(certs) ==
    IF /\ certs # <<>> /\ IsInjective(certs)
       /\ \A i \in DOMAIN certs : TrustRoot(certs[i])
    THEN [ok |-> TRUE, certs |-> certs]
    ELSE [ok |-> FALSE, certs |-> <<>>]

normalizeTrustCertificates(certs) ==
    IF /\ certs # <<>> /\ IsInjective(certs)
       /\ \A i \in DOMAIN certs : TrustRoot(certs[i])
    THEN [ok |-> TRUE, certs |-> Canonical(certs)]
    ELSE [ok |-> FALSE, certs |-> <<>>]
=============================================================================
