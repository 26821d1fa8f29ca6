------------------------------- MODULE Bundle -------------------------------
(***************************************************************************)
(* Certificate bundles and trust bundles of a program: loading them and    *)
(* adding certificates and a key (certs/bundle.go, trust_bundle.go).       *)
(* Zero is a PEM block that is no certificate.                             *)
(***************************************************************************)
EXTENDS CertChain

CONSTANTS
    KeyFiles,    \* the key files there are: [key, pass]
    MaxLoad,     \* bound: certificates given to a new bundle
    MaxAdd       \* bound: certificates added in one call

ASSUME BundleConstants ==
    /\ \A f \in KeyFiles : f.key # "" /\ f.pass \in Passphrases
    /\ MaxLoad \in Nat /\ MaxAdd \in Nat

VARIABLES
    input,   \* the PEM blocks of the next call
    bundle,  \* the program's certificate bundle
    given,   \* the passphrase that the bundle's key was protected with
    trust    \* the program's trust bundle, <<>> for none

bundleVars == <<input, bundle, given, trust>>

BundleInit ==
    /\ input = <<>>
    /\ bundle = NoBundle
    /\ given = ""
    /\ trust = <<>>

\* The caller puts another block into the input.
Offer(c) ==
    /\ Len(input) < IF bundle = NoBundle /\ trust = <<>> THEN MaxLoad ELSE MaxAdd
    /\ input' = Append(input, c)
    /\ UNCHANGED <<bundle, given, trust>>

parseCertificatesPEM(blocks) == blocks # <<>> /\ \A i \in DOMAIN blocks : blocks[i] # 0

\* LoadBundle and NewCertificateBundle with certificates and perhaps a key
\* object or a key file: no bundle on error.
LoadBundle(object, file, pass) ==
    LET r == normalizeBundle(input, object)
        withKey == normalizeBundle(input, file.key)
        ok == /\ input = <<>> \/ parseCertificatesPEM(input)
              /\ r.ok
              /\ file.key = "" => pass = ""
              /\ file.key # "" => object = "" /\ parseKeyPEM(file, pass) /\ withKey.ok
              /\ input # <<>> \/ object # "" \/ file.key # ""
    IN /\ bundle = NoBundle
       /\ input' = <<>>
       /\ bundle' = IF ~ok THEN NoBundle
                    ELSE IF file.key = "" THEN r.bundle
                    ELSE [withKey.bundle EXCEPT !.pass = file.pass]
       /\ given' = IF ok /\ file.key # "" THEN file.pass ELSE ""
       /\ UNCHANGED trust

\* Mutant: the passphrase is not carried over to the grown bundle.
AddCertForgetful ==
    LET r == normalizeBundle(bundle.certs \o input, bundle.key)
    IN /\ input' = <<>>
       /\ bundle' = IF parseCertificatesPEM(input) /\ r.ok THEN r.bundle ELSE bundle
       /\ UNCHANGED <<given, trust>>

\* AddCert, AddCertPEM and AddCertPath: the old bundle on error.
AddCert ==
    LET r == normalizeBundle(bundle.certs \o input, bundle.key)
    IN /\ input' = <<>>
       /\ bundle' = IF parseCertificatesPEM(input) /\ r.ok
                    THEN [r.bundle EXCEPT !.pass = bundle.pass] ELSE bundle
       /\ UNCHANGED <<given, trust>>

\* Mutant: a later key replaces the one that the bundle has.
AddKeyAgain(file, pass) ==
    LET r == normalizeBundle(bundle.certs, file.key)
        ok == parseKeyPEM(file, pass) /\ r.ok
    IN /\ bundle' = IF ok THEN [r.bundle EXCEPT !.pass = file.pass] ELSE bundle
       /\ given' = IF ok THEN file.pass ELSE given
       /\ UNCHANGED <<input, trust>>

\* AddKeyPEM and AddKey: a bundle has one key.
AddKey(file, pass) ==
    LET r == normalizeBundle(bundle.certs, file.key)
        ok == bundle.key = "" /\ parseKeyPEM(file, pass) /\ r.ok
    IN /\ bundle' = IF ok THEN [r.bundle EXCEPT !.pass = file.pass] ELSE bundle
       /\ given' = IF ok THEN file.pass ELSE given
       /\ UNCHANGED <<input, trust>>

\* Mutant: what was added stays although the new set is refused.
AddTrustAnyway ==
    /\ input' = <<>>
    /\ trust' = trust \o input
    /\ UNCHANGED <<bundle, given>>

\* NewTrustBundle; TrustBundle.AddCert, AddCertPEM and AddCertPath return no
\* bundle when the new set is refused, and the caller keeps the old one.
AddTrust ==
    LET r == normalizeTrustCertificates(trust \o input)
    IN /\ input' = <<>>
       /\ trust' = IF parseCertificatesPEM(input) /\ r.ok THEN r.certs ELSE trust
       /\ UNCHANGED <<bundle, given>>

NoFile == [key |-> "", pass |-> ""]
Objects == {""} \cup {f.key : f \in KeyFiles}

BundleNext ==
    \/ \E c \in Certs \cup {0} : Offer(c)
    \/ \E object \in Objects, file \in KeyFiles \cup {NoFile}, pass \in Passphrases :
           LoadBundle(object, file, pass)
    \/ AddCert
    \/ \E file \in KeyFiles, pass \in Passphrases : AddKey(file, pass)
    \/ AddTrust

BundleSpec == BundleInit /\ [][BundleNext]_bundleVars

-----------------------------------------------------------------------------
\* Properties

\* Bundles and inputs are made of certificates and keys.
BundleTypeOK ==
    /\ input \in Seq(Certs \cup {0})
    /\ ToSet(bundle.certs) \subseteq Certs
    /\ {bundle.leaf, bundle.root} \subseteq ToSet(bundle.certs) \cup {0}
    /\ bundle.pass \in Passphrases
    /\ given \in Passphrases
    /\ ToSet(trust) \subseteq Certs

\* A set of certificates in one line: there is an order in which the issuing
\* relation is exactly "the next one issued it".
OneLine(S) ==
    /\ \E p \in SetToSeqs(S) :
          /\ {e \in S \X S : e[1] # e[2] /\ ~SelfSigned(e[1]) /\ Issued(e[2], e[1])}
                = {<<p[i], p[i + 1]>> : i \in 1..Cardinality(S) - 1}
    /\ \A c, p \in S : (c # p /\ ~SelfSigned(c) /\ Issued(p, c)) => CACapable(p)

\* Certificates are accepted exactly when they form one line, in whatever order
\* they come: cross-signed, renewed, branching and foreign ones are refused.
AcceptsOneLine ==
    parseCertificatesPEM(input) =>
        (normalizeBundle(input, "").ok <=> IsInjective(input) /\ OneLine(ToSet(input)))

\* Whatever the order in which certificates and key were added, a key beside a
\* leaf is the leaf's, the chain goes up from the leaf, and what TLSCertificate
\* returns (leaf and intermediates) and the root make up the whole bundle.
BundleFits ==
    /\ bundle.leaf # 0 /\ bundle.key # "" => Cert[bundle.leaf].key = bundle.key
    /\ \A i \in 1..Len(bundle.certs) - 1 : Issued(bundle.certs[i + 1], bundle.certs[i])
    /\ bundle.certs = (IF bundle.leaf = 0 THEN <<>> ELSE <<bundle.leaf>>)
                        \o bundle.intermediates
                        \o (IF bundle.root = 0 THEN <<>> ELSE <<bundle.root>>)

\* A key that came encrypted is kept with its passphrase through every later
\* growth of the bundle, so that SaveKey encrypts it again.
EncryptionKept == bundle.pass = given

\* Trust bundles of the same roots are equal, and so are their digests,
\* whatever the order in which the roots were added.
TrustCanonical ==
    /\ \A i, j \in 1..Len(trust) : i < j => trust[i] < trust[j]
    /\ \A c \in ToSet(trust) : SelfSigned(c)

\* A refused certificate or key leaves the bundle as it was: certificates are
\* never lost, and a key is never exchanged.
OnlyGrows ==
    [][bundle # NoBundle =>
         /\ ToSet(bundle.certs) \subseteq ToSet(bundle'.certs)
         /\ bundle.key # "" => bundle'.key = bundle.key]_bundleVars
=============================================================================
