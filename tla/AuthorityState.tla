--------------------------- MODULE AuthorityState ---------------------------
(***************************************************************************)
(* The persisted authority record of the certs package (store.go,          *)
(* authorityState) and the pure functions the managers apply to it inside  *)
(* store.update: provisioning, staging, promotion, discard and pruning,    *)
(* the checks of validate.go and the trust bundle of trust.go.             *)
(*                                                                         *)
(* Certificates and keys are abstracted to the number (kid) of the         *)
(* key-generating operation that made them; 0 stands for "no record" (a    *)
(* nil map entry).  A signature by a key is the kid of that key; an        *)
(* encrypted root key can be opened only with the secret of the same kid.  *)
(* Instants are natural numbers, and NotAfter is the last valid instant.   *)
(***************************************************************************)
EXTENDS Integers

CONSTANTS
    Slugs,                \* issuer slugs an authority may have
    MaxGeneration,        \* bound: root generations
    MaxVersion,           \* bound: versions of one issuer
    ClockSkew,            \* clockSkew
    MaximumLeafValidity,  \* maximumLeafValidity
    RootValidity,         \* authoritySpec.RootValidity
    IssuerValidity,       \* IssuerDefinition.Validity
    IssuanceModes         \* issuance modes an authority may be provisioned with

ASSUME StateConstants ==
    /\ MaxGeneration \in Nat \ {0}
    /\ MaxVersion \in Nat \ {0}
    /\ ClockSkew \in Nat
    /\ MaximumLeafValidity \in Nat
    /\ RootValidity \in Nat
    /\ IssuerValidity \in Nat
    /\ IssuanceModes \subseteq {"None", "Ledger"}

\* A new root always has room for its issuers: otherwise provision itself
\* fails in makeIssuer and no authority with issuers ever exists.
ASSUME IssuerFitsNewRoot == IssuerValidity + ClockSkew <= RootValidity

Gens == 1..MaxGeneration
Versions == 1..MaxVersion

-----------------------------------------------------------------------------
\* Records (store.go)

rootRecord == [kid: Nat, key: BOOLEAN, notAfter: Nat, until: Nat]
issuerVersion == [kid: Nat, parent: Nat, root: 0..MaxGeneration,
                  key: BOOLEAN, notAfter: Nat]
issuerRecord == [active: 0..MaxVersion, versions: [Versions -> issuerVersion]]
pendingManifest == [kind: {"none", "root", "issuer"}, root: 0..MaxGeneration,
                    expected: Nat, issuers: [Slugs -> 0..MaxVersion]]
authorityState == [id: Nat, mode: {"None", "Ledger"}, revision: Nat,
                   activeRoot: 0..MaxGeneration,
                   roots: [Gens -> rootRecord],
                   issuers: [Slugs -> issuerRecord],
                   pending: pendingManifest]
LedgerRecord == [rev: Nat, slug: Slugs, version: Versions, serial: Nat,
                 exp: Nat, signer: Nat]

NoRoot == [kid |-> 0, key |-> FALSE, notAfter |-> 0, until |-> 0]
NoVersion == [kid |-> 0, parent |-> 0, root |-> 0, key |-> FALSE, notAfter |-> 0]
NoIssuer == [active |-> 0, versions |-> [v \in Versions |-> NoVersion]]
NoPending == [kind |-> "none", root |-> 0, expected |-> 0,
              issuers |-> [slug \in Slugs |-> 0]]
NoAuthority == [id |-> 0, mode |-> "None", revision |-> 0, activeRoot |-> 0,
                roots |-> [g \in Gens |-> NoRoot],
                issuers |-> [slug \in Slugs |-> NoIssuer],
                pending |-> NoPending]

Provisioned(s) == s.id # 0
Known(s) == {slug \in Slugs : s.issuers[slug].active # 0}
ActiveVersion(s, slug) == s.issuers[slug].versions[s.issuers[slug].active]
PendingRoot(s) == s.pending.kind = "root"

-----------------------------------------------------------------------------
\* Key material (authority.go, makeRoot and makeIssuer)

\* Mutant: the validity is subtracted from the clock.
makeRootBackdated(k, now) ==
    [kid |-> k, key |-> TRUE, notAfter |-> now - RootValidity, until |-> 0]

makeRoot(k, now) ==
    [kid |-> k, key |-> TRUE, notAfter |-> now + RootValidity, until |-> 0]

makeIssuer(g, root, k, now) ==
    [kid |-> k, parent |-> root.kid, root |-> g, key |-> TRUE,
     notAfter |-> now + IssuerValidity]

\* makeIssuer refuses an issuer that would outlive its root less the skew.
IssuerFits(root, now) == now + IssuerValidity <= root.notAfter - ClockSkew

FirstVersion(g, root, k, now) ==
    [active |-> 1,
     versions |-> [NoIssuer.versions EXCEPT ![1] = makeIssuer(g, root, k, now)]]

-----------------------------------------------------------------------------
\* What Ensure does to the record.  store.update adds one to the revision.

Bump(s) == [s EXCEPT !.revision = @ + 1]

provision(k, now, configured, mode) ==
    LET root == makeRoot(k, now) IN
    [NoAuthority EXCEPT
        !.id = k,
        !.mode = mode,
        !.activeRoot = 1,
        !.roots[1] = root,
        !.issuers = [slug \in Slugs |-> IF slug \in configured
                                        THEN FirstVersion(1, root, k, now)
                                        ELSE NoIssuer]]

addIssuers(s, configured, k, now) ==
    [s EXCEPT !.issuers =
        [slug \in Slugs |->
            IF slug \in configured \ Known(s)
            THEN FirstVersion(s.activeRoot, s.roots[s.activeRoot], k, now)
            ELSE s.issuers[slug]]]

\* "before" is 0 only when the caller asked for an immediate rotation.
rootDue(s, before, now) ==
    before = 0 \/ s.roots[s.activeRoot].notAfter <= now + before

issuersDue(s, before, now) ==
    {slug \in Known(s) :
        before[slug] = 0 \/ ActiveVersion(s, slug).notAfter <= now + before[slug]}

\* The first free generation above the active one, if the bound leaves one.
FreeGeneration(s, g) ==
    /\ g > s.activeRoot
    /\ s.roots[g].kid = 0
    /\ \A h \in Gens : s.activeRoot < h /\ h < g => s.roots[h].kid # 0

\* Bound: every issuer in the set still has a version number to use.
VersionsLeft(s, slugs) == \A slug \in slugs : s.issuers[slug].active < MaxVersion

stageVersions(s, slugs, g, root, k, now) ==
    [slug \in Slugs |->
        IF slug \in slugs
        THEN [s.issuers[slug] EXCEPT !.versions =
                [v \in Versions |-> IF v = s.issuers[slug].active + 1
                                    THEN makeIssuer(g, root, k, now)
                                    ELSE s.issuers[slug].versions[v]]]
        ELSE s.issuers[slug]]

stagedManifest(s, kind, g, slugs) ==
    [kind |-> kind, root |-> g, expected |-> s.revision,
     issuers |-> [slug \in Slugs |-> IF slug \in slugs
                                     THEN s.issuers[slug].active + 1
                                     ELSE 0]]

prepareRoot(s, g, k, now) ==
    LET root == makeRoot(k, now) IN
    [s EXCEPT !.roots[g] = root,
              !.issuers = stageVersions(s, Known(s), g, root, k, now),
              !.pending = stagedManifest(s, "root", g, Known(s))]

prepareIssuers(s, due, k, now) ==
    [s EXCEPT !.issuers = stageVersions(s, due, s.activeRoot,
                                        s.roots[s.activeRoot], k, now),
              !.pending = stagedManifest(s, "issuer", 0, due)]

-----------------------------------------------------------------------------
\* What PromotePending, DiscardPending and PruneRoot do to the record
\* (authority_operations.go)

\* Mutant: promotion leaves the private key of the replaced issuer version.
promoteKeepsIssuerKey(s, deadline) ==
    LET p == s.pending
        retired == [s.roots EXCEPT ![s.activeRoot].key = FALSE,
                                   ![s.activeRoot].until = deadline]
    IN [s EXCEPT
          !.activeRoot = IF PendingRoot(s) THEN p.root ELSE @,
          !.roots = IF PendingRoot(s) THEN retired ELSE @,
          !.issuers = [slug \in Slugs |->
                         IF p.issuers[slug] = 0 THEN s.issuers[slug]
                         ELSE [s.issuers[slug] EXCEPT !.active = p.issuers[slug]]],
          !.pending = NoPending]

promote(s, deadline) ==
    LET p == s.pending
        retired == [s.roots EXCEPT ![s.activeRoot].key = FALSE,
                                   ![s.activeRoot].until = deadline]
    IN [s EXCEPT
          !.activeRoot = IF PendingRoot(s) THEN p.root ELSE @,
          !.roots = IF PendingRoot(s) THEN retired ELSE @,
          !.issuers =
            [slug \in Slugs |->
                IF p.issuers[slug] = 0 THEN s.issuers[slug]
                ELSE [active |-> p.issuers[slug],
                      versions |-> [s.issuers[slug].versions EXCEPT
                                      ![s.issuers[slug].active].key = FALSE]]],
          !.pending = NoPending]

discard(s) ==
    LET p == s.pending
    IN [s EXCEPT
          !.roots = [g \in Gens |-> IF PendingRoot(s) /\ g = p.root THEN NoRoot
                                    ELSE s.roots[g]],
          !.issuers =
            [slug \in Slugs |->
                [s.issuers[slug] EXCEPT !.versions =
                    [v \in Versions |-> IF v = p.issuers[slug] THEN NoVersion
                                        ELSE s.issuers[slug].versions[v]]]],
          !.pending = NoPending]

Prunable(s, g, now) ==
    /\ g # s.activeRoot
    /\ g # s.pending.root
    /\ s.roots[g].kid # 0
    /\ s.roots[g].until <= now

prune(s, g) == [s EXCEPT !.roots[g].until = 0]

-----------------------------------------------------------------------------
\* The ledger and its checks (validate.go, authority_operations.go)

\* Mutant: the deadline does not grant the clock skew.
ledgerInstantsWithoutSkew(s, records, g) ==
    {r.exp : r \in {x \in records :
        /\ s.issuers[x.slug].active # 0
        /\ s.issuers[x.slug].versions[x.version].kid # 0
        /\ s.issuers[x.slug].versions[x.version].root = g}}

\* The instants ledgerTrustDeadline takes the latest of: one per record whose
\* issuer version was signed by the given root generation.
ledgerInstants(s, records, g) ==
    {r.exp + ClockSkew : r \in {x \in records :
        /\ s.issuers[x.slug].active # 0
        /\ s.issuers[x.slug].versions[x.version].kid # 0
        /\ s.issuers[x.slug].versions[x.version].root = g}}

\* d is the deadline PromotePending gives to the root it retires.
IsTrustDeadline(s, records, now, d) ==
    IF s.mode = "None" THEN d = now + MaximumLeafValidity + ClockSkew
    ELSE LET instants == ledgerInstants(s, records, s.activeRoot)
         IN \/ /\ instants = {}
               /\ d = now
            \/ /\ d \in instants
               /\ \A e \in instants : e <= d

\* Mutant: only the issuer version is compared, not the revision it was read at.
validateLedgerAuthoritySkipped(s, r) == s.issuers[r.slug].active # 0

validateLedgerAuthority(s, r) ==
    /\ s.revision = r.rev
    /\ s.issuers[r.slug].active = r.version

validateLedgerRecords(s, records) ==
    \A r \in records :
        /\ r.rev <= s.revision
        /\ s.issuers[r.slug].active # 0
        /\ s.issuers[r.slug].versions[r.version].kid # 0
        /\ s.issuers[r.slug].versions[r.version].kid = r.signer

\* Mutant: a staged root is not published before it is promoted.
buildTrustBundleWithoutPending(s, now) ==
    {g \in Gens : s.roots[g].kid # 0 /\ (g = s.activeRoot \/ s.roots[g].until > now)}

\* Root generations whose certificate buildTrustBundle puts into the bundle.
buildTrustBundle(s, now) ==
    {g \in Gens :
        /\ s.roots[g].kid # 0
        /\ g = s.activeRoot \/ g = s.pending.root \/ s.roots[g].until > now}

-----------------------------------------------------------------------------
\* validateState (validate.go), as a conjunction of named parts.

RootKeysExact(s) ==
    /\ s.activeRoot # 0
    /\ s.roots[s.activeRoot].kid # 0
    /\ \A g \in Gens : s.roots[g].kid # 0 =>
          (s.roots[g].key <=> g = s.activeRoot \/ (PendingRoot(s) /\ g = s.pending.root))

IssuerKeysExact(s) ==
    \A slug \in Known(s) : \A v \in Versions :
        s.issuers[slug].versions[v].kid # 0 =>
            (s.issuers[slug].versions[v].key <=>
                v = s.issuers[slug].active \/ v = s.pending.issuers[slug])

IssuersSigned(s) ==
    \A slug \in Known(s) : \A v \in Versions :
        LET version == s.issuers[slug].versions[v] IN
        version.kid # 0 =>
            /\ version.root # 0
            /\ s.roots[version.root].kid # 0
            /\ version.parent = s.roots[version.root].kid
            /\ version.notAfter <= s.roots[version.root].notAfter - ClockSkew

ActiveUnderActive(s) ==
    \A slug \in Known(s) :
        /\ ActiveVersion(s, slug).kid # 0
        /\ ActiveVersion(s, slug).root = s.activeRoot

PendingComplete(s) ==
    s.pending.kind # "none" =>
        /\ s.pending.expected <= s.revision
        /\ PendingRoot(s) =>
              /\ s.pending.root # 0
              /\ s.roots[s.pending.root].kid # 0
              /\ \A slug \in Known(s) : s.pending.issuers[slug] # 0
        /\ \A slug \in Slugs : s.pending.issuers[slug] # 0 =>
              /\ slug \in Known(s)
              /\ s.issuers[slug].versions[s.pending.issuers[slug]].kid # 0

validateState(s) ==
    /\ RootKeysExact(s)
    /\ IssuerKeysExact(s)
    /\ IssuersSigned(s)
    /\ ActiveUnderActive(s)
    /\ PendingComplete(s)
=============================================================================
