--------------------------- MODULE AuthorityProofs --------------------------
(***************************************************************************)
(* Proofs about Authority: every state the managers persist is well typed  *)
(* and passes validateState, for any number of managers, issuers,          *)
(* generations and versions, with failed writes and restarts anywhere.     *)
(*                                                                         *)
(* The second part is about what an update of the record keeps: its        *)
(* identity, the issuer versions that were used, the roots callers trust   *)
(* and their deadlines.  Every step of the managers is shown to leave the  *)
(* record alone, to purge it, to provision it or to update it in this      *)
(* sense.  From that follows PublishedBeforeActive here, and in            *)
(* IssuanceProofs the properties of the leaves that are already in the     *)
(* field.  The third part is about the unlock secrets.                     *)
(***************************************************************************)
EXTENDS Authority, TLAPS

(***************************************************************************)
(* validateState is not inductive.  What it leaves open, and promotion and *)
(* discard rely on: a pending manifest names new material only (never the  *)
(* active root or an active version), its versions are signed by the root  *)
(* they will be activated under, and nothing else is signed by a pending   *)
(* root; without a pending operation the manifest is empty.                *)
(***************************************************************************)
PendingIsNew(s) ==
    /\ PendingRoot(s) => s.pending.root # 0 /\ s.pending.root # s.activeRoot
    /\ ~PendingRoot(s) => s.pending.root = 0
    /\ s.pending.kind = "none" => \A slug \in Slugs : s.pending.issuers[slug] = 0
    /\ \A slug \in Slugs : s.pending.issuers[slug] # 0 =>
          /\ s.issuers[slug].active # 0
          /\ s.pending.issuers[slug] # s.issuers[slug].active
          /\ s.issuers[slug].versions[s.pending.issuers[slug]].kid # 0
          /\ s.issuers[slug].versions[s.pending.issuers[slug]].root
                = IF PendingRoot(s) THEN s.pending.root ELSE s.activeRoot

PendingRootUnused(s) ==
    PendingRoot(s) =>
        \A slug \in Slugs : \A v \in Versions :
            /\ s.issuers[slug].active # 0
            /\ s.issuers[slug].versions[v].kid # 0
            /\ s.issuers[slug].versions[v].root = s.pending.root
            => v = s.pending.issuers[slug]

Consistent(s) == validateState(s) /\ PendingIsNew(s) /\ PendingRootUnused(s)

StoreInv == Provisioned(store) => Consistent(store)

-----------------------------------------------------------------------------
(***************************************************************************)
(* The operators on the record: types.                                     *)
(***************************************************************************)

\* The empty store is a well-typed record.
LEMMA NoAuthorityType == NoAuthority \in authorityState
  BY StateConstants DEF NoAuthority, NoRoot, NoIssuer, NoVersion, NoPending, authorityState, rootRecord,
     issuerRecord, issuerVersion, pendingManifest, Gens, Versions

\* makeRoot and makeIssuer return well-typed records.
LEMMA MaterialType ==
  ASSUME NEW k \in Nat, NEW t \in Nat
  PROVE  /\ makeRoot(k, t) \in rootRecord
         /\ \A g \in Gens : \A root \in rootRecord :
               /\ makeIssuer(g, root, k, t) \in issuerVersion
               /\ FirstVersion(g, root, k, t) \in issuerRecord
<1>1. makeRoot(k, t) \in rootRecord
  BY StateConstants DEF makeRoot, rootRecord
<1>2. ASSUME NEW g \in Gens, NEW root \in rootRecord
      PROVE  makeIssuer(g, root, k, t) \in issuerVersion
  BY <1>2, StateConstants DEF makeIssuer, issuerVersion, rootRecord, Gens
<1>3. ASSUME NEW g \in Gens, NEW root \in rootRecord
      PROVE  FirstVersion(g, root, k, t) \in issuerRecord
  <2>1. NoIssuer \in issuerRecord
    BY StateConstants DEF NoIssuer, NoVersion, issuerRecord, issuerVersion
  <2> QED BY <2>1, <1>2, StateConstants DEF FirstVersion, issuerRecord, Versions
<1> QED BY <1>1, <1>2, <1>3

\* Every mutation that store.update applies keeps the record well typed.
LEMMA ProvisionType ==
  ASSUME NEW k \in Nat, NEW t \in Nat, NEW configured \in SUBSET Slugs,
         NEW mode \in IssuanceModes
  PROVE  provision(k, t, configured, mode) \in authorityState
<1>1. 1 \in Gens
  BY StateConstants DEF Gens
<1>2. NoIssuer \in issuerRecord
  BY StateConstants DEF NoIssuer, NoVersion, issuerRecord, issuerVersion
<1>3. makeRoot(k, t) \in rootRecord
  BY MaterialType
<1>4. FirstVersion(1, makeRoot(k, t), k, t) \in issuerRecord
  BY <1>1, <1>3, MaterialType
<1>5. [NoAuthority.roots EXCEPT ![1] = makeRoot(k, t)] \in [Gens -> rootRecord]
  BY <1>3, NoAuthorityType DEF authorityState
<1> DEFINE issuers == [slug \in Slugs |-> IF slug \in configured
                                          THEN FirstVersion(1, makeRoot(k, t), k, t)
                                          ELSE NoIssuer]
           roots == [NoAuthority.roots EXCEPT ![1] = makeRoot(k, t)]
<1>6. issuers \in [Slugs -> issuerRecord]
  BY <1>2, <1>4
<1>7. provision(k, t, configured, mode)
        = [NoAuthority EXCEPT !.id = k, !.mode = mode, !.activeRoot = 1, !.roots = roots,
                              !.issuers = issuers]
  BY DEF provision, NoAuthority
<1> HIDE DEF issuers, roots
<1>8. roots \in [Gens -> rootRecord]
  BY <1>5 DEF roots
<1>9. 1 \in 0..MaxGeneration /\ mode \in {"None", "Ledger"}
  BY StateConstants
<1> QED BY <1>6, <1>7, <1>8, <1>9, NoAuthorityType DEF authorityState

LEMMA BumpType ==
  ASSUME NEW s \in authorityState PROVE Bump(s) \in authorityState
  BY DEF Bump, authorityState

LEMMA AddIssuersType ==
  ASSUME NEW s \in authorityState, s.activeRoot # 0, NEW k \in Nat, NEW t \in Nat,
         NEW configured \in SUBSET Slugs
  PROVE  addIssuers(s, configured, k, t) \in authorityState
<1>1. s.activeRoot \in Gens /\ s.roots[s.activeRoot] \in rootRecord
  BY StateConstants DEF authorityState, Gens
<1>2. FirstVersion(s.activeRoot, s.roots[s.activeRoot], k, t) \in issuerRecord
  BY <1>1, MaterialType
<1> QED BY <1>2 DEF addIssuers, authorityState

LEMMA StageVersionsType ==
  ASSUME NEW s \in authorityState, NEW slugs \in SUBSET Slugs, NEW g \in Gens,
         NEW root \in rootRecord, NEW k \in Nat, NEW t \in Nat
  PROVE  stageVersions(s, slugs, g, root, k, t) \in [Slugs -> issuerRecord]
  BY ZenonT(30), MaterialType DEF stageVersions, authorityState, issuerRecord

LEMMA StagedManifestType ==
  ASSUME NEW s \in authorityState, NEW slugs \in SUBSET Slugs, VersionsLeft(s, slugs),
         NEW g \in 0..MaxGeneration, NEW kind \in {"root", "issuer"}
  PROVE  stagedManifest(s, kind, g, slugs) \in pendingManifest
  BY StateConstants
     DEF stagedManifest, pendingManifest, authorityState, issuerRecord, VersionsLeft

LEMMA PrepareRootType ==
  ASSUME NEW s \in authorityState, NEW g \in Gens, NEW k \in Nat, NEW t \in Nat,
         VersionsLeft(s, Known(s))
  PROVE  prepareRoot(s, g, k, t) \in authorityState
<1>1. makeRoot(k, t) \in rootRecord
  BY MaterialType
<1>2. Known(s) \in SUBSET Slugs
  BY DEF Known
<1>3. stageVersions(s, Known(s), g, makeRoot(k, t), k, t) \in [Slugs -> issuerRecord]
  BY <1>1, <1>2, StageVersionsType
<1>4. stagedManifest(s, "root", g, Known(s)) \in pendingManifest
  BY <1>2, StagedManifestType DEF Gens
<1> QED BY <1>1, <1>3, <1>4 DEF prepareRoot, authorityState

LEMMA PrepareIssuersType ==
  ASSUME NEW s \in authorityState, NEW due \in SUBSET Slugs, NEW k \in Nat, NEW t \in Nat,
         VersionsLeft(s, due), s.activeRoot # 0
  PROVE  prepareIssuers(s, due, k, t) \in authorityState
<1>1. s.activeRoot \in Gens /\ s.roots[s.activeRoot] \in rootRecord
  BY StateConstants DEF authorityState, Gens
<1>2. stageVersions(s, due, s.activeRoot, s.roots[s.activeRoot], k, t) \in [Slugs -> issuerRecord]
  BY <1>1, StageVersionsType
<1>3. stagedManifest(s, "issuer", 0, due) \in pendingManifest
  BY StagedManifestType, StateConstants
<1> QED BY <1>2, <1>3 DEF prepareIssuers, authorityState

LEMMA NoPendingType == NoPending \in pendingManifest
  BY StateConstants DEF NoPending, pendingManifest

LEMMA PromoteType ==
  ASSUME NEW s \in authorityState, NEW d \in Nat
  PROVE  promote(s, d) \in authorityState
<1> DEFINE retired == [s.roots EXCEPT ![s.activeRoot].key = FALSE,
                                      ![s.activeRoot].until = d]
<1>1. retired \in [Gens -> rootRecord]
  BY ZenonT(30) DEF authorityState, rootRecord
<1> DEFINE promoted(slug) == [active |-> s.pending.issuers[slug],
                   versions |-> [s.issuers[slug].versions EXCEPT
                                   ![s.issuers[slug].active].key = FALSE]]
<1>2. ASSUME NEW slug \in Slugs PROVE promoted(slug) \in issuerRecord
  <2>1. /\ s.issuers[slug].versions \in [Versions -> issuerVersion]
        /\ s.pending.issuers[slug] \in 0..MaxVersion
    BY DEF authorityState, issuerRecord, pendingManifest
  <2>2. [s.issuers[slug].versions EXCEPT ![s.issuers[slug].active].key = FALSE]
           \in [Versions -> issuerVersion]
    BY <2>1 DEF issuerVersion
  <2> QED BY <2>1, <2>2 DEF issuerRecord
<1> QED BY <1>1, <1>2, NoPendingType DEF promote, authorityState, pendingManifest

LEMMA DiscardType ==
  ASSUME NEW s \in authorityState PROVE discard(s) \in authorityState
<1>1. NoRoot \in rootRecord /\ NoVersion \in issuerVersion
  BY StateConstants DEF NoRoot, NoVersion, rootRecord, issuerVersion
<1> DEFINE roots == [g \in Gens |-> IF PendingRoot(s) /\ g = s.pending.root THEN NoRoot
                                    ELSE s.roots[g]]
           issuers == [slug \in Slugs |->
                [s.issuers[slug] EXCEPT !.versions =
                    [v \in Versions |-> IF v = s.pending.issuers[slug] THEN NoVersion
                                        ELSE s.issuers[slug].versions[v]]]]
<1>2. roots \in [Gens -> rootRecord]
  BY <1>1 DEF authorityState
<1>3. issuers \in [Slugs -> issuerRecord]
  BY <1>1 DEF authorityState, issuerRecord
<1>4. discard(s) = [s EXCEPT !.roots = roots, !.issuers = issuers, !.pending = NoPending]
  BY DEF discard
<1> HIDE DEF roots, issuers
<1> QED BY <1>2, <1>3, <1>4, NoPendingType DEF authorityState

LEMMA PruneType ==
  ASSUME NEW s \in authorityState, NEW g \in Gens PROVE prune(s, g) \in authorityState
  BY SMTT(30) DEF prune, authorityState, rootRecord

-----------------------------------------------------------------------------
(***************************************************************************)
(* The operators on the record: consistency.                               *)
(***************************************************************************)

USE DEF Provisioned

\* The types of the parts of a record.
LEMMA FieldTypes ==
  ASSUME NEW s \in authorityState, NEW slug \in Slugs
  PROVE  /\ s.issuers[slug].active \in 0..MaxVersion
         /\ s.issuers[slug].versions \in [Versions -> issuerVersion]
         /\ \A v \in Versions : s.issuers[slug].versions[v] \in issuerVersion
         /\ s.pending.issuers[slug] \in 0..MaxVersion
<1>1. s.issuers[slug] \in issuerRecord /\ s.pending \in pendingManifest
  BY DEF authorityState
<1> QED BY <1>1 DEF issuerRecord, pendingManifest

LEMMA ConsistentParts ==
  ASSUME NEW s, Consistent(s)
  PROVE  /\ RootKeysExact(s) /\ IssuerKeysExact(s) /\ IssuersSigned(s)
         /\ ActiveUnderActive(s) /\ PendingComplete(s)
         /\ PendingIsNew(s) /\ PendingRootUnused(s)
  BY Zenon DEF Consistent, validateState

\* The root that signed a version is on record.
LEMMA SignedByRoot ==
  ASSUME NEW s, Consistent(s), NEW slug \in Known(s), NEW v \in Versions,
         s.issuers[slug].versions[v].kid # 0
  PROVE  LET version == s.issuers[slug].versions[v] IN
         /\ version.root # 0
         /\ s.roots[version.root].kid # 0
         /\ version.parent = s.roots[version.root].kid
         /\ version.notAfter <= s.roots[version.root].notAfter - ClockSkew
  BY ConsistentParts, Zenon DEF IssuersSigned

\* A higher revision keeps a consistent record consistent.
LEMMA BumpConsistent ==
  ASSUME NEW s \in authorityState, Consistent(s)
  PROVE  Consistent(Bump(s))
<1> DEFINE t == Bump(s)
<1>1. /\ t.activeRoot = s.activeRoot /\ t.roots = s.roots /\ t.issuers = s.issuers
      /\ t.pending = s.pending /\ t.revision = s.revision + 1
  BY DEF Bump, authorityState
<1>2. s.revision \in Nat /\ s.pending.expected \in Nat
  BY DEF authorityState, pendingManifest
<1> HIDE DEF t
<1>3. Known(t) = Known(s) /\ \A slug : ActiveVersion(t, slug) = ActiveVersion(s, slug)
  BY <1>1 DEF Known, ActiveVersion
<1>4. RootKeysExact(t) /\ IssuerKeysExact(t) /\ IssuersSigned(t) /\ ActiveUnderActive(t)
  <2>1. RootKeysExact(t)
    BY <1>1 DEF Consistent, validateState, RootKeysExact, PendingRoot
  <2>2. IssuerKeysExact(t)
    BY <1>1, <1>3 DEF Consistent, validateState, IssuerKeysExact
  <2>3. IssuersSigned(t)
    <3> SUFFICES ASSUME NEW slug \in Known(s), NEW v \in Versions,
                        s.issuers[slug].versions[v].kid # 0
                 PROVE  LET version == s.issuers[slug].versions[v] IN
                        /\ version.root # 0
                        /\ s.roots[version.root].kid # 0
                        /\ version.parent = s.roots[version.root].kid
                        /\ version.notAfter <= s.roots[version.root].notAfter - ClockSkew
      BY <1>1, <1>3, Zenon DEF IssuersSigned
    <3> QED BY SignedByRoot, Zenon
  <2>4. ActiveUnderActive(t)
    BY <1>1, <1>3 DEF Consistent, validateState, ActiveUnderActive
  <2> QED BY <2>1, <2>2, <2>3, <2>4
<1>5. PendingComplete(t)
  BY <1>1, <1>2, <1>3 DEF Consistent, validateState, PendingComplete, PendingRoot
<1>6. PendingIsNew(t) /\ PendingRootUnused(t)
  <2>1. PendingIsNew(t)
    BY <1>1 DEF Consistent, PendingIsNew, PendingRoot
  <2>2. PendingRootUnused(t)
    BY <1>1 DEF Consistent, PendingRootUnused, PendingRoot
  <2> QED BY <2>1, <2>2
<1> QED BY <1>4, <1>5, <1>6 DEF Consistent, validateState, t

\* What FirstVersion holds, entry by entry.
LEMMA FirstVersionFields ==
  ASSUME NEW g \in Gens, NEW root \in rootRecord, NEW k \in Nat, NEW n \in Nat
  PROVE  /\ FirstVersion(g, root, k, n).active = 1
         /\ 1 \in Versions
         /\ FirstVersion(g, root, k, n).versions[1] = makeIssuer(g, root, k, n)
         /\ \A v \in Versions \ {1} : FirstVersion(g, root, k, n).versions[v].kid = 0
  BY StateConstants DEF FirstVersion, NoIssuer, NoVersion, Versions

\* A freshly provisioned authority is consistent.
LEMMA ProvisionConsistent ==
  ASSUME NEW k \in Nat \ {0}, NEW n \in Nat, NEW configured \in SUBSET Slugs,
         NEW mode \in IssuanceModes
  PROVE  Consistent(provision(k, n, configured, mode))
<1> DEFINE t == provision(k, n, configured, mode)
           root == makeRoot(k, n)
<1>1. 1 \in Gens /\ root \in rootRecord
  BY StateConstants, MaterialType DEF Gens
<1>2. /\ t.activeRoot = 1
      /\ t.roots[1] = root
      /\ \A g \in Gens \ {1} : t.roots[g].kid = 0
      /\ t.pending = NoPending
  BY <1>1 DEF provision, NoAuthority, NoRoot
<1>3. /\ \A slug \in configured : t.issuers[slug] = FirstVersion(1, root, k, n)
      /\ \A slug \in Slugs \ configured : t.issuers[slug] = NoIssuer
  BY DEF provision, NoAuthority
<1>4. /\ root.kid = k /\ root.key = TRUE /\ root.notAfter = n + RootValidity
  BY DEF makeRoot
<1>5. /\ NoPending.kind = "none" /\ NoPending.root = 0
      /\ \A slug \in Slugs : NoPending.issuers[slug] = 0
  BY DEF NoPending
<1>6. NoIssuer.active = 0
  BY DEF NoIssuer
<1> HIDE DEF t, root
<1>7. Known(t) = configured
  BY <1>1, <1>3, <1>6, FirstVersionFields DEF Known
<1>8. ASSUME NEW slug \in configured
      PROVE  /\ t.issuers[slug].active = 1
             /\ 1 \in Versions
             /\ t.issuers[slug].versions[1] =
                  [kid |-> k, parent |-> k, root |-> 1, key |-> TRUE,
                   notAfter |-> n + IssuerValidity]
             /\ \A v \in Versions \ {1} : t.issuers[slug].versions[v].kid = 0
  BY <1>1, <1>3, <1>4, FirstVersionFields DEF makeIssuer
<1>9. RootKeysExact(t)
  BY <1>1, <1>2, <1>4, <1>5 DEF RootKeysExact, PendingRoot
<1>10. IssuerKeysExact(t)
  BY <1>2, <1>5, <1>7, <1>8 DEF IssuerKeysExact
<1>11. IssuersSigned(t)
  BY <1>2, <1>4, <1>7, <1>8, StateConstants, IssuerFitsNewRoot DEF IssuersSigned
<1>12. ActiveUnderActive(t)
  BY <1>2, <1>7, <1>8 DEF ActiveUnderActive, ActiveVersion
<1>13. PendingComplete(t) /\ PendingIsNew(t) /\ PendingRootUnused(t)
  BY <1>2, <1>5 DEF PendingComplete, PendingIsNew, PendingRootUnused, PendingRoot
<1> QED BY <1>9, <1>10, <1>11, <1>12, <1>13 DEF Consistent, validateState, t

\* Adding configured issuers under the active root keeps the record consistent
\* when a new issuer fits under that root.
LEMMA AddIssuersConsistent ==
  ASSUME NEW s \in authorityState, Consistent(s), s.pending.kind = "none",
         NEW k \in Nat \ {0}, NEW n \in Nat, NEW configured \in SUBSET Slugs,
         configured \subseteq Known(s) \/ IssuerFits(s.roots[s.activeRoot], n)
  PROVE  Consistent(addIssuers(s, configured, k, n))
<1> DEFINE t == addIssuers(s, configured, k, n)
           root == s.roots[s.activeRoot]
<1>1. /\ t.activeRoot = s.activeRoot /\ t.roots = s.roots
      /\ t.pending = s.pending /\ t.revision = s.revision
  BY DEF addIssuers, authorityState
<1>2. /\ \A slug \in configured \ Known(s) : t.issuers[slug] = FirstVersion(s.activeRoot, root, k, n)
      /\ \A slug \in Slugs : slug \notin configured \ Known(s) => t.issuers[slug] = s.issuers[slug]
  BY DEF addIssuers, authorityState
<1>3. s.activeRoot \in Gens /\ root \in rootRecord /\ root.kid # 0
  BY StateConstants DEF authorityState, Gens, Consistent, validateState, RootKeysExact
<1> HIDE DEF t, root
<1>4. Known(t) = Known(s) \cup configured
  BY <1>2, <1>3, FirstVersionFields DEF Known
<1>5. \A slug \in Known(s) : t.issuers[slug] = s.issuers[slug]
  BY <1>2 DEF Known
<1>6. ASSUME NEW slug \in Known(t), slug \notin Known(s)
      PROVE  /\ IssuerFits(root, n)
             /\ t.issuers[slug].active = 1
             /\ 1 \in Versions
             /\ t.issuers[slug].versions[1] =
                  [kid |-> k, parent |-> root.kid, root |-> s.activeRoot, key |-> TRUE,
                   notAfter |-> n + IssuerValidity]
             /\ \A v \in Versions \ {1} : t.issuers[slug].versions[v].kid = 0
  BY <1>2, <1>3, <1>4, <1>6, FirstVersionFields DEF makeIssuer, root
<1>7. \A slug \in Slugs : s.pending.issuers[slug] = 0
  BY DEF Consistent, PendingIsNew
<1>8. RootKeysExact(t)
  BY <1>1 DEF RootKeysExact, PendingRoot, Consistent, validateState
<1>9. IssuerKeysExact(t)
  <2> SUFFICES ASSUME NEW slug \in Known(t), NEW v \in Versions,
                      t.issuers[slug].versions[v].kid # 0
               PROVE  t.issuers[slug].versions[v].key <=>
                        v = t.issuers[slug].active \/ v = t.pending.issuers[slug]
    BY DEF IssuerKeysExact
  <2>1. CASE slug \in Known(s)
    BY <2>1, <1>1, <1>5 DEF Consistent, validateState, IssuerKeysExact
  <2>2. CASE slug \notin Known(s)
    BY <2>2, <1>1, <1>6, <1>7 DEF Versions, Known
  <2> QED BY <2>1, <2>2
<1>10. IssuersSigned(t)
  <2> SUFFICES ASSUME NEW slug \in Known(t), NEW v \in Versions,
                      t.issuers[slug].versions[v].kid # 0
               PROVE  LET version == t.issuers[slug].versions[v] IN
                        /\ version.root # 0
                        /\ t.roots[version.root].kid # 0
                        /\ version.parent = t.roots[version.root].kid
                        /\ version.notAfter <= t.roots[version.root].notAfter - ClockSkew
    BY DEF IssuersSigned
  <2>1. CASE slug \in Known(s)
    <3>1. t.issuers[slug] = s.issuers[slug] /\ t.roots = s.roots
      BY <2>1, <1>1, <1>5
    <3>2. s.issuers[slug].versions[v].kid # 0
      BY <3>1
    <3> DEFINE version == s.issuers[slug].versions[v]
    <3>3. /\ version.root # 0
          /\ s.roots[version.root].kid # 0
          /\ version.parent = s.roots[version.root].kid
          /\ version.notAfter <= s.roots[version.root].notAfter - ClockSkew
      BY <2>1, <3>2, SignedByRoot, Zenon
    <3>4. t.issuers[slug].versions[v] = version
      BY <3>1
    <3> HIDE DEF version
    <3> QED BY <3>1, <3>3, <3>4
  <2>2. CASE slug \notin Known(s)
    BY <2>2, <1>1, <1>3, <1>6, StateConstants DEF IssuerFits, root, Gens
  <2> QED BY <2>1, <2>2
<1>11. ActiveUnderActive(t)
  BY <1>1, <1>5, <1>6 DEF Consistent, validateState, ActiveUnderActive, ActiveVersion
<1>12. PendingComplete(t) /\ PendingIsNew(t) /\ PendingRootUnused(t)
  BY <1>1, <1>7 DEF Consistent, PendingComplete, PendingIsNew, PendingRootUnused, PendingRoot
<1> QED BY <1>8, <1>9, <1>10, <1>11, <1>12 DEF Consistent, validateState, t

\* What staging leaves in the record of one issuer: its next version is the new
\* one, everything else is as it was.
LEMMA StageVersionsFields ==
  ASSUME NEW s \in authorityState, NEW slugs \in SUBSET Slugs, NEW g, NEW root, NEW k, NEW n,
         NEW slug \in Slugs
  PROVE  LET staged == stageVersions(s, slugs, g, root, k, n)[slug] IN
         /\ staged.active = s.issuers[slug].active
         /\ \A v \in Versions :
               staged.versions[v] = IF slug \in slugs /\ v = s.issuers[slug].active + 1
                                    THEN makeIssuer(g, root, k, n)
                                    ELSE s.issuers[slug].versions[v]
  BY DEF stageVersions, authorityState, issuerRecord

\* Staging versions of the issuers in "due" under root generation g, with the
\* matching manifest, keeps a record without a pending operation consistent.
\* Root rotation puts the new root at g; issuer rotation uses the active root.
LEMMA StagingConsistent ==
  ASSUME NEW s \in authorityState, Consistent(s), s.pending.kind = "none",
         NEW t \in authorityState, NEW due \in SUBSET Known(s), VersionsLeft(s, due),
         NEW g \in Gens, NEW k \in Nat \ {0}, NEW n \in Nat,
         NEW kind \in {"root", "issuer"},
         t.activeRoot = s.activeRoot,
         t.revision = s.revision,
         t.issuers = stageVersions(s, due, g, t.roots[g], k, n),
         t.pending = stagedManifest(s, kind, IF kind = "root" THEN g ELSE 0, due),
         \A h \in Gens : kind = "issuer" \/ h # g => t.roots[h] = s.roots[h],
         kind = "root" => /\ s.roots[g].kid = 0
                          /\ t.roots[g].kid # 0
                          /\ t.roots[g].key = TRUE
                          /\ due = Known(s),
         kind = "issuer" => g = s.activeRoot,
         IssuerFits(t.roots[g], n)
  PROVE  Consistent(t)
<1> USE DEF Gens, Versions
<1>1. /\ s.activeRoot \in Gens
      /\ s.roots[s.activeRoot].kid # 0
      /\ kind = "root" => g # s.activeRoot
  BY StateConstants DEF Consistent, validateState, RootKeysExact, authorityState
<1>2. Known(s) \subseteq Slugs
  BY DEF Known
<1>3. ASSUME NEW slug \in Slugs
      PROVE  /\ t.issuers[slug].active = s.issuers[slug].active
             /\ s.issuers[slug].active \in 0..MaxVersion
             /\ \A v \in Versions :
                   t.issuers[slug].versions[v] =
                      IF slug \in due /\ v = s.issuers[slug].active + 1
                      THEN makeIssuer(g, t.roots[g], k, n)
                      ELSE s.issuers[slug].versions[v]
  <2>1. s.issuers[slug].active \in 0..MaxVersion
    BY DEF authorityState, issuerRecord
  <2>2. due \in SUBSET Slugs
    BY <1>2
  <2> QED BY <2>1, <2>2, StageVersionsFields
<1>4. /\ t.pending.kind = kind
      /\ t.pending.root = IF kind = "root" THEN g ELSE 0
      /\ t.pending.expected = s.revision
      /\ \A slug \in Slugs : t.pending.issuers[slug] =
            IF slug \in due THEN s.issuers[slug].active + 1 ELSE 0
  BY DEF stagedManifest
<1>5. /\ makeIssuer(g, t.roots[g], k, n).kid = k
      /\ makeIssuer(g, t.roots[g], k, n).parent = t.roots[g].kid
      /\ makeIssuer(g, t.roots[g], k, n).root = g
      /\ makeIssuer(g, t.roots[g], k, n).key = TRUE
      /\ makeIssuer(g, t.roots[g], k, n).notAfter = n + IssuerValidity
  BY DEF makeIssuer
<1>6. Known(t) = Known(s)
  BY <1>3 DEF Known
<1>7. ASSUME NEW slug \in due
      PROVE  /\ slug \in Slugs
             /\ s.issuers[slug].active # 0
             /\ s.issuers[slug].active + 1 \in Versions
  <2>1. slug \in Slugs /\ s.issuers[slug].active # 0
    BY DEF Known
  <2>2. s.issuers[slug].active < MaxVersion /\ s.issuers[slug].active \in 0..MaxVersion
    BY <2>1, <1>3 DEF VersionsLeft
  <2> QED BY <2>1, <2>2, StateConstants
<1>8. /\ \A slug \in Slugs : s.pending.issuers[slug] = 0
      /\ s.pending.root = 0
  BY DEF Consistent, PendingIsNew, PendingRoot
<1>9. RootKeysExact(t)
  <2>1. t.roots[t.activeRoot].kid # 0 /\ t.activeRoot # 0
    BY <1>1
  <2>2. ASSUME NEW h \in Gens, t.roots[h].kid # 0
        PROVE  t.roots[h].key <=> h = t.activeRoot \/ (PendingRoot(t) /\ h = t.pending.root)
    <3>1. CASE kind = "root" /\ h = g
      BY <3>1, <1>4 DEF PendingRoot
    <3>2. CASE kind = "issuer" \/ h # g
      <4>1. t.roots[h] = s.roots[h]
        BY <3>2
      <4>2. s.roots[h].key <=> h = s.activeRoot
        BY <2>2, <4>1 DEF Consistent, validateState, RootKeysExact, PendingRoot
      <4> QED BY <3>2, <4>1, <4>2, <1>4 DEF PendingRoot
    <3> QED BY <3>1, <3>2
  <2> QED BY <2>1, <2>2 DEF RootKeysExact
<1>10. IssuerKeysExact(t)
  <2> SUFFICES ASSUME NEW slug \in Known(s), NEW v \in Versions,
                      t.issuers[slug].versions[v].kid # 0
               PROVE  t.issuers[slug].versions[v].key <=>
                        v = t.issuers[slug].active \/ v = t.pending.issuers[slug]
    BY <1>6 DEF IssuerKeysExact
  <2> slug \in Slugs
    BY <1>2
  <2>1. CASE slug \in due /\ v = s.issuers[slug].active + 1
    BY <2>1, <1>3, <1>4, <1>5
  <2>2. CASE ~(slug \in due /\ v = s.issuers[slug].active + 1)
    <3>1. t.issuers[slug].versions[v] = s.issuers[slug].versions[v]
      BY <2>2, <1>3
    <3>2. s.issuers[slug].versions[v].key <=> v = s.issuers[slug].active
      BY <3>1, <1>8 DEF Consistent, validateState, IssuerKeysExact
    <3> QED BY <2>2, <3>1, <3>2, <1>3, <1>4
  <2> QED BY <2>1, <2>2
<1>11. IssuersSigned(t)
  <2> SUFFICES ASSUME NEW slug \in Known(s), NEW v \in Versions,
                      t.issuers[slug].versions[v].kid # 0
               PROVE  LET version == t.issuers[slug].versions[v] IN
                        /\ version.root # 0
                        /\ t.roots[version.root].kid # 0
                        /\ version.parent = t.roots[version.root].kid
                        /\ version.notAfter <= t.roots[version.root].notAfter - ClockSkew
    BY <1>6 DEF IssuersSigned
  <2> slug \in Slugs
    BY <1>2
  <2>1. CASE slug \in due /\ v = s.issuers[slug].active + 1
    <3>1. t.issuers[slug].versions[v] = makeIssuer(g, t.roots[g], k, n)
      BY <2>1, <1>3
    <3>2. g # 0 /\ t.roots[g].kid # 0
      BY <1>1
    <3> QED BY <3>1, <3>2, <1>5 DEF IssuerFits
  <2>2. CASE ~(slug \in due /\ v = s.issuers[slug].active + 1)
    <3> DEFINE version == s.issuers[slug].versions[v]
    <3>1. t.issuers[slug].versions[v] = version
      BY <2>2, <1>3
    <3>2. /\ version.root # 0
          /\ s.roots[version.root].kid # 0
          /\ version.parent = s.roots[version.root].kid
          /\ version.notAfter <= s.roots[version.root].notAfter - ClockSkew
      BY <3>1 DEF Consistent, validateState, IssuersSigned
    <3>3. version.root \in Gens
      <4>1. version \in issuerVersion
        BY FieldTypes
      <4> QED BY <4>1, <3>2, StateConstants DEF issuerVersion
    <3>4. t.roots[version.root] = s.roots[version.root]
      BY <3>2, <3>3
    <3> QED BY <3>1, <3>2, <3>4
  <2> QED BY <2>1, <2>2
<1>12. ActiveUnderActive(t)
  <2> SUFFICES ASSUME NEW slug \in Known(s)
               PROVE  /\ ActiveVersion(t, slug).kid # 0
                      /\ ActiveVersion(t, slug).root = t.activeRoot
    BY <1>6 DEF ActiveUnderActive
  <2>1. slug \in Slugs /\ s.issuers[slug].active \in Versions
    BY <1>2, <1>3 DEF Known
  <2>2. ActiveVersion(t, slug) = ActiveVersion(s, slug)
    BY <2>1, <1>3 DEF ActiveVersion
  <2> QED BY <2>2 DEF Consistent, validateState, ActiveUnderActive
<1>13. PendingComplete(t)
  <2>1. t.pending.expected <= t.revision
    BY <1>4 DEF authorityState
  <2>2. PendingRoot(t) => /\ t.pending.root # 0
                          /\ t.roots[t.pending.root].kid # 0
                          /\ \A slug \in Known(t) : t.pending.issuers[slug] # 0
    BY <1>2, <1>3, <1>4, <1>6, <1>7 DEF PendingRoot
  <2>3. ASSUME NEW slug \in Slugs, t.pending.issuers[slug] # 0
        PROVE  /\ slug \in Known(t)
               /\ t.issuers[slug].versions[t.pending.issuers[slug]].kid # 0
    BY <2>3, <1>3, <1>4, <1>5, <1>6, <1>7
  <2> QED BY <2>1, <2>2, <2>3 DEF PendingComplete
<1>14. PendingIsNew(t)
  <2>1. ASSUME NEW slug \in Slugs, t.pending.issuers[slug] # 0
        PROVE  /\ t.issuers[slug].active # 0
               /\ t.pending.issuers[slug] # t.issuers[slug].active
               /\ t.issuers[slug].versions[t.pending.issuers[slug]].kid # 0
               /\ t.issuers[slug].versions[t.pending.issuers[slug]].root
                     = IF PendingRoot(t) THEN t.pending.root ELSE t.activeRoot
    BY <2>1, <1>3, <1>4, <1>5, <1>7 DEF PendingRoot
  <2>2. /\ PendingRoot(t) => t.pending.root # 0 /\ t.pending.root # t.activeRoot
        /\ ~PendingRoot(t) => t.pending.root = 0
        /\ t.pending.kind # "none"
    BY <1>1, <1>4 DEF PendingRoot
  <2> QED BY <2>1, <2>2 DEF PendingIsNew
<1>15. PendingRootUnused(t)
  <2> SUFFICES ASSUME PendingRoot(t), NEW slug \in Slugs, NEW v \in Versions,
                      t.issuers[slug].active # 0,
                      t.issuers[slug].versions[v].kid # 0,
                      t.issuers[slug].versions[v].root = t.pending.root,
                      v # t.pending.issuers[slug]
               PROVE  FALSE
    BY DEF PendingRootUnused
  <2>1. t.issuers[slug].versions[v] = s.issuers[slug].versions[v] /\ slug \in Known(s)
    BY <1>3, <1>4 DEF Known
  <2>2. s.roots[g].kid # 0
    <3>1. s.issuers[slug].versions[v].kid # 0 /\ s.issuers[slug].versions[v].root = t.pending.root
      BY <2>1
    <3>2. s.roots[t.pending.root].kid # 0
      <4>1. slug \in Known(s) /\ s.issuers[slug].versions[v].kid # 0
        BY <2>1, <3>1
      <4>2. s.roots[s.issuers[slug].versions[v].root].kid # 0
        BY <4>1, SignedByRoot, Zenon
      <4> QED BY <3>1, <4>2
    <3>3. t.pending.root = g
      BY <1>4 DEF PendingRoot
    <3> QED BY <3>2, <3>3
  <2> QED BY <2>2, <1>4 DEF PendingRoot
<1> QED BY <1>9, <1>10, <1>11, <1>12, <1>13, <1>14, <1>15 DEF Consistent, validateState

LEMMA PrepareRootConsistent ==
  ASSUME NEW s \in authorityState, Consistent(s), s.pending.kind = "none",
         NEW g \in Gens, s.roots[g].kid = 0, NEW k \in Nat \ {0}, NEW n \in Nat,
         VersionsLeft(s, Known(s))
  PROVE  Consistent(prepareRoot(s, g, k, n))
<1> DEFINE t == prepareRoot(s, g, k, n)
<1>1. t \in authorityState
  BY PrepareRootType
<1>2. /\ t.activeRoot = s.activeRoot
      /\ t.revision = s.revision
      /\ t.roots[g] = makeRoot(k, n)
      /\ \A h \in Gens : h # g => t.roots[h] = s.roots[h]
      /\ t.issuers = stageVersions(s, Known(s), g, makeRoot(k, n), k, n)
      /\ t.pending = stagedManifest(s, "root", g, Known(s))
  BY DEF prepareRoot, authorityState
<1>3. /\ makeRoot(k, n).kid = k
      /\ makeRoot(k, n).key = TRUE
      /\ IssuerFits(makeRoot(k, n), n)
  BY StateConstants, IssuerFitsNewRoot DEF makeRoot, IssuerFits
<1> HIDE DEF t
<1>4. VersionsLeft(s, Known(s)) /\ Known(s) \in SUBSET Known(s)
  OBVIOUS
<1>5. /\ t.issuers = stageVersions(s, Known(s), g, t.roots[g], k, n)
      /\ t.roots[g].kid # 0 /\ t.roots[g].key = TRUE /\ IssuerFits(t.roots[g], n)
  BY <1>2, <1>3
<1>6. Consistent(t)
  BY <1>1, <1>2, <1>4, <1>5, StagingConsistent
<1> QED BY <1>6 DEF t

LEMMA PrepareIssuersConsistent ==
  ASSUME NEW s \in authorityState, Consistent(s), s.pending.kind = "none",
         NEW due \in SUBSET Known(s), NEW k \in Nat \ {0}, NEW n \in Nat,
         VersionsLeft(s, due), IssuerFits(s.roots[s.activeRoot], n)
  PROVE  Consistent(prepareIssuers(s, due, k, n))
<1> DEFINE t == prepareIssuers(s, due, k, n)
<1>1. s.activeRoot \in Gens /\ due \in SUBSET Slugs
  BY StateConstants DEF authorityState, Gens, Consistent, validateState, RootKeysExact, Known
<1>2. t \in authorityState
  BY <1>1, PrepareIssuersType DEF Gens
<1>3. /\ t.activeRoot = s.activeRoot
      /\ t.revision = s.revision
      /\ t.roots = s.roots
      /\ t.issuers = stageVersions(s, due, s.activeRoot, s.roots[s.activeRoot], k, n)
      /\ t.pending = stagedManifest(s, "issuer", 0, due)
  BY DEF prepareIssuers, authorityState
<1> HIDE DEF t
<1>4. Consistent(t)
  BY <1>1, <1>2, <1>3, StagingConsistent
<1> QED BY <1>4 DEF t

\* Promotion of a pending operation keeps the record consistent.
LEMMA PromoteConsistent ==
  ASSUME NEW s \in authorityState, Consistent(s), s.pending.kind # "none", NEW d \in Nat
  PROVE  Consistent(promote(s, d))
<1> DEFINE t == promote(s, d)
           p == s.pending
           upgraded(slug) == p.issuers[slug] # 0
<1>1. t.activeRoot = IF PendingRoot(s) THEN p.root ELSE s.activeRoot
  BY DEF promote, authorityState
<1>2. t.pending = NoPending
  BY DEF promote, authorityState
<1>3. s.activeRoot \in Gens /\ s.roots \in [Gens -> rootRecord]
  BY StateConstants DEF authorityState, Gens, Consistent, validateState, RootKeysExact
<1>4. ASSUME NEW g \in Gens
      PROVE  /\ t.roots[g].kid = s.roots[g].kid
             /\ t.roots[g].notAfter = s.roots[g].notAfter
             /\ t.roots[g].key <=> s.roots[g].key /\ ~(PendingRoot(s) /\ g = s.activeRoot)
  <2>1. t.roots = IF PendingRoot(s) THEN [s.roots EXCEPT ![s.activeRoot].key = FALSE,
                                                         ![s.activeRoot].until = d]
                  ELSE s.roots
    BY DEF promote, authorityState
  <2> HIDE DEF t
  <2>2. s.roots[g] \in rootRecord
    BY <1>3
  <2>3. CASE PendingRoot(s) /\ g = s.activeRoot
    <3>1. t.roots[g] = [s.roots[g] EXCEPT !.key = FALSE, !.until = d]
      BY <2>1, <2>3, <1>3
    <3> QED BY <2>2, <2>3, <3>1 DEF rootRecord
  <2>4. CASE ~(PendingRoot(s) /\ g = s.activeRoot)
    <3>1. t.roots[g] = s.roots[g]
      BY <2>1, <2>4, <1>3
    <3> QED BY <2>4, <3>1
  <2> QED BY <2>3, <2>4
<1>5. ASSUME NEW slug \in Slugs
      PROVE  /\ t.issuers[slug].active = IF upgraded(slug) THEN p.issuers[slug]
                                         ELSE s.issuers[slug].active
             /\ \A v \in Versions :
                   LET new == t.issuers[slug].versions[v]
                       old == s.issuers[slug].versions[v]
                   IN /\ new.kid = old.kid /\ new.parent = old.parent
                      /\ new.root = old.root /\ new.notAfter = old.notAfter
                      /\ new.key <=> old.key /\ ~(upgraded(slug) /\ v = s.issuers[slug].active)
  <2>1. t.issuers[slug] = IF ~upgraded(slug) THEN s.issuers[slug]
                          ELSE [active |-> p.issuers[slug],
                                versions |-> [s.issuers[slug].versions EXCEPT
                                                ![s.issuers[slug].active].key = FALSE]]
    BY DEF promote, authorityState
  <2> HIDE DEF t, p
  <2>2. s.issuers[slug].versions \in [Versions -> issuerVersion]
    BY FieldTypes
  <2>3. t.issuers[slug].active = IF upgraded(slug) THEN p.issuers[slug] ELSE s.issuers[slug].active
    BY <2>1
  <2>4. ASSUME NEW v \in Versions
        PROVE  t.issuers[slug].versions[v] =
                 IF upgraded(slug) /\ v = s.issuers[slug].active
                 THEN [s.issuers[slug].versions[v] EXCEPT !.key = FALSE]
                 ELSE s.issuers[slug].versions[v]
    <3>1. CASE upgraded(slug)
      <4>1. t.issuers[slug].versions = [s.issuers[slug].versions EXCEPT
                                          ![s.issuers[slug].active].key = FALSE]
        BY <2>1, <3>1
      <4> QED BY <4>1, <2>2, <3>1
    <3>2. CASE ~upgraded(slug)
      BY <2>1, <3>2
    <3> QED BY <3>1, <3>2
  <2>5. ASSUME NEW v \in Versions
        PROVE  s.issuers[slug].versions[v] \in issuerVersion
    BY <2>2
  <2> QED BY <2>3, <2>4, <2>5 DEF issuerVersion
<1>6. ASSUME NEW slug \in Slugs, upgraded(slug)
      PROVE  /\ slug \in Known(s)
             /\ p.issuers[slug] \in Versions
             /\ p.issuers[slug] # s.issuers[slug].active
             /\ s.issuers[slug].versions[p.issuers[slug]].kid # 0
             /\ s.issuers[slug].versions[p.issuers[slug]].root = t.activeRoot
  <2>1. p.issuers[slug] \in 0..MaxVersion
    BY FieldTypes
  <2> QED BY <2>1, <1>6, <1>1, StateConstants DEF Consistent, PendingIsNew, Known, Versions
<1>7. ~PendingRoot(s) \/ \A slug \in Known(s) : upgraded(slug)
  BY DEF Consistent, validateState, PendingComplete
<1>8. /\ t.activeRoot \in Gens
      /\ s.roots[t.activeRoot].kid # 0
      /\ PendingRoot(s) => p.root # s.activeRoot
  <2>1. p.root \in 0..MaxGeneration
    BY DEF authorityState, pendingManifest
  <2> QED BY <2>1, <1>1, <1>3, StateConstants
       DEF Consistent, validateState, PendingComplete, PendingIsNew, RootKeysExact, Gens
<1>9. /\ NoPending.kind = "none" /\ NoPending.root = 0
      /\ \A slug \in Slugs : NoPending.issuers[slug] = 0
  BY DEF NoPending
<1>10. Known(s) \subseteq Slugs
  BY DEF Known
<1> HIDE DEF t
<1>11. Known(t) = Known(s)
  BY <1>5, <1>6 DEF Known
<1>12. RootKeysExact(t)
  <2>1. t.activeRoot # 0 /\ t.roots[t.activeRoot].kid # 0
    BY <1>4, <1>8 DEF Gens
  <2>2. ASSUME NEW g \in Gens, t.roots[g].kid # 0
        PROVE  t.roots[g].key <=> g = t.activeRoot
    <3>1. s.roots[g].key <=> g = s.activeRoot \/ (PendingRoot(s) /\ g = p.root)
      BY <2>2, <1>4 DEF Consistent, validateState, RootKeysExact
    <3> QED BY <3>1, <1>1, <1>4, <1>8
  <2> QED BY <2>1, <2>2, <1>2, <1>9 DEF RootKeysExact, PendingRoot
<1>13. IssuerKeysExact(t)
  <2> SUFFICES ASSUME NEW slug \in Known(s), NEW v \in Versions,
                      t.issuers[slug].versions[v].kid # 0
               PROVE  t.issuers[slug].versions[v].key <=>
                        v = t.issuers[slug].active \/ v = t.pending.issuers[slug]
    BY <1>11 DEF IssuerKeysExact
  <2>1. slug \in Slugs /\ v # 0 /\ t.pending.issuers[slug] = 0
    BY <1>2, <1>9, <1>10 DEF Versions
  <2>2. s.issuers[slug].versions[v].key <=> v = s.issuers[slug].active \/ v = p.issuers[slug]
    BY <2>1, <1>5 DEF Consistent, validateState, IssuerKeysExact
  <2>3. t.issuers[slug].versions[v].key <=>
           /\ s.issuers[slug].versions[v].key
           /\ ~(upgraded(slug) /\ v = s.issuers[slug].active)
    BY <2>1, <1>5
  <2>4. t.issuers[slug].active = IF upgraded(slug) THEN p.issuers[slug]
                                 ELSE s.issuers[slug].active
    BY <2>1, <1>5
  <2> QED BY <2>1, <2>2, <2>3, <2>4, <1>6
<1>14. IssuersSigned(t)
  <2> SUFFICES ASSUME NEW slug \in Known(s), NEW v \in Versions,
                      t.issuers[slug].versions[v].kid # 0
               PROVE  LET version == t.issuers[slug].versions[v] IN
                        /\ version.root # 0
                        /\ t.roots[version.root].kid # 0
                        /\ version.parent = t.roots[version.root].kid
                        /\ version.notAfter <= t.roots[version.root].notAfter - ClockSkew
    BY <1>11 DEF IssuersSigned
  <2> DEFINE version == s.issuers[slug].versions[v]
  <2>1. slug \in Slugs /\ version \in issuerVersion
    BY <1>10, FieldTypes
  <2>2. /\ version.root # 0
        /\ s.roots[version.root].kid # 0
        /\ version.parent = s.roots[version.root].kid
        /\ version.notAfter <= s.roots[version.root].notAfter - ClockSkew
    <3>1. version.kid # 0
      BY <2>1, <1>5
    <3> QED BY <3>1, SignedByRoot, Zenon
  <2>3. version.root \in Gens
    BY <2>1, <2>2, StateConstants DEF issuerVersion, Gens
  <2>4. /\ t.issuers[slug].versions[v].root = version.root
        /\ t.issuers[slug].versions[v].parent = version.parent
        /\ t.issuers[slug].versions[v].notAfter = version.notAfter
    BY <2>1, <1>5
  <2>5. /\ t.roots[version.root].kid = s.roots[version.root].kid
        /\ t.roots[version.root].notAfter = s.roots[version.root].notAfter
    BY <2>3, <1>4
  <2> QED BY <2>2, <2>4, <2>5
<1>15. ActiveUnderActive(t)
  <2> SUFFICES ASSUME NEW slug \in Known(s)
               PROVE  /\ ActiveVersion(t, slug).kid # 0
                      /\ ActiveVersion(t, slug).root = t.activeRoot
    BY <1>11 DEF ActiveUnderActive
  <2>1. slug \in Slugs /\ s.issuers[slug].active \in Versions
    BY <1>10, FieldTypes DEF Known, Versions
  <2>2. CASE upgraded(slug)
    <3>1. t.issuers[slug].active = p.issuers[slug]
      BY <2>1, <2>2, <1>5
    <3>2. p.issuers[slug] \in Versions
      BY <2>1, <2>2, <1>6
    <3>3. ASSUME NEW v \in Versions
          PROVE  /\ t.issuers[slug].versions[v].kid = s.issuers[slug].versions[v].kid
                 /\ t.issuers[slug].versions[v].root = s.issuers[slug].versions[v].root
      BY <2>1, <1>5
    <3>4. ActiveVersion(t, slug) = t.issuers[slug].versions[p.issuers[slug]]
      BY <3>1 DEF ActiveVersion
    <3>5. /\ ActiveVersion(t, slug).kid = s.issuers[slug].versions[p.issuers[slug]].kid
          /\ ActiveVersion(t, slug).root = s.issuers[slug].versions[p.issuers[slug]].root
      BY <3>2, <3>3, <3>4
    <3> QED BY <2>1, <2>2, <3>5, <1>6
  <2>3. CASE ~upgraded(slug)
    <3>1. ~PendingRoot(s)
      BY <2>3, <1>7
    <3>2. ActiveVersion(s, slug).kid # 0 /\ ActiveVersion(s, slug).root = s.activeRoot
      BY DEF Consistent, validateState, ActiveUnderActive
    <3> QED BY SMTT(30), <3>1, <3>2, <2>1, <2>3, <1>1, <1>5 DEF ActiveVersion
  <2> QED BY <2>2, <2>3
<1>16. PendingComplete(t) /\ PendingIsNew(t) /\ PendingRootUnused(t)
  BY <1>2, <1>9 DEF PendingComplete, PendingIsNew, PendingRootUnused, PendingRoot
<1> QED BY <1>12, <1>13, <1>14, <1>15, <1>16 DEF Consistent, validateState, t

\* Discarding a pending operation keeps the record consistent: nothing that
\* stays was signed by a discarded root.
LEMMA DiscardConsistent ==
  ASSUME NEW s \in authorityState, Consistent(s), s.pending.kind # "none"
  PROVE  Consistent(discard(s))
<1> DEFINE t == discard(s)
           p == s.pending
<1>1. t.activeRoot = s.activeRoot /\ t.pending = NoPending
  BY DEF discard, authorityState
<1>2. \A g \in Gens : t.roots[g] = IF PendingRoot(s) /\ g = p.root THEN NoRoot ELSE s.roots[g]
  BY DEF discard, authorityState
<1>3. ASSUME NEW slug \in Slugs
      PROVE  /\ t.issuers[slug].active = s.issuers[slug].active
             /\ \A v \in Versions : t.issuers[slug].versions[v] =
                   IF v = p.issuers[slug] THEN NoVersion ELSE s.issuers[slug].versions[v]
  <2>1. t.issuers[slug] = [s.issuers[slug] EXCEPT !.versions =
                    [v \in Versions |-> IF v = p.issuers[slug] THEN NoVersion
                                        ELSE s.issuers[slug].versions[v]]]
    BY DEF discard, authorityState
  <2>2. s.issuers[slug] \in issuerRecord
    BY DEF authorityState
  <2> HIDE DEF t, p
  <2> QED BY <2>1, <2>2 DEF issuerRecord
<1>4. NoRoot.kid = 0 /\ NoVersion.kid = 0
  BY DEF NoRoot, NoVersion
<1>5. /\ NoPending.kind = "none" /\ NoPending.root = 0
      /\ \A slug \in Slugs : NoPending.issuers[slug] = 0
  BY DEF NoPending
<1>6. s.activeRoot \in Gens /\ Known(s) \subseteq Slugs
  BY StateConstants DEF authorityState, Gens, Consistent, validateState, RootKeysExact, Known
<1> HIDE DEF t
<1>7. Known(t) = Known(s)
  BY <1>3 DEF Known
<1>8. RootKeysExact(t)
  <2>1. t.activeRoot # 0 /\ t.roots[t.activeRoot].kid # 0
    BY <1>1, <1>2, <1>6 DEF Consistent, validateState, RootKeysExact, PendingIsNew
  <2>2. ASSUME NEW g \in Gens, t.roots[g].kid # 0
        PROVE  t.roots[g].key <=> g = t.activeRoot
    <3>1. t.roots[g] = s.roots[g] /\ ~(PendingRoot(s) /\ g = p.root)
      BY <2>2, <1>2, <1>4
    <3> QED BY <2>2, <3>1, <1>1 DEF Consistent, validateState, RootKeysExact
  <2> QED BY <2>1, <2>2, <1>1, <1>5 DEF RootKeysExact, PendingRoot
<1>9. ASSUME NEW slug \in Known(s), NEW v \in Versions, t.issuers[slug].versions[v].kid # 0
      PROVE  /\ slug \in Slugs /\ v # p.issuers[slug]
             /\ t.issuers[slug].versions[v] = s.issuers[slug].versions[v]
  BY <1>9, <1>3, <1>4, <1>6
<1>10. IssuerKeysExact(t)
  <2> SUFFICES ASSUME NEW slug \in Known(s), NEW v \in Versions,
                      t.issuers[slug].versions[v].kid # 0
               PROVE  t.issuers[slug].versions[v].key <=>
                        v = t.issuers[slug].active \/ v = t.pending.issuers[slug]
    BY <1>7 DEF IssuerKeysExact
  <2>1. slug \in Slugs /\ v # 0 /\ t.pending.issuers[slug] = 0
    BY <1>1, <1>5, <1>6 DEF Versions
  <2> QED BY <2>1, <1>3, <1>9 DEF Consistent, validateState, IssuerKeysExact
<1>11. IssuersSigned(t)
  <2> SUFFICES ASSUME NEW slug \in Known(s), NEW v \in Versions,
                      t.issuers[slug].versions[v].kid # 0
               PROVE  LET version == t.issuers[slug].versions[v] IN
                        /\ version.root # 0
                        /\ t.roots[version.root].kid # 0
                        /\ version.parent = t.roots[version.root].kid
                        /\ version.notAfter <= t.roots[version.root].notAfter - ClockSkew
    BY <1>7 DEF IssuersSigned
  <2> DEFINE version == s.issuers[slug].versions[v]
  <2>1. /\ slug \in Slugs /\ v # p.issuers[slug] /\ version \in issuerVersion
        /\ t.issuers[slug].versions[v] = version
    BY <1>9, FieldTypes
  <2>2. /\ version.root # 0
        /\ s.roots[version.root].kid # 0
        /\ version.parent = s.roots[version.root].kid
        /\ version.notAfter <= s.roots[version.root].notAfter - ClockSkew
    BY <2>1 DEF Consistent, validateState, IssuersSigned
  <2>3. version.root \in Gens
    BY <2>1, <2>2, StateConstants DEF issuerVersion, Gens
  <2>4. ~(PendingRoot(s) /\ version.root = p.root)
    BY <2>1 DEF Consistent, PendingRootUnused, Known
  <2>5. t.roots[version.root] = s.roots[version.root]
    BY <2>3, <2>4, <1>2
  <2> QED BY <2>1, <2>2, <2>5
<1>12. ActiveUnderActive(t)
  <2> SUFFICES ASSUME NEW slug \in Known(s)
               PROVE  /\ ActiveVersion(t, slug).kid # 0
                      /\ ActiveVersion(t, slug).root = t.activeRoot
    BY <1>7 DEF ActiveUnderActive
  <2>1. slug \in Slugs /\ s.issuers[slug].active \in Versions
    BY <1>6, FieldTypes DEF Known, Versions
  <2>2. s.issuers[slug].active # p.issuers[slug]
    BY <2>1 DEF Consistent, PendingIsNew, Versions
  <2>3. ActiveVersion(t, slug) = ActiveVersion(s, slug)
    BY <2>1, <2>2, <1>3 DEF ActiveVersion
  <2> QED BY <2>3, <1>1 DEF Consistent, validateState, ActiveUnderActive
<1>13. PendingComplete(t) /\ PendingIsNew(t) /\ PendingRootUnused(t)
  BY <1>1, <1>5 DEF PendingComplete, PendingIsNew, PendingRootUnused, PendingRoot
<1> QED BY <1>8, <1>10, <1>11, <1>12, <1>13 DEF Consistent, validateState, t

\* Pruning a retired root only clears its deadline.
LEMMA PruneConsistent ==
  ASSUME NEW s \in authorityState, Consistent(s), NEW g \in Gens
  PROVE  Consistent(prune(s, g))
<1> DEFINE t == prune(s, g)
<1>1. /\ t.activeRoot = s.activeRoot /\ t.issuers = s.issuers
      /\ t.pending = s.pending /\ t.revision = s.revision
  BY DEF prune, authorityState
<1>2. \A h \in Gens : /\ t.roots[h].kid = s.roots[h].kid
                      /\ t.roots[h].key = s.roots[h].key
                      /\ t.roots[h].notAfter = s.roots[h].notAfter
  BY DEF prune, authorityState, rootRecord
<1>3. /\ s.activeRoot \in Gens
      /\ s.pending.root # 0 => s.pending.root \in Gens
  BY StateConstants DEF authorityState, pendingManifest, Gens, Consistent, validateState, RootKeysExact
<1> HIDE DEF t
<1>4. Known(t) = Known(s) /\ \A slug : ActiveVersion(t, slug) = ActiveVersion(s, slug)
  BY <1>1 DEF Known, ActiveVersion
<1>5. RootKeysExact(t)
  BY <1>1, <1>2, <1>3 DEF Consistent, validateState, RootKeysExact, PendingRoot
<1>6. IssuersSigned(t)
  <2> SUFFICES ASSUME NEW slug \in Known(s), NEW v \in Versions,
                      s.issuers[slug].versions[v].kid # 0
               PROVE  LET version == s.issuers[slug].versions[v] IN
                        /\ version.root # 0
                        /\ t.roots[version.root].kid # 0
                        /\ version.parent = t.roots[version.root].kid
                        /\ version.notAfter <= t.roots[version.root].notAfter - ClockSkew
    <3>1. Known(t) = Known(s) /\ t.issuers = s.issuers
      BY <1>1, <1>4
    <3> QED BY <3>1 DEF IssuersSigned
  <2> DEFINE version == s.issuers[slug].versions[v]
  <2>1. version \in issuerVersion
    BY FieldTypes DEF Known
  <2>2. /\ version.root # 0
        /\ s.roots[version.root].kid # 0
        /\ version.parent = s.roots[version.root].kid
        /\ version.notAfter <= s.roots[version.root].notAfter - ClockSkew
    BY DEF Consistent, validateState, IssuersSigned
  <2>3. version.root \in Gens
    BY <2>1, <2>2, StateConstants DEF issuerVersion, Gens
  <2> QED BY <2>2, <2>3, <1>2
<1>7. IssuerKeysExact(t) /\ ActiveUnderActive(t)
  BY <1>1, <1>4 DEF Consistent, validateState, IssuerKeysExact, ActiveUnderActive
<1>8. PendingComplete(t)
  BY <1>1, <1>2, <1>3, <1>4 DEF Consistent, validateState, PendingComplete, PendingRoot
<1>9. PendingIsNew(t) /\ PendingRootUnused(t)
  <2>1. PendingIsNew(t)
    BY <1>1 DEF Consistent, PendingIsNew, PendingRoot
  <2>2. PendingRootUnused(t)
    BY <1>1 DEF Consistent, PendingRootUnused, PendingRoot
  <2> QED BY <2>1, <2>2
<1> QED BY <1>5, <1>6, <1>7, <1>8, <1>9 DEF Consistent, validateState, t

-----------------------------------------------------------------------------
(***************************************************************************)
(* The managers.                                                           *)
(***************************************************************************)

IInv == AuthTypeOK /\ StoreInv

\* A write persists the new record, with the next revision, or nothing.
LEMMA PersistedInv ==
  ASSUME IInv, NEW s \in authorityState, Consistent(s), NEW w, store' = Persisted(s, w)
  PROVE  store' \in authorityState /\ StoreInv'
<1>1. Bump(s) \in authorityState /\ Consistent(Bump(s))
  BY BumpType, BumpConsistent
<1>2. CASE w = "lost"
  BY <1>2 DEF IInv, AuthTypeOK, StoreInv, Persisted
<1>3. CASE w # "lost"
  BY <1>1, <1>3 DEF StoreInv, Persisted
<1> QED BY <1>2, <1>3

\* The local state of a manager after each of the things operations do to it.
LEMMA ManagerTypes ==
  ASSUME NEW rec \in AuthorityManager, NEW g \in 0..MaxGeneration, NEW k \in Nat,
         NEW configured \in SUBSET Slugs
  PROVE  /\ NewManager(k, configured) \in AuthorityManager
         /\ Idle(rec) \in AuthorityManager
         /\ Forget(rec, g) \in AuthorityManager
         /\ NoSecrets \in SecretMap
         /\ rec.generated \in SecretMap /\ rec.values \in SecretMap
         /\ rec.secret \in Nat /\ rec.rootUnlock \in Nat
         /\ rec.gen \in 0..MaxGeneration /\ rec.pend \in 0..MaxGeneration
<1>1. NoSecrets \in SecretMap /\ 0 \in 0..MaxGeneration
  BY StateConstants DEF NoSecrets, SecretMap
<1>2. NewManager(k, configured) \in AuthorityManager
  BY <1>1 DEF NewManager, AuthorityManager, ManagerPCs
<1>3. Idle(rec) \in AuthorityManager
  BY <1>1 DEF Idle, AuthorityManager, ManagerPCs
<1>4. Forget(rec, g) \in AuthorityManager
  BY DEF Forget, AuthorityManager, SecretMap
<1> QED BY <1>1, <1>2, <1>3, <1>4 DEF AuthorityManager

\* A secret read from the file is a number.
LEMMA FileSecretType ==
  ASSUME IInv, NEW g \in Gens PROVE FileSecret(g) \in Nat
  BY DEF IInv, AuthTypeOK, FileSecret, SecretMap

\* The facts every operation on an existing authority starts from.
LEMMA ProvisionedFacts ==
  ASSUME IInv, Provisioned(store)
  PROVE  /\ store \in authorityState /\ Consistent(store)
         /\ store.activeRoot \in Gens
         /\ store.pending.root \in 0..MaxGeneration
         /\ store.roots[store.activeRoot] \in rootRecord
<1>1. store \in authorityState /\ Consistent(store)
  BY DEF IInv, AuthTypeOK, StoreInv
<1>2. store.activeRoot \in 0..MaxGeneration /\ store.activeRoot # 0
  BY <1>1 DEF authorityState, Consistent, validateState, RootKeysExact
<1>3. store.activeRoot \in Gens
  BY <1>2, StateConstants DEF Gens
<1> QED BY <1>1, <1>3 DEF authorityState, pendingManifest

\* What Ensure starts staging from: the record with the missing issuers added.
LEMMA ReconciledFacts ==
  ASSUME IInv, NEW m \in Managers, EnsureReconciles(m)
  PROVE  /\ Reconciled(m) \in authorityState /\ Consistent(Reconciled(m))
         /\ Reconciled(m).pending.kind = "none"
         /\ Reconciled(m).activeRoot = store.activeRoot
         /\ Reconciled(m).roots = store.roots
         /\ keys + 1 \in Nat \ {0} /\ now \in Nat
         /\ StagingKey(m) \in Nat \ {0} /\ keys < StagingKey(m)
<1>1. /\ Provisioned(store) /\ store.pending.kind = "none"
      /\ am[m].configured \subseteq Known(store) \/ IssuerFits(store.roots[store.activeRoot], now)
  BY DEF EnsureReconciles
<1>2. /\ store \in authorityState /\ Consistent(store) /\ store.activeRoot # 0
  BY <1>1, ProvisionedFacts, StateConstants DEF Gens
<1>3. am[m].configured \in SUBSET Slugs /\ keys + 1 \in Nat \ {0} /\ now \in Nat
  <2>1. am[m] \in AuthorityManager /\ keys \in Nat /\ now \in Nat
    BY DEF IInv, AuthTypeOK
  <2>2. am[m].configured \in SUBSET Slugs
    BY <2>1 DEF AuthorityManager
  <2> QED BY <2>1, <2>2
<1>4. Reconciled(m) \in authorityState
  BY <1>2, <1>3, AddIssuersType DEF Reconciled
<1>5. Consistent(Reconciled(m))
  BY <1>1, <1>2, <1>3, AddIssuersConsistent DEF Reconciled
<1>6. /\ Reconciled(m).pending = store.pending
      /\ Reconciled(m).activeRoot = store.activeRoot
      /\ Reconciled(m).roots = store.roots
  BY <1>2 DEF Reconciled, addIssuers, authorityState
<1>7. StagingKey(m) \in Nat \ {0} /\ keys < StagingKey(m)
  BY DEF IInv, AuthTypeOK, StagingKey
<1> QED BY <1>1, <1>3, <1>4, <1>5, <1>6, <1>7

\* A manager that has generated one more secret.
LEMMA GeneratedType ==
  ASSUME IInv, NEW m \in Managers, NEW g \in Gens, NEW k \in Nat
  PROVE  [am EXCEPT ![m].generated[g] = k] \in [Managers -> AuthorityManager]
<1>1. am \in [Managers -> AuthorityManager]
  BY DEF IInv, AuthTypeOK
<1> QED BY ZenonT(30), <1>1 DEF AuthorityManager, SecretMap

\* Each of the things Ensure does keeps the invariant.
LEMMA EnsureProvisionInv ==
  ASSUME IInv, NEW m \in Managers, EnsureProvision(m)
  PROVE  IInv'
<1>1. keys + 1 \in Nat \ {0} /\ keys \in Nat /\ now \in Nat /\ am \in [Managers -> AuthorityManager]
  BY DEF IInv, AuthTypeOK
<1>2. PICK mode \in IssuanceModes, w \in WriteOutcomes :
        store' = Persisted(provision(keys + 1, now, am[m].configured, mode), w)
  BY DEF EnsureProvision
<1> DEFINE s == provision(keys + 1, now, am[m].configured, mode)
<1>3. s \in authorityState /\ Consistent(s)
  <2>1. am[m].configured \in SUBSET Slugs
    BY <1>1 DEF AuthorityManager
  <2> QED BY <1>1, <2>1, ProvisionType, ProvisionConsistent
<1>4. 1 \in Gens
  BY StateConstants DEF Gens
<1>5. store' = Persisted(s, w)
  BY <1>2
<1> HIDE DEF s
<1>6. store' \in authorityState /\ StoreInv'
  BY <1>3, <1>5, PersistedInv
<1>7. am' \in [Managers -> AuthorityManager]
  BY <1>1, <1>4, GeneratedType DEF EnsureProvision
<1> QED BY <1>1, <1>6, <1>7 DEF EnsureProvision, IInv, AuthTypeOK

LEMMA EnsureStageRootInv ==
  ASSUME IInv, NEW m \in Managers, NEW early, EnsureStageRoot(m, early)
  PROVE  IInv'
<1>1. am \in [Managers -> AuthorityManager]
  BY DEF IInv, AuthTypeOK
<1>2. PICK g \in Gens :
        /\ FreeGeneration(store, g)
        /\ \E w \in WriteOutcomes :
             store' = Persisted(prepareRoot(Reconciled(m), g, StagingKey(m), now), w)
        /\ am' = [am EXCEPT ![m].generated[g] = StagingKey(m)]
  BY DEF EnsureStageRoot
<1>3. EnsureReconciles(m) /\ VersionsLeft(Reconciled(m), Known(Reconciled(m)))
  BY DEF EnsureStageRoot
<1>4. Reconciled(m).roots[g].kid = 0
  BY <1>2, <1>3, ReconciledFacts DEF FreeGeneration
<1> DEFINE s == prepareRoot(Reconciled(m), g, StagingKey(m), now)
<1>5. s \in authorityState /\ Consistent(s)
  BY <1>3, <1>4, ReconciledFacts, PrepareRootType, PrepareRootConsistent
<1>6. PICK w \in WriteOutcomes : store' = Persisted(s, w)
  BY <1>2
<1> HIDE DEF s
<1>7. store' \in authorityState /\ StoreInv'
  BY <1>5, <1>6, PersistedInv
<1>8. StagingKey(m) \in Nat
  BY <1>3, ReconciledFacts
<1>9. am' \in [Managers -> AuthorityManager]
  BY <1>2, <1>8, GeneratedType
<1> QED BY <1>7, <1>8, <1>9 DEF EnsureStageRoot, IInv, AuthTypeOK

LEMMA EnsureStageIssuersInv ==
  ASSUME IInv, NEW m \in Managers, NEW early, NEW issuerEarly,
         EnsureStageIssuers(m, early, issuerEarly)
  PROVE  IInv'
<1> DEFINE due == issuersDue(Reconciled(m), issuerEarly, now)
           s == prepareIssuers(Reconciled(m), due, StagingKey(m), now)
<1>2. due \in SUBSET Known(Reconciled(m)) /\ due \in SUBSET Slugs
  BY DEF issuersDue, Known
<1>3. /\ EnsureReconciles(m) /\ VersionsLeft(Reconciled(m), due)
      /\ IssuerFits(store.roots[store.activeRoot], now)
      /\ \E w \in WriteOutcomes : store' = Persisted(s, w)
      /\ keys' = StagingKey(m)
      /\ UNCHANGED <<now, ledger, unlocks, exported, am>>
  BY DEF EnsureStageIssuers
<1> HIDE DEF due
<1>4. Reconciled(m).activeRoot # 0
  BY <1>3, ReconciledFacts DEF Consistent, validateState, RootKeysExact
<1>5. s \in authorityState /\ Consistent(s)
  BY <1>2, <1>3, <1>4, ReconciledFacts, PrepareIssuersType, PrepareIssuersConsistent
<1> HIDE DEF s
<1>6. store' \in authorityState /\ StoreInv'
  BY <1>3, <1>5, PersistedInv
<1>7. StagingKey(m) \in Nat
  BY <1>3, ReconciledFacts
<1> QED BY <1>3, <1>6, <1>7 DEF IInv, AuthTypeOK

LEMMA EnsureAddIssuersInv ==
  ASSUME IInv, NEW m \in Managers, NEW early, NEW issuerEarly,
         EnsureAddIssuers(m, early, issuerEarly)
  PROVE  IInv'
<1>1. /\ EnsureReconciles(m)
      /\ \E w \in WriteOutcomes : store' = Persisted(Reconciled(m), w)
      /\ keys' = keys + 1
      /\ UNCHANGED <<now, ledger, unlocks, exported, am>>
  BY DEF EnsureAddIssuers
<1>2. store' \in authorityState /\ StoreInv'
  BY <1>1, ReconciledFacts, PersistedInv
<1> QED BY <1>1, <1>2 DEF IInv, AuthTypeOK

\* Ensure keeps the invariant.
LEMMA EnsureInv ==
  ASSUME IInv, NEW m \in Managers, Ensure(m)
  PROVE  IInv'
  BY EnsureProvisionInv, EnsureStageRootInv, EnsureStageIssuersInv, EnsureAddIssuersInv DEF Ensure

\* The updates of PromotePending and DiscardPending keep the invariant.
LEMMA PendingInv ==
  ASSUME IInv, NEW m \in Managers, PromotePending(m) \/ DiscardPending(m)
  PROVE  IInv'
<1> SUFFICES /\ store' \in authorityState /\ StoreInv'
             /\ am' \in [Managers -> AuthorityManager]
             /\ UNCHANGED <<now, keys, ledger, unlocks, exported>>
  BY DEF IInv, AuthTypeOK
<1>1. /\ am \in [Managers -> AuthorityManager] /\ exported \subseteq Nat
      /\ am[m].generated \in SecretMap
  BY DEF IInv, AuthTypeOK, AuthorityManager
<1>2. Provisioned(store) /\ store.pending.kind # "none"
  BY DEF PromotePending, DiscardPending
<1>3. CASE PromotePending(m)
  <2>1. PICK option \in exported \cup {0} : \E w \in WriteOutcomes :
          /\ \E d \in 0..MaxTime + MaximumLeafValidity + ClockSkew :
               store' = Persisted(promote(store, d), w)
          /\ am' = IF w = "ok"
                   THEN [am EXCEPT ![m].pc = "promoted",
                                   ![m].secret = promotedSecret(m, option)]
                   ELSE am
    BY <1>3 DEF PromotePending
  <2>2. PICK w \in WriteOutcomes, d \in 0..MaxTime + MaximumLeafValidity + ClockSkew :
          /\ store' = Persisted(promote(store, d), w)
          /\ am' = IF w = "ok"
                   THEN [am EXCEPT ![m].pc = "promoted",
                                   ![m].secret = promotedSecret(m, option)]
                   ELSE am
    BY <2>1
  <2>3. promote(store, d) \in authorityState /\ Consistent(promote(store, d))
    BY <1>2, ProvisionedFacts, PromoteType, PromoteConsistent
  <2>4. store' \in authorityState /\ StoreInv'
    BY <2>2, <2>3, PersistedInv
  <2>5. promotedSecret(m, option) \in Nat
    <3>1. PendingRoot(store) => store.pending.root \in Gens
      BY <1>2, ProvisionedFacts, StateConstants DEF Consistent, PendingIsNew, Gens
    <3> QED BY <1>1, <3>1 DEF promotedSecret, SecretMap
  <2>6. am' \in [Managers -> AuthorityManager]
    <3> DEFINE rec == [am[m] EXCEPT !.pc = "promoted", !.secret = promotedSecret(m, option)]
    <3>1. rec \in AuthorityManager
      BY ZenonT(30), <1>1, <2>5 DEF AuthorityManager, ManagerPCs
    <3>2. am' = IF w = "ok" THEN [am EXCEPT ![m] = rec] ELSE am
      BY <1>1, <2>2
    <3> HIDE DEF rec
    <3> QED BY <1>1, <3>1, <3>2
  <2> QED BY <1>3, <2>4, <2>6 DEF PromotePending
<1>4. CASE DiscardPending(m)
  <2>1. PICK w \in WriteOutcomes :
         /\ store' = Persisted(discard(store), w)
         /\ am' = IF w = "ok"
                  THEN [am EXCEPT ![m].pc = "discarded",
                                  ![m].gen = store.pending.root,
                                  ![m].generated =
                                      [g \in Gens |-> IF g = store.pending.root THEN 0
                                                      ELSE am[m].generated[g]]]
                  ELSE am
    BY <1>4 DEF DiscardPending
  <2>2. discard(store) \in authorityState /\ Consistent(discard(store))
    BY <1>2, ProvisionedFacts, DiscardType, DiscardConsistent
  <2>3. store' \in authorityState /\ StoreInv'
    BY <2>1, <2>2, PersistedInv
  <2>4. [g \in Gens |-> IF g = store.pending.root THEN 0 ELSE am[m].generated[g]] \in SecretMap
    BY <1>1 DEF SecretMap
  <2>5. store.pending.root \in 0..MaxGeneration
    BY <1>2, ProvisionedFacts
  <2>6. am' \in [Managers -> AuthorityManager]
    <3> DEFINE secrets == [g \in Gens |-> IF g = store.pending.root THEN 0
                                          ELSE am[m].generated[g]]
               rec == [am[m] EXCEPT !.pc = "discarded", !.gen = store.pending.root,
                                    !.generated = secrets]
    <3>1. am' = IF w = "ok" THEN [am EXCEPT ![m] = rec] ELSE am
      BY <1>1, <2>1
    <3>2. secrets \in SecretMap
      BY <2>4
    <3> HIDE DEF secrets
    <3>3. rec \in AuthorityManager
      BY ZenonT(30), <1>1, <2>5, <3>2 DEF AuthorityManager, ManagerPCs
    <3> HIDE DEF rec
    <3> QED BY <1>1, <3>1, <3>3
  <2> QED BY <1>4, <2>3, <2>6 DEF DiscardPending
<1> QED BY <1>3, <1>4

\* Steps that only change one manager's memory, and possibly the unlock file or
\* the exported secrets, keep the invariant.
LEMMA LocalStep ==
  ASSUME IInv, NEW m \in Managers, NEW rec \in AuthorityManager,
         am' = [am EXCEPT ![m] = rec],
         UNCHANGED <<now, keys, store, ledger, exported>>,
         unlocks' \in [present: BOOLEAN, secrets: SecretMap]
  PROVE  IInv'
<1>1. am' \in [Managers -> AuthorityManager]
  BY DEF IInv, AuthTypeOK
<1> QED BY <1>1 DEF IInv, AuthTypeOK, StoreInv, Consistent

LEMMA PromoteLocalInv ==
  ASSUME IInv, NEW m \in Managers, PromoteReload(m) \/ PromoteReadUnlocks(m)
  PROVE  IInv'
<1>1. /\ am \in [Managers -> AuthorityManager] /\ am[m] \in AuthorityManager
      /\ unlocks \in [present: BOOLEAN, secrets: SecretMap]
      /\ store.activeRoot \in 0..MaxGeneration
  BY DEF IInv, AuthTypeOK, authorityState
<1>2. Idle(am[m]) \in AuthorityManager /\ NoSecrets \in SecretMap
  BY <1>1, ManagerTypes, StateConstants
<1>3. CASE PromoteReload(m)
  <2> DEFINE rec == IF Provisioned(store)
                    THEN [am[m] EXCEPT !.pc = "promoted2", !.gen = store.activeRoot]
                    ELSE Idle(am[m])
  <2>1. rec \in AuthorityManager
    BY <1>1, <1>2 DEF AuthorityManager, ManagerPCs
  <2>2. am' = [am EXCEPT ![m] = rec] /\ UNCHANGED <<now, keys, store, ledger, unlocks, exported>>
    BY <1>3 DEF PromoteReload
  <2> HIDE DEF rec
  <2> QED BY <1>1, <2>1, <2>2, LocalStep
<1>4. CASE PromoteReadUnlocks(m)
  <2>1. am[m].gen \in 0..MaxGeneration /\ am[m].generated \in SecretMap /\ am[m].secret \in Nat
    BY <1>1, ManagerTypes, StateConstants
  <2>2. Idle(Forget(am[m], am[m].gen)) \in AuthorityManager
    BY <1>1, <2>1, ManagerTypes, StateConstants
  <2> DEFINE values == [NoSecrets EXCEPT ![am[m].gen] = KeptSecret(m)]
             rewrite == [am[m] EXCEPT !.pc = "rewrite", !.replace = TRUE, !.after = "forget",
                                      !.values = values]
  <2>3. values \in SecretMap
    <3>1. CASE am[m].gen \in Gens
      <4>1. KeptSecret(m) \in Nat
        BY <3>1, <2>1, FileSecretType DEF KeptSecret, SecretMap
      <4> QED BY <4>1, <1>2 DEF SecretMap
    <3>2. CASE am[m].gen \notin Gens
      BY <3>2, <1>2 DEF SecretMap
    <3> QED BY <3>1, <3>2
  <2>4. am' = [am EXCEPT ![m] = IF unlocks.present /\ KeptSecret(m) # 0
                                THEN rewrite ELSE Idle(Forget(am[m], am[m].gen))]
        /\ UNCHANGED <<now, keys, store, ledger, unlocks, exported>>
    BY <1>4 DEF PromoteReadUnlocks
  <2> HIDE DEF values
  <2>5. rewrite \in AuthorityManager
    BY <1>1, <2>3 DEF AuthorityManager, ManagerPCs
  <2> HIDE DEF rewrite
  <2> QED BY <1>1, <2>2, <2>4, <2>5, LocalStep
<1> QED BY <1>3, <1>4

LEMMA UnlockLocalInv ==
  ASSUME IInv, NEW m \in Managers,
         DiscardReadUnlocks(m) \/ StoreLocalUnlock(m) \/ StoreReadUnlocks(m) \/ StoreUnlocks(m)
  PROVE  IInv'
<1>1. /\ am \in [Managers -> AuthorityManager] /\ am[m] \in AuthorityManager
      /\ unlocks \in [present: BOOLEAN, secrets: SecretMap]
      /\ unlocks.secrets \in SecretMap
      /\ store.activeRoot \in 0..MaxGeneration
      /\ store.pending.root \in 0..MaxGeneration
  BY DEF IInv, AuthTypeOK, authorityState, pendingManifest
<1>2. /\ Idle(am[m]) \in AuthorityManager
      /\ am[m].gen \in 0..MaxGeneration
      /\ am[m].values \in SecretMap
      /\ am[m].generated \in SecretMap
      /\ am[m].rootUnlock \in Nat
  BY <1>1, ManagerTypes, StateConstants
<1>3. CASE DiscardReadUnlocks(m)
  <2> DEFINE values == [g \in Gens |-> IF g = am[m].gen THEN 0 ELSE unlocks.secrets[g]]
             rewrite == [am[m] EXCEPT !.pc = "rewrite", !.replace = TRUE, !.values = values]
  <2>1. am' = [am EXCEPT ![m] = IF unlocks.present THEN rewrite ELSE Idle(am[m])]
        /\ UNCHANGED <<now, keys, store, ledger, unlocks, exported>>
    BY <1>3 DEF DiscardReadUnlocks
  <2>2. values \in SecretMap
    BY <1>1 DEF SecretMap
  <2> HIDE DEF values
  <2>3. rewrite \in AuthorityManager
    BY <1>1, <2>2 DEF AuthorityManager, ManagerPCs
  <2> HIDE DEF rewrite
  <2> QED BY <1>1, <1>2, <2>1, <2>3, LocalStep
<1>4. CASE StoreLocalUnlock(m)
  <2>1. PICK replace \in BOOLEAN :
          am' = [am EXCEPT ![m].pc = "storing",
                          ![m].gen = store.activeRoot,
                          ![m].pend = store.pending.root,
                          ![m].replace = replace]
    BY <1>4 DEF StoreLocalUnlock
  <2> DEFINE rec == [am[m] EXCEPT !.pc = "storing", !.gen = store.activeRoot,
                                  !.pend = store.pending.root, !.replace = replace]
  <2>2. am' = [am EXCEPT ![m] = rec]
    BY <2>1, <1>1
  <2>3. rec \in AuthorityManager
    BY <1>1 DEF AuthorityManager, ManagerPCs
  <2>4. UNCHANGED <<now, keys, store, ledger, unlocks, exported>>
    BY <1>4 DEF StoreLocalUnlock
  <2> HIDE DEF rec
  <2> QED BY <1>1, <2>2, <2>3, <2>4, LocalStep
<1>5. CASE StoreReadUnlocks(m)
  <2> DEFINE rewrite == [am[m] EXCEPT !.pc = "rewrite", !.values = StoredValues(m)]
  <2>1. am' = [am EXCEPT ![m] = IF \A g \in Required(m) : StoredValues(m)[g] # 0
                                THEN rewrite ELSE Idle(am[m])]
        /\ UNCHANGED <<now, keys, store, ledger, unlocks, exported>>
    BY <1>5 DEF StoreReadUnlocks
  <2>2. StoredValues(m) \in SecretMap
    BY <1>2, FileSecretType DEF StoredValues, SecretMap
  <2>3. rewrite \in AuthorityManager
    BY <1>1, <2>2 DEF AuthorityManager, ManagerPCs
  <2> HIDE DEF rewrite
  <2> QED BY <1>1, <1>2, <2>1, <2>3, LocalStep
<1>6. CASE StoreUnlocks(m)
  <2>1. Forget(am[m], am[m].gen) \in AuthorityManager
    BY <1>1, <1>2, ManagerTypes, StateConstants
  <2>2. Idle(Forget(am[m], am[m].gen)) \in AuthorityManager
    BY <2>1, ManagerTypes, StateConstants
  <2>3. UNCHANGED <<now, keys, store, ledger, exported>>
    BY <1>6 DEF StoreUnlocks
  <2> DEFINE rec == Idle(IF am[m].after = "forget" THEN Forget(am[m], am[m].gen) ELSE am[m])
  <2>4. rec \in AuthorityManager
    BY <1>2, <2>2
  <2>5. \/ /\ unlocks' = [present |-> TRUE, secrets |-> am[m].values]
           /\ am' = [am EXCEPT ![m] = rec]
        \/ /\ unlocks' = unlocks
           /\ am' = [am EXCEPT ![m] = Idle(am[m])]
    BY <1>6 DEF StoreUnlocks
  <2> HIDE DEF rec
  <2>6. unlocks' \in [present: BOOLEAN, secrets: SecretMap]
    <3>1. [present |-> TRUE, secrets |-> am[m].values] \in [present: BOOLEAN, secrets: SecretMap]
      BY <1>2
    <3> QED BY <1>1, <3>1, <2>5
  <2> QED BY <1>2, <2>3, <2>4, <2>5, <2>6, LocalStep
<1> QED BY <1>3, <1>4, <1>5, <1>6

LEMMA OtherInv ==
  ASSUME IInv, NEW m \in Managers,
         \/ ExportGeneratedUnlock(m) \/ PruneRoot(m) \/ Purge(m) \/ PurgeStore(m)
         \/ Close(m) \/ Restart(m)
  PROVE  IInv'
<1>1. /\ am \in [Managers -> AuthorityManager] /\ am[m] \in AuthorityManager
      /\ unlocks \in [present: BOOLEAN, secrets: SecretMap]
      /\ exported \subseteq Nat /\ store \in authorityState
  BY DEF IInv, AuthTypeOK
<1>2. /\ Idle(am[m]) \in AuthorityManager /\ NoSecrets \in SecretMap
      /\ am[m].generated \in SecretMap
  BY <1>1, ManagerTypes, StateConstants
<1>3. CASE ExportGeneratedUnlock(m)
  <2>1. Provisioned(store)
    BY <1>3 DEF ExportGeneratedUnlock
  <2>2. PendingRoot(store) => store.pending.root \in Gens
    BY <2>1, ProvisionedFacts, StateConstants DEF Consistent, PendingIsNew, Gens
  <2> DEFINE g == IF PendingRoot(store) THEN store.pending.root ELSE store.activeRoot
  <2>3. g \in Gens
    BY <2>1, <2>2, ProvisionedFacts
  <2>4. /\ exported' = exported \cup {am[m].generated[g]}
        /\ UNCHANGED <<now, keys, store, ledger, unlocks, am>>
    BY <1>3 DEF ExportGeneratedUnlock
  <2> HIDE DEF g
  <2>5. exported' \subseteq Nat
    BY <1>1, <1>2, <2>3, <2>4 DEF SecretMap
  <2> QED BY <2>4, <2>5 DEF IInv, AuthTypeOK, StoreInv, Consistent
<1>4. CASE PruneRoot(m)
  <2>1. PICK g \in Gens : \E w \in WriteOutcomes : store' = Persisted(prune(store, g), w)
    BY <1>4 DEF PruneRoot
  <2>2. Consistent(store) /\ UNCHANGED <<now, keys, ledger, unlocks, exported, am>>
    BY <1>4, ProvisionedFacts DEF PruneRoot
  <2>3. store' \in authorityState /\ StoreInv'
    BY <1>1, <2>1, <2>2, PruneType, PruneConsistent, PersistedInv
  <2> QED BY <2>2, <2>3 DEF IInv, AuthTypeOK
<1>5. CASE Purge(m)
  <2> DEFINE rec == [am[m] EXCEPT !.pc = "purging",
                                  !.secret = store.roots[store.activeRoot].kid]
  <2>1. store.roots[store.activeRoot].kid \in Nat
    BY <1>5, ProvisionedFacts DEF Purge, rootRecord
  <2>2. rec \in AuthorityManager
    BY <1>1, <2>1 DEF AuthorityManager, ManagerPCs
  <2>3. am' = [am EXCEPT ![m] = rec] /\ UNCHANGED <<now, keys, store, ledger, unlocks, exported>>
    BY <1>1, <1>5 DEF Purge
  <2> HIDE DEF rec
  <2> QED BY <1>1, <2>2, <2>3, LocalStep
<1>6. CASE PurgeStore(m)
  <2>1. /\ store' = NoAuthority /\ ledger' = {} /\ unlocks' = NoUnlocks
        /\ am' = [am EXCEPT ![m] = [Idle(am[m]) EXCEPT !.generated = NoSecrets, !.closed = TRUE]]
        /\ UNCHANGED <<now, keys, exported>>
    BY <1>6 DEF PurgeStore
  <2>2. [Idle(am[m]) EXCEPT !.generated = NoSecrets, !.closed = TRUE] \in AuthorityManager
    BY <1>2 DEF AuthorityManager
  <2>3. am' \in [Managers -> AuthorityManager]
    BY <1>1, <2>1, <2>2
  <2>4. NoUnlocks \in [present: BOOLEAN, secrets: SecretMap]
    BY <1>2 DEF NoUnlocks
  <2>5. store' \in authorityState /\ StoreInv'
    BY <2>1, NoAuthorityType DEF StoreInv, NoAuthority
  <2> QED BY <2>1, <2>3, <2>4, <2>5 DEF IInv, AuthTypeOK
<1>7. CASE Close(m)
  <2> DEFINE rec == [am[m] EXCEPT !.generated = NoSecrets, !.rootUnlock = 0, !.closed = TRUE]
  <2>1. rec \in AuthorityManager
    BY <1>1, <1>2 DEF AuthorityManager
  <2>2. am' = [am EXCEPT ![m] = rec] /\ UNCHANGED <<now, keys, store, ledger, unlocks, exported>>
    BY <1>1, <1>7 DEF Close
  <2> HIDE DEF rec
  <2> QED BY <1>1, <2>1, <2>2, LocalStep
<1>8. CASE Restart(m)
  <2>1. PICK u \in exported \cup {0}, c \in Configurations :
          am' = [am EXCEPT ![m] = NewManager(u, c)]
    BY <1>8 DEF Restart
  <2>2. NewManager(u, c) \in AuthorityManager
    BY <1>1, ManagerTypes, StateConstants, AuthorityConstants
  <2> QED BY <1>1, <1>8, <2>1, <2>2, LocalStep DEF Restart
<1> QED BY <1>3, <1>4, <1>5, <1>6, <1>7, <1>8

\* The invariant holds at the start and every step keeps it.
LEMMA InitIInv == AuthInit => IInv
<1> SUFFICES ASSUME AuthInit PROVE IInv
  OBVIOUS
<1>1. /\ \A c \in Configurations : NewManager(0, c) \in AuthorityManager
      /\ NoSecrets \in SecretMap
  BY StateConstants, AuthorityConstants
     DEF NewManager, AuthorityManager, ManagerPCs, NoSecrets, SecretMap
<1>2. NoUnlocks \in [present: BOOLEAN, secrets: SecretMap]
  BY <1>1 DEF NoUnlocks
<1>3. AuthTypeOK
  BY <1>1, <1>2, NoAuthorityType DEF AuthInit, AuthTypeOK
<1>4. StoreInv
  BY DEF AuthInit, StoreInv, NoAuthority
<1> QED BY <1>3, <1>4 DEF IInv

LEMMA NextIInv == IInv /\ [AuthNext]_authVars => IInv'
<1> SUFFICES ASSUME IInv, [AuthNext]_authVars PROVE IInv'
  OBVIOUS
<1>1. CASE Tick
  BY <1>1 DEF Tick, IInv, AuthTypeOK, StoreInv, Consistent
<1>2. ASSUME NEW m \in Managers, ManagerStep(m) PROVE IInv'
  BY <1>2, EnsureInv, PendingInv, PromoteLocalInv, UnlockLocalInv, OtherInv DEF ManagerStep
<1>3. CASE UNCHANGED authVars
  BY <1>3 DEF authVars, IInv, AuthTypeOK, StoreInv, Consistent
<1> QED BY <1>1, <1>2, <1>3 DEF AuthNext

\* The managers' memory, the unlock file and the persisted record always have
\* their types: no operation, failed write or restart leaves a generation or
\* version number out of range.
THEOREM AuthorityTypes == AuthSpec => []AuthTypeOK
<1>1. IInv => AuthTypeOK
  BY DEF IInv
<1> QED BY <1>1, InitIInv, NextIInv, PTL DEF AuthSpec

\* Every record that Ensure, PromotePending, DiscardPending and PruneRoot
\* persist passes validateState, so the store can always be loaded again.
THEOREM StoreAlwaysValid == AuthSpec => []ValidStore
<1>1. IInv => ValidStore
  BY DEF IInv, StoreInv, Consistent, ValidStore
<1> QED BY <1>1, InitIInv, NextIInv, PTL DEF AuthSpec

-----------------------------------------------------------------------------
(***************************************************************************)
(* Consistent does not say how versions and keys are numbered.  k is the   *)
(* number of key-generating operations so far: every issuer version was    *)
(* made by one of them, since the authority was provisioned; no two        *)
(* versions of one issuer share a key; and a staged version comes after    *)
(* the active one, so staging and discarding never touch a version that    *)
(* has been in use.                                                        *)
(***************************************************************************)
Numbered(s, k) ==
    /\ s.id \in 1..k
    /\ \A slug \in Slugs :
          /\ s.pending.issuers[slug] # 0 => s.issuers[slug].active < s.pending.issuers[slug]
          /\ \A v \in Versions : s.issuers[slug].versions[v].kid # 0 =>
                /\ s.id <= s.issuers[slug].versions[v].kid
                /\ s.issuers[slug].versions[v].kid <= k
          /\ \A v, w \in Versions :
                /\ s.issuers[slug].versions[v].kid # 0
                /\ s.issuers[slug].versions[v].kid = s.issuers[slug].versions[w].kid
                => v = w

\* The certificate of a version, without its private key.
SameVersion(x, y) ==
    x.kid = y.kid /\ x.parent = y.parent /\ x.root = y.root /\ x.notAfter = y.notAfter

\* Identity and every version up to the active one are as they were.
IssuersKept(s, t) ==
    /\ t.id = s.id /\ t.mode = s.mode /\ t.revision = s.revision
    /\ \A slug \in Slugs :
          /\ s.issuers[slug].active <= t.issuers[slug].active
          /\ \A v \in Versions : v <= s.issuers[slug].active =>
                SameVersion(t.issuers[slug].versions[v], s.issuers[slug].versions[v])

\* A root that exists and is not just staged.
Settled(s, g) == g \in Gens /\ s.roots[g].kid # 0 /\ g # s.pending.root

\* A settled root stays what it is, and its place in the trust bundle ends only
\* by a deadline: the one it gets when it is retired, or one that has passed.
RootsKept(s, t, records, n) ==
    \A g \in Gens : Settled(s, g) =>
        /\ Settled(t, g) /\ t.roots[g].kid = s.roots[g].kid
        /\ \/ t.roots[g].until = s.roots[g].until /\ (g = s.activeRoot => g = t.activeRoot)
           \/ g # s.activeRoot /\ s.roots[g].until <= n
           \/ g = s.activeRoot /\ IsTrustDeadline(s, records, n, t.roots[g].until)

\* The root that signs afterwards was active or staged before.
RootPublished(s, t) ==
    \/ t.activeRoot = s.activeRoot
    \/ /\ PendingRoot(s)
       /\ t.activeRoot = s.pending.root
       /\ t.roots[t.activeRoot].kid = s.roots[t.activeRoot].kid

Evolves(s, t, records, n) ==
    IssuersKept(s, t) /\ RootsKept(s, t, records, n) /\ RootPublished(s, t)

NumberedStore == Provisioned(store) => Numbered(store, keys) /\ store.revision # 0

EInv == IInv /\ NumberedStore

-----------------------------------------------------------------------------
(***************************************************************************)
(* The operators on the record.                                            *)
(***************************************************************************)

\* A provisioned authority numbers its first versions with the key that made it.
LEMMA ProvisionNumbered ==
  ASSUME NEW k \in Nat \ {0}, NEW n \in Nat, NEW configured \in SUBSET Slugs,
         NEW mode \in IssuanceModes
  PROVE  /\ Numbered(provision(k, n, configured, mode), k)
         /\ provision(k, n, configured, mode).id = k
<1> DEFINE t == provision(k, n, configured, mode)
           root == makeRoot(k, n)
<1>1. 1 \in Gens /\ root \in rootRecord
  BY StateConstants, MaterialType DEF Gens
<1>2. t.id = k /\ \A slug \in Slugs : t.pending.issuers[slug] = 0
  BY DEF provision, NoAuthority, NoPending
<1>3. /\ \A slug \in configured : t.issuers[slug] = FirstVersion(1, root, k, n)
      /\ \A slug \in Slugs \ configured : t.issuers[slug] = NoIssuer
  BY DEF provision, NoAuthority
<1>4. \A v \in Versions : NoIssuer.versions[v].kid = 0
  BY DEF NoIssuer, NoVersion
<1>5. makeIssuer(1, root, k, n).kid = k
  BY DEF makeIssuer
<1> HIDE DEF t, root
<1>6. ASSUME NEW slug \in Slugs, NEW v \in Versions, t.issuers[slug].versions[v].kid # 0
      PROVE  v = 1 /\ t.issuers[slug].versions[v].kid = k
  BY <1>1, <1>3, <1>4, <1>5, <1>6, FirstVersionFields
<1>7. Numbered(t, k)
  BY <1>2, <1>6 DEF Numbered
<1> QED BY <1>2, <1>7 DEF t

\* Added issuers get the next number; issuers that were there are untouched.
LEMMA AddIssuersNumbered ==
  ASSUME NEW s \in authorityState, Consistent(s), s.pending.kind = "none",
         NEW k \in Nat, Numbered(s, k), NEW n \in Nat, NEW configured \in SUBSET Slugs
  PROVE  LET t == addIssuers(s, configured, k + 1, n) IN
         /\ Numbered(t, IF configured \subseteq Known(s) THEN k ELSE k + 1)
         /\ IssuersKept(s, t)
<1> DEFINE t == addIssuers(s, configured, k + 1, n)
           root == s.roots[s.activeRoot]
<1>1. t.id = s.id /\ t.mode = s.mode /\ t.revision = s.revision /\ t.pending = s.pending
  BY DEF addIssuers, authorityState
<1>2. /\ \A slug \in configured \ Known(s) : t.issuers[slug] = FirstVersion(s.activeRoot, root, k + 1, n)
      /\ \A slug \in Slugs : slug \notin configured \ Known(s) => t.issuers[slug] = s.issuers[slug]
  BY DEF addIssuers, authorityState
<1>3. s.activeRoot \in Gens /\ root \in rootRecord
  BY StateConstants DEF authorityState, Gens, Consistent, validateState, RootKeysExact
<1>4. makeIssuer(s.activeRoot, root, k + 1, n).kid = k + 1
  BY DEF makeIssuer
<1> HIDE DEF t, root
<1>5. \A slug \in Slugs : s.pending.issuers[slug] = 0
  BY DEF Consistent, PendingIsNew
<1>6. ASSUME NEW slug \in configured \ Known(s)
      PROVE  /\ \A v \in Versions : t.issuers[slug].versions[v].kid # 0 =>
                   v = 1 /\ t.issuers[slug].versions[v].kid = k + 1
             /\ s.issuers[slug].active = 0
             /\ t.issuers[slug].active = 1
  BY <1>2, <1>3, <1>4, FirstVersionFields DEF Known
<1>7. \A slug \in Slugs : /\ s.issuers[slug].active \in 0..MaxVersion
                          /\ \A v \in Versions : s.issuers[slug].versions[v].kid \in Nat
  BY FieldTypes DEF issuerVersion
<1>8. IssuersKept(s, t)
  BY <1>1, <1>2, <1>6, <1>7 DEF IssuersKept, SameVersion, Versions
<1> DEFINE kk == IF configured \subseteq Known(s) THEN k ELSE k + 1
<1>9. s.id \in 1..k /\ kk \in Nat /\ k <= kk /\ t.id \in 1..kk
  BY <1>1 DEF Numbered
<1>10. ASSUME NEW slug \in Slugs
       PROVE  /\ t.pending.issuers[slug] # 0 => t.issuers[slug].active < t.pending.issuers[slug]
              /\ \A v \in Versions : t.issuers[slug].versions[v].kid # 0 =>
                    /\ t.id <= t.issuers[slug].versions[v].kid
                    /\ t.issuers[slug].versions[v].kid <= kk
              /\ \A v, w \in Versions :
                    /\ t.issuers[slug].versions[v].kid # 0
                    /\ t.issuers[slug].versions[v].kid = t.issuers[slug].versions[w].kid
                    => v = w
  <2>1. CASE slug \in configured \ Known(s)
    BY <2>1, <1>1, <1>5, <1>6, <1>9
  <2>2. CASE slug \notin configured \ Known(s)
    <3>1. t.issuers[slug] = s.issuers[slug]
      BY <2>2, <1>2
    <3> HIDE DEF kk
    <3> QED BY <3>1, <1>1, <1>5, <1>7, <1>9 DEF Numbered
  <2> QED BY <2>1, <2>2
<1>11. Numbered(t, kk)
  BY <1>9, <1>10 DEF Numbered
<1> QED BY <1>8, <1>11 DEF t

\* Staged versions get a new number and come after the active one.
LEMMA StagingNumbered ==
  ASSUME NEW s \in authorityState, Consistent(s), s.pending.kind = "none",
         NEW t \in authorityState, NEW due \in SUBSET Known(s), VersionsLeft(s, due),
         NEW j \in Nat, Numbered(s, j), NEW k \in Nat, j < k,
         NEW g \in 0..MaxGeneration, NEW root, NEW n, NEW kind, NEW h,
         t.id = s.id, t.mode = s.mode, t.revision = s.revision,
         t.issuers = stageVersions(s, due, g, root, k, n),
         t.pending = stagedManifest(s, kind, h, due)
  PROVE  Numbered(t, k) /\ IssuersKept(s, t)
<1>1. due \in SUBSET Slugs
  BY DEF Known
<1>2. ASSUME NEW slug \in Slugs
      PROVE  /\ s.issuers[slug].active \in 0..MaxVersion
             /\ t.issuers[slug].active = s.issuers[slug].active
             /\ t.pending.issuers[slug] # 0 => t.pending.issuers[slug] = s.issuers[slug].active + 1
             /\ \A v \in Versions :
                   /\ s.issuers[slug].versions[v].kid \in Nat
                   /\ t.issuers[slug].versions[v] =
                        IF slug \in due /\ v = s.issuers[slug].active + 1
                        THEN makeIssuer(g, root, k, n)
                        ELSE s.issuers[slug].versions[v]
  <2>1. /\ s.issuers[slug].active \in 0..MaxVersion
        /\ \A v \in Versions : s.issuers[slug].versions[v].kid \in Nat
    BY FieldTypes DEF issuerVersion
  <2>2. t.pending.issuers[slug] # 0 => t.pending.issuers[slug] = s.issuers[slug].active + 1
    BY DEF stagedManifest
  <2> QED BY <1>1, <2>1, <2>2, StageVersionsFields
<1>3. makeIssuer(g, root, k, n).kid = k
  BY DEF makeIssuer
<1>4. IssuersKept(s, t)
  BY <1>2 DEF IssuersKept, SameVersion, Versions
<1>5. s.id \in 1..j /\ t.id \in 1..k
  BY DEF Numbered
<1>6. ASSUME NEW slug \in Slugs
      PROVE  /\ t.pending.issuers[slug] # 0 => t.issuers[slug].active < t.pending.issuers[slug]
             /\ \A v \in Versions : t.issuers[slug].versions[v].kid # 0 =>
                   /\ t.id <= t.issuers[slug].versions[v].kid
                   /\ t.issuers[slug].versions[v].kid <= k
  BY <1>2, <1>3, <1>5 DEF Numbered
<1>7. ASSUME NEW slug \in Slugs, NEW v \in Versions, NEW w \in Versions,
             t.issuers[slug].versions[v].kid # 0,
             t.issuers[slug].versions[v].kid = t.issuers[slug].versions[w].kid
      PROVE  v = w
  <2>1. \A x \in Versions : s.issuers[slug].versions[x].kid # 0 =>
           s.issuers[slug].versions[x].kid <= j
    BY DEF Numbered
  <2>2. s.issuers[slug].versions[v].kid # 0 /\
        s.issuers[slug].versions[v].kid = s.issuers[slug].versions[w].kid => v = w
    BY DEF Numbered
  <2>3. \A x \in Versions : t.issuers[slug].versions[x].kid \in {k, s.issuers[slug].versions[x].kid}
    BY <1>2, <1>3
  <2>4. \A x \in Versions : t.issuers[slug].versions[x].kid = k => x = s.issuers[slug].active + 1
    <3> SUFFICES ASSUME NEW x \in Versions, t.issuers[slug].versions[x].kid = k,
                        x # s.issuers[slug].active + 1
                 PROVE  FALSE
      OBVIOUS
    <3>1. s.issuers[slug].versions[x].kid = k
      BY <1>2
    <3>2. k <= j
      BY <2>1, <3>1
    <3> QED BY <3>2
  <2>5. CASE t.issuers[slug].versions[v].kid = k
    BY <1>7, <2>4, <2>5
  <2>6. CASE t.issuers[slug].versions[v].kid # k
    BY <1>7, <2>2, <2>3, <2>6
  <2> QED BY <2>5, <2>6
<1> QED BY <1>4, <1>5, <1>6, <1>7 DEF Numbered

LEMMA IssuersKeptTransitive ==
  ASSUME NEW s \in authorityState, NEW r \in authorityState, NEW t \in authorityState,
         IssuersKept(s, r), IssuersKept(r, t)
  PROVE  IssuersKept(s, t)
<1>1. \A slug \in Slugs : /\ s.issuers[slug].active \in 0..MaxVersion
                          /\ r.issuers[slug].active \in 0..MaxVersion
                          /\ t.issuers[slug].active \in 0..MaxVersion
  BY FieldTypes
<1> QED BY <1>1 DEF IssuersKept, SameVersion, Versions

\* Roots are kept when only unused generations are written and the active root
\* stays.
LEMMA RootsUntouched ==
  ASSUME NEW s \in authorityState, NEW t \in authorityState, NEW records, NEW n,
         t.activeRoot = s.activeRoot,
         \A g \in Gens : s.roots[g].kid # 0 => t.roots[g] = s.roots[g] /\ g # t.pending.root
  PROVE  RootsKept(s, t, records, n) /\ RootPublished(s, t)
  BY DEF RootsKept, RootPublished, Settled

\* Promotion activates the staged material; what was in use stays, and a
\* replaced root gets the deadline d.
LEMMA PromoteEvolves ==
  ASSUME NEW s \in authorityState, Consistent(s), NEW k \in Nat, Numbered(s, k),
         NEW records, NEW n \in Nat, NEW d \in Nat, IsTrustDeadline(s, records, n, d)
  PROVE  Numbered(promote(s, d), k) /\ Evolves(s, promote(s, d), records, n)
<1> DEFINE t == promote(s, d)
<1>1. /\ t.id = s.id /\ t.mode = s.mode /\ t.revision = s.revision /\ t.pending = NoPending
      /\ t.activeRoot = IF PendingRoot(s) THEN s.pending.root ELSE s.activeRoot
      /\ \A slug \in Slugs : t.issuers[slug] =
            IF s.pending.issuers[slug] = 0 THEN s.issuers[slug]
            ELSE [active |-> s.pending.issuers[slug],
                  versions |-> [s.issuers[slug].versions EXCEPT
                                  ![s.issuers[slug].active].key = FALSE]]
      /\ t.roots = IF PendingRoot(s)
                   THEN [s.roots EXCEPT ![s.activeRoot].key = FALSE,
                                        ![s.activeRoot].until = d]
                   ELSE s.roots
  BY DEF promote, authorityState
<1> HIDE DEF t
<1>2. ASSUME NEW slug \in Slugs
      PROVE  /\ s.issuers[slug].active \in 0..MaxVersion
             /\ t.issuers[slug].active = IF s.pending.issuers[slug] = 0
                                         THEN s.issuers[slug].active
                                         ELSE s.pending.issuers[slug]
             /\ \A v \in Versions :
                   SameVersion(t.issuers[slug].versions[v], s.issuers[slug].versions[v])
  <2>1. /\ s.issuers[slug].active \in 0..MaxVersion
        /\ s.issuers[slug].versions \in [Versions -> issuerVersion]
    BY FieldTypes
  <2>2. CASE s.pending.issuers[slug] = 0
    BY <1>1, <2>1, <2>2 DEF SameVersion
  <2>3. CASE s.pending.issuers[slug] # 0
    <3> DEFINE versions == [s.issuers[slug].versions EXCEPT
                              ![s.issuers[slug].active].key = FALSE]
    <3>0. t.issuers[slug] = [active |-> s.pending.issuers[slug], versions |-> versions]
      BY <1>1, <2>3
    <3> HIDE DEF versions
    <3>1. t.issuers[slug].active = s.pending.issuers[slug] /\ t.issuers[slug].versions = versions
      BY <3>0
    <3>2. ASSUME NEW v \in Versions
          PROVE  SameVersion(t.issuers[slug].versions[v], s.issuers[slug].versions[v])
      <4>1. s.issuers[slug].versions[v] \in issuerVersion
        BY <2>1
      <4>2. t.issuers[slug].versions[v] = IF v = s.issuers[slug].active
                                          THEN [s.issuers[slug].versions[v] EXCEPT !.key = FALSE]
                                          ELSE s.issuers[slug].versions[v]
        BY <2>1, <3>1 DEF versions
      <4> QED BY <4>1, <4>2 DEF SameVersion, issuerVersion
    <3> QED BY <2>1, <2>3, <3>1, <3>2
  <2> QED BY <2>2, <2>3
<1>3. \A g \in Gens : /\ t.roots[g].kid = s.roots[g].kid
                      /\ t.roots[g].until = IF PendingRoot(s) /\ g = s.activeRoot THEN d
                                            ELSE s.roots[g].until
  BY <1>1 DEF authorityState, rootRecord
<1>4. NoPending.root = 0 /\ \A slug \in Slugs : NoPending.issuers[slug] = 0
  BY DEF NoPending
<1>5. IssuersKept(s, t)
  <2>1. ASSUME NEW slug \in Slugs PROVE s.issuers[slug].active <= t.issuers[slug].active
    <3>1. s.pending.issuers[slug] # 0 => s.issuers[slug].active < s.pending.issuers[slug]
      BY DEF Numbered
    <3> QED BY <3>1, <1>2, FieldTypes
  <2> QED BY <1>1, <1>2, <2>1 DEF IssuersKept
<1>6. RootsKept(s, t, records, n)
  <2> SUFFICES ASSUME NEW g \in Gens, Settled(s, g)
               PROVE  /\ Settled(t, g) /\ t.roots[g].kid = s.roots[g].kid
                      /\ \/ t.roots[g].until = s.roots[g].until /\ (g = s.activeRoot => g = t.activeRoot)
                         \/ g = s.activeRoot /\ IsTrustDeadline(s, records, n, t.roots[g].until)
    BY DEF RootsKept
  <2>1. Settled(t, g) /\ t.roots[g].kid = s.roots[g].kid
    BY <1>1, <1>3, <1>4 DEF Settled, Gens
  <2>2. CASE PendingRoot(s) /\ g = s.activeRoot
    BY <2>1, <2>2, <1>3
  <2>3. CASE ~(PendingRoot(s) /\ g = s.activeRoot)
    BY <2>1, <2>3, <1>1, <1>3
  <2> QED BY <2>2, <2>3
<1>7. RootPublished(s, t)
  <2>1. PendingRoot(s) => s.pending.root \in Gens
    BY StateConstants DEF Consistent, PendingIsNew, authorityState, pendingManifest, Gens
  <2> QED BY <1>1, <1>3, <2>1 DEF RootPublished
<1>8. Numbered(t, k)
  <2>1. t.id = s.id
    BY <1>1
  <2>2. \A slug \in Slugs : \A v \in Versions :
           t.issuers[slug].versions[v].kid = s.issuers[slug].versions[v].kid
    BY <1>2 DEF SameVersion
  <2>3. \A slug \in Slugs : t.pending.issuers[slug] = 0
    BY <1>1, <1>4
  <2> QED BY <2>1, <2>2, <2>3 DEF Numbered
<1> QED BY <1>5, <1>6, <1>7, <1>8 DEF Evolves, t

\* Discarding removes staged material only.
LEMMA DiscardEvolves ==
  ASSUME NEW s \in authorityState, Consistent(s), NEW k \in Nat, Numbered(s, k),
         NEW records, NEW n \in Nat
  PROVE  Numbered(discard(s), k) /\ Evolves(s, discard(s), records, n)
<1> DEFINE t == discard(s)
<1>1. /\ t.id = s.id /\ t.mode = s.mode /\ t.revision = s.revision /\ t.pending = NoPending
      /\ t.activeRoot = s.activeRoot
      /\ \A slug \in Slugs : /\ t.issuers[slug].active = s.issuers[slug].active
                             /\ \A v \in Versions : t.issuers[slug].versions[v] =
                                   IF v = s.pending.issuers[slug] THEN NoVersion
                                   ELSE s.issuers[slug].versions[v]
      /\ \A g \in Gens : t.roots[g] = IF PendingRoot(s) /\ g = s.pending.root THEN NoRoot
                                      ELSE s.roots[g]
  BY DEF discard, authorityState, issuerRecord
<1> HIDE DEF t
<1>2. /\ NoPending.root = 0 /\ \A slug \in Slugs : NoPending.issuers[slug] = 0
      /\ NoVersion.kid = 0
  BY DEF NoPending, NoVersion
<1>3. \A slug \in Slugs : s.issuers[slug].active \in 0..MaxVersion
                          /\ s.pending.issuers[slug] \in 0..MaxVersion
  BY FieldTypes
<1>4. IssuersKept(s, t)
  BY <1>1, <1>3 DEF IssuersKept, Numbered, SameVersion, Versions
<1>5. RootsKept(s, t, records, n) /\ RootPublished(s, t)
  BY <1>1, <1>2 DEF RootsKept, RootPublished, Settled, Gens
<1>6. Numbered(t, k)
  BY SMTT(30), <1>1, <1>2 DEF Numbered
<1> QED BY <1>4, <1>5, <1>6 DEF Evolves, t

\* Pruning ends the trust in a root whose deadline has passed.
LEMMA PruneEvolves ==
  ASSUME NEW s \in authorityState, NEW k \in Nat, Numbered(s, k),
         NEW records, NEW n \in Nat, NEW g \in Gens, Prunable(s, g, n)
  PROVE  Numbered(prune(s, g), k) /\ Evolves(s, prune(s, g), records, n)
<1> DEFINE t == prune(s, g)
<1>1. /\ t.id = s.id /\ t.mode = s.mode /\ t.revision = s.revision /\ t.pending = s.pending
      /\ t.activeRoot = s.activeRoot /\ t.issuers = s.issuers
      /\ \A h \in Gens : /\ t.roots[h].kid = s.roots[h].kid
                         /\ h # g => t.roots[h].until = s.roots[h].until
  BY DEF prune, authorityState, rootRecord
<1> HIDE DEF t
<1>2. \A slug \in Slugs : s.issuers[slug].active \in 0..MaxVersion
  BY FieldTypes
<1>3. IssuersKept(s, t)
  BY <1>1, <1>2 DEF IssuersKept, SameVersion
<1>4. RootsKept(s, t, records, n) /\ RootPublished(s, t)
  BY <1>1 DEF RootsKept, RootPublished, Settled, Prunable
<1>5. Numbered(t, k)
  BY <1>1 DEF Numbered
<1> QED BY <1>3, <1>4, <1>5 DEF Evolves, t
-----------------------------------------------------------------------------
(***************************************************************************)
(* The managers' steps, as far as the record is concerned.                 *)
(***************************************************************************)

\* The record and the ledger are left alone; keys and time only go forward.
QuietStep ==
    /\ UNCHANGED <<store, ledger>>
    /\ keys <= keys' /\ now <= now'

PurgeStep ==
    /\ store' = NoAuthority /\ ledger' = {}
    /\ UNCHANGED <<keys, now>>

\* The first record of an authority, or the first after a purge.
FirstStep ==
    /\ ~Provisioned(store)
    /\ keys = 0 \/ Reprovision
    /\ \E configured \in SUBSET Slugs, mode \in IssuanceModes :
          store' = Bump(provision(keys + 1, now, configured, mode))
    /\ keys' = keys + 1
    /\ UNCHANGED <<ledger, now>>

\* An update of an existing authority.
UpdateStep ==
    /\ Provisioned(store)
    /\ LedgerReadable
    /\ keys <= keys'
    /\ \E t \in authorityState :
          /\ Numbered(t, keys')
          /\ Evolves(store, t, ledger, now)
          /\ store' = Bump(t)
    /\ UNCHANGED <<ledger, now>>

\* A write of the record t is an update, or nothing when it is lost.
LEMMA PersistedStep ==
  ASSUME IInv, Provisioned(store), LedgerReadable, keys <= keys', UNCHANGED <<ledger, now>>,
         NEW t \in authorityState, Numbered(t, keys'), Evolves(store, t, ledger, now),
         NEW w, store' = Persisted(t, w)
  PROVE  QuietStep \/ UpdateStep
<1>1. CASE w = "lost"
  BY <1>1 DEF QuietStep, Persisted, IInv, AuthTypeOK
<1>2. CASE w # "lost"
  BY <1>2 DEF UpdateStep, Persisted
<1> QED BY <1>1, <1>2

\* What Ensure stages from, compared with the record it has loaded.
LEMMA ReconciledNumbered ==
  ASSUME EInv, NEW m \in Managers, EnsureReconciles(m)
  PROVE  /\ IssuersKept(store, Reconciled(m))
         /\ Numbered(Reconciled(m), StagingKey(m) - 1)
         /\ Numbered(Reconciled(m), keys + 1)
         /\ StagingKey(m) - 1 \in Nat /\ keys \in Nat /\ StagingKey(m) \in Nat
         /\ Provisioned(store) /\ LedgerReadable
         /\ store.activeRoot = Reconciled(m).activeRoot /\ store.roots = Reconciled(m).roots
         /\ store.pending.kind = "none" /\ store.pending.root = 0
<1>1. Provisioned(store) /\ LedgerReadable /\ store.pending.kind = "none"
  BY DEF EnsureReconciles, CanUpdate
<1>2. /\ IInv /\ store \in authorityState /\ Consistent(store) /\ Numbered(store, keys)
  BY <1>1, ProvisionedFacts DEF EInv, NumberedStore
<1>3. keys \in Nat /\ now \in Nat /\ am[m] \in AuthorityManager
  BY <1>2 DEF IInv, AuthTypeOK
<1>4. am[m].configured \in SUBSET Slugs
  BY <1>3 DEF AuthorityManager
<1>5. /\ IssuersKept(store, Reconciled(m))
      /\ Numbered(Reconciled(m), IF am[m].configured \subseteq Known(store) THEN keys ELSE keys + 1)
  BY <1>1, <1>2, <1>3, <1>4, AddIssuersNumbered DEF Reconciled
<1>6. StagingKey(m) - 1 = IF am[m].configured \subseteq Known(store) THEN keys ELSE keys + 1
  BY <1>3 DEF StagingKey
<1>7. ASSUME NEW s \in authorityState, NEW k \in Nat, Numbered(s, k) PROVE Numbered(s, k + 1)
  <2>1. \A slug \in Slugs : \A v \in Versions : s.issuers[slug].versions[v].kid \in Nat
    BY FieldTypes DEF issuerVersion
  <2> QED BY <1>7, <2>1 DEF Numbered
<1>8. Numbered(Reconciled(m), keys + 1)
  BY <1>2, <1>3, <1>5, <1>7, ReconciledFacts
<1>9. store.pending.root = 0
  BY <1>1, <1>2 DEF Consistent, PendingIsNew, PendingRoot
<1> QED BY <1>1, <1>2, <1>3, <1>5, <1>6, <1>8, <1>9, ReconciledFacts DEF StagingKey

LEMMA EnsureStep ==
  ASSUME EInv, NEW m \in Managers, Ensure(m)
  PROVE  QuietStep \/ FirstStep \/ UpdateStep
<1>1. IInv /\ keys \in Nat /\ now \in Nat /\ am[m] \in AuthorityManager
  BY DEF EInv, IInv, AuthTypeOK
<1>2. CASE EnsureProvision(m)
  <2>1. PICK mode \in IssuanceModes, w \in WriteOutcomes :
          store' = Persisted(provision(keys + 1, now, am[m].configured, mode), w)
    BY <1>2 DEF EnsureProvision
  <2>2. am[m].configured \in SUBSET Slugs
    BY <1>1 DEF AuthorityManager
  <2>3. /\ ~Provisioned(store) /\ (keys = 0 \/ Reprovision)
        /\ keys' = keys + 1 /\ UNCHANGED <<ledger, now>>
    BY <1>2 DEF EnsureProvision
  <2>4. CASE w = "lost"
    BY <1>1, <2>1, <2>3, <2>4 DEF QuietStep, Persisted
  <2>5. CASE w # "lost"
    BY <2>1, <2>2, <2>3, <2>5 DEF FirstStep, Persisted
  <2> QED BY <2>4, <2>5
<1>3. ASSUME NEW before \in RotateBefores, EnsureStageRoot(m, before)
      PROVE  QuietStep \/ UpdateStep
  <2>1. PICK g \in Gens, w \in WriteOutcomes :
          /\ FreeGeneration(store, g)
          /\ store' = Persisted(prepareRoot(Reconciled(m), g, StagingKey(m), now), w)
    BY <1>3 DEF EnsureStageRoot
  <2>2. /\ EnsureReconciles(m) /\ VersionsLeft(Reconciled(m), Known(Reconciled(m)))
        /\ keys' = StagingKey(m) /\ UNCHANGED <<ledger, now>>
    BY <1>3 DEF EnsureStageRoot
  <2> DEFINE r == Reconciled(m)
             t == prepareRoot(r, g, StagingKey(m), now)
  <2>3. /\ r \in authorityState /\ Consistent(r) /\ r.pending.kind = "none"
        /\ keys < StagingKey(m)
    BY <1>1, <2>2, ReconciledFacts
  <2>4. /\ IssuersKept(store, r) /\ Numbered(r, StagingKey(m) - 1)
        /\ StagingKey(m) - 1 \in Nat /\ keys \in Nat /\ StagingKey(m) \in Nat
        /\ Provisioned(store) /\ LedgerReadable
        /\ store.activeRoot = r.activeRoot /\ store.roots = r.roots
    BY <2>2, ReconciledNumbered
  <2>5. t \in authorityState
    BY <1>1, <2>2, <2>3, <2>4, PrepareRootType
  <2>6. store' = Persisted(t, w)
    BY <2>1
  <2> HIDE DEF r
  <2>7. /\ t.id = r.id /\ t.mode = r.mode /\ t.revision = r.revision
        /\ t.activeRoot = r.activeRoot
        /\ t.issuers = stageVersions(r, Known(r), g, makeRoot(StagingKey(m), now), StagingKey(m), now)
        /\ t.pending = stagedManifest(r, "root", g, Known(r))
        /\ \A h \in Gens : h # g => t.roots[h] = r.roots[h]
        /\ t.pending.root = g
    BY <2>3 DEF prepareRoot, authorityState, stagedManifest
  <2> HIDE DEF t
  <2>8. VersionsLeft(r, Known(r)) /\ g \in 0..MaxGeneration
    BY <2>2 DEF r, Gens
  <2>9. Numbered(t, StagingKey(m)) /\ IssuersKept(r, t)
    BY <2>3, <2>4, <2>5, <2>7, <2>8, StagingNumbered
  <2>10. IssuersKept(store, t)
    BY <1>1, <2>3, <2>4, <2>5, <2>9, IssuersKeptTransitive DEF IInv, AuthTypeOK
  <2>11. RootsKept(store, t, ledger, now) /\ RootPublished(store, t)
    BY <1>1, <2>1, <2>4, <2>5, <2>7, RootsUntouched DEF IInv, AuthTypeOK, FreeGeneration
  <2>12. Evolves(store, t, ledger, now) /\ keys <= keys' /\ Numbered(t, keys')
    BY <2>2, <2>3, <2>4, <2>9, <2>10, <2>11 DEF Evolves
  <2> QED BY <1>1, <2>2, <2>4, <2>5, <2>6, <2>12, PersistedStep
<1>4. ASSUME NEW before \in RotateBefores, NEW issuerBefore \in [Slugs -> RotateBefores],
             EnsureStageIssuers(m, before, issuerBefore)
      PROVE  QuietStep \/ UpdateStep
  <2> DEFINE r == Reconciled(m)
             due == issuersDue(r, issuerBefore, now)
             t == prepareIssuers(r, due, StagingKey(m), now)
  <2>1. PICK w \in WriteOutcomes : store' = Persisted(t, w)
    BY <1>4 DEF EnsureStageIssuers
  <2>2. /\ EnsureReconciles(m) /\ VersionsLeft(r, due)
        /\ keys' = StagingKey(m) /\ UNCHANGED <<ledger, now>>
    BY <1>4 DEF EnsureStageIssuers
  <2>3. /\ r \in authorityState /\ Consistent(r) /\ r.pending.kind = "none"
        /\ keys < StagingKey(m)
    BY <1>1, <2>2, ReconciledFacts
  <2>4. /\ IssuersKept(store, r) /\ Numbered(r, StagingKey(m) - 1)
        /\ StagingKey(m) - 1 \in Nat /\ keys \in Nat /\ StagingKey(m) \in Nat
        /\ Provisioned(store) /\ LedgerReadable
        /\ store.activeRoot = r.activeRoot /\ store.roots = r.roots
    BY <2>2, ReconciledNumbered
  <2> HIDE DEF r
  <2>5. due \in SUBSET Known(r) /\ due \in SUBSET Slugs
    BY DEF issuersDue, Known
  <2> HIDE DEF due
  <2>6. r.activeRoot # 0 /\ r.activeRoot \in 0..MaxGeneration
    BY <2>3 DEF Consistent, validateState, RootKeysExact, authorityState
  <2>7. t \in authorityState
    BY <1>1, <2>2, <2>3, <2>4, <2>5, <2>6, PrepareIssuersType
  <2>8. /\ t.id = r.id /\ t.mode = r.mode /\ t.revision = r.revision
        /\ t.activeRoot = r.activeRoot
        /\ t.issuers = stageVersions(r, due, r.activeRoot, r.roots[r.activeRoot], StagingKey(m), now)
        /\ t.pending = stagedManifest(r, "issuer", 0, due)
        /\ t.roots = r.roots
        /\ t.pending.root = 0
    BY <2>3 DEF prepareIssuers, authorityState, stagedManifest
  <2> HIDE DEF t
  <2>9. Numbered(t, StagingKey(m)) /\ IssuersKept(r, t)
    BY <2>2, <2>3, <2>4, <2>5, <2>6, <2>7, <2>8, StagingNumbered
  <2>10. IssuersKept(store, t)
    BY <1>1, <2>3, <2>4, <2>7, <2>9, IssuersKeptTransitive DEF IInv, AuthTypeOK
  <2>11. RootsKept(store, t, ledger, now) /\ RootPublished(store, t)
    BY <1>1, <2>4, <2>7, <2>8, RootsUntouched DEF IInv, AuthTypeOK, Gens
  <2>12. Evolves(store, t, ledger, now) /\ keys <= keys' /\ Numbered(t, keys')
    BY <2>2, <2>3, <2>4, <2>9, <2>10, <2>11 DEF Evolves
  <2> QED BY <1>1, <2>1, <2>2, <2>4, <2>7, <2>12, PersistedStep
<1>5. ASSUME NEW before \in RotateBefores, NEW issuerBefore \in [Slugs -> RotateBefores],
             EnsureAddIssuers(m, before, issuerBefore)
      PROVE  QuietStep \/ UpdateStep
  <2>1. PICK w \in WriteOutcomes : store' = Persisted(Reconciled(m), w)
    BY <1>5 DEF EnsureAddIssuers
  <2>2. EnsureReconciles(m) /\ keys' = keys + 1 /\ UNCHANGED <<ledger, now>>
    BY <1>5 DEF EnsureAddIssuers
  <2>3. Reconciled(m) \in authorityState
    BY <1>1, <2>2, ReconciledFacts
  <2>4. /\ IssuersKept(store, Reconciled(m)) /\ Numbered(Reconciled(m), keys')
        /\ Provisioned(store) /\ LedgerReadable
        /\ store.activeRoot = Reconciled(m).activeRoot /\ store.roots = Reconciled(m).roots
        /\ Reconciled(m).pending.root = 0
    <3>1. Reconciled(m).pending.root = 0
      BY <1>1, <2>2, ReconciledFacts DEF Consistent, PendingIsNew, PendingRoot
    <3> QED BY <2>2, <3>1, ReconciledNumbered
  <2>5. RootsKept(store, Reconciled(m), ledger, now) /\ RootPublished(store, Reconciled(m))
    BY <1>1, <2>3, <2>4, RootsUntouched DEF IInv, AuthTypeOK, Gens
  <2> QED BY <1>1, <2>1, <2>2, <2>3, <2>4, <2>5, PersistedStep DEF Evolves
<1> QED BY <1>2, <1>3, <1>4, <1>5 DEF Ensure

\* Every step of the managers leaves the record alone, purges it, writes a first
\* one or updates it.
LEMMA StepKinds ==
  ASSUME EInv, [AuthNext]_authVars
  PROVE  QuietStep \/ PurgeStep \/ FirstStep \/ UpdateStep
<1>1. IInv /\ keys \in Nat /\ now \in Nat
  BY DEF EInv, IInv, AuthTypeOK
<1>2. ASSUME Provisioned(store)
      PROVE  store \in authorityState /\ Consistent(store) /\ Numbered(store, keys)
  BY <1>1, <1>2, ProvisionedFacts DEF EInv, NumberedStore
<1>3. CASE Tick \/ UNCHANGED authVars
  BY <1>1, <1>3 DEF QuietStep, Tick, authVars
<1>4. ASSUME NEW m \in Managers, ManagerStep(m)
      PROVE  QuietStep \/ PurgeStep \/ FirstStep \/ UpdateStep
  <2>1. CASE Ensure(m)
    BY <2>1, EnsureStep
  <2>2. CASE PromotePending(m)
    <3>1. PICK d \in 0..MaxTime + MaximumLeafValidity + ClockSkew, w \in WriteOutcomes :
            IsTrustDeadline(store, ledger, now, d) /\ store' = Persisted(promote(store, d), w)
      BY <2>2 DEF PromotePending
    <3>2. /\ Provisioned(store) /\ LedgerReadable /\ UNCHANGED <<keys, ledger, now>>
      BY <2>2 DEF PromotePending, CanUpdate
    <3>3. promote(store, d) \in authorityState
      BY <1>2, <3>2, PromoteType
    <3>4. Numbered(promote(store, d), keys) /\ Evolves(store, promote(store, d), ledger, now)
      BY <1>1, <1>2, <3>1, <3>2, PromoteEvolves
    <3> QED BY <1>1, <3>1, <3>2, <3>3, <3>4, PersistedStep
  <2>3. CASE DiscardPending(m)
    <3>1. PICK w \in WriteOutcomes : store' = Persisted(discard(store), w)
      BY <2>3 DEF DiscardPending
    <3>2. /\ Provisioned(store) /\ LedgerReadable /\ UNCHANGED <<keys, ledger, now>>
      BY <2>3 DEF DiscardPending, CanUpdate
    <3>3. discard(store) \in authorityState
      BY <1>2, <3>2, DiscardType
    <3>4. Numbered(discard(store), keys) /\ Evolves(store, discard(store), ledger, now)
      BY <1>1, <1>2, <3>2, DiscardEvolves
    <3> QED BY <1>1, <3>1, <3>2, <3>3, <3>4, PersistedStep
  <2>4. CASE PruneRoot(m)
    <3>1. PICK g \in Gens, w \in WriteOutcomes :
            Prunable(store, g, now) /\ store' = Persisted(prune(store, g), w)
      BY <2>4 DEF PruneRoot
    <3>2. /\ Provisioned(store) /\ LedgerReadable /\ UNCHANGED <<keys, ledger, now>>
      BY <2>4 DEF PruneRoot, CanUpdate
    <3>3. prune(store, g) \in authorityState
      BY <1>2, <3>2, PruneType
    <3>4. Numbered(prune(store, g), keys) /\ Evolves(store, prune(store, g), ledger, now)
      BY <1>1, <1>2, <3>1, <3>2, PruneEvolves
    <3> QED BY <1>1, <3>1, <3>2, <3>3, <3>4, PersistedStep
  <2>5. CASE PurgeStore(m)
    BY <2>5 DEF PurgeStore, PurgeStep
  <2>6. CASE \/ PromoteReload(m) \/ PromoteReadUnlocks(m) \/ DiscardReadUnlocks(m)
             \/ StoreLocalUnlock(m) \/ StoreReadUnlocks(m) \/ StoreUnlocks(m)
             \/ ExportGeneratedUnlock(m) \/ Purge(m) \/ Close(m) \/ Restart(m)
    <3>1. UNCHANGED <<store, ledger, keys, now>>
      BY <2>6 DEF PromoteReload, PromoteReadUnlocks, DiscardReadUnlocks, StoreLocalUnlock,
         StoreReadUnlocks, StoreUnlocks, ExportGeneratedUnlock, Purge, Close, Restart
    <3> QED BY <1>1, <3>1 DEF QuietStep
  <2> QED BY <1>4, <2>1, <2>2, <2>3, <2>4, <2>5, <2>6 DEF ManagerStep
<1> QED BY <1>3, <1>4 DEF AuthNext

LEMMA NoneProvisioned == ~Provisioned(NoAuthority)
  BY DEF NoAuthority, Provisioned

\* The numbering holds at the start and every step keeps it.
LEMMA InitEInv == AuthInit => EInv
  BY InitIInv, NoneProvisioned DEF AuthInit, EInv, NumberedStore

LEMMA NextEInv == EInv /\ [AuthNext]_authVars => EInv'
<1> SUFFICES ASSUME EInv, [AuthNext]_authVars PROVE EInv'
  OBVIOUS
<1>1. IInv' /\ IInv /\ keys \in Nat /\ keys' \in Nat /\ now \in Nat
  BY NextIInv DEF EInv, IInv, AuthTypeOK
<1>2. ASSUME NEW t \in authorityState, Numbered(t, keys'), store' = Bump(t)
      PROVE  NumberedStore'
  <2>1. /\ store'.id = t.id /\ store'.issuers = t.issuers /\ store'.pending = t.pending
        /\ store'.revision = t.revision + 1 /\ t.revision \in Nat
    BY <1>2 DEF Bump, authorityState
  <2> QED BY <1>2, <2>1 DEF NumberedStore, Numbered
<1>3. CASE QuietStep
  <2>1. store \in authorityState
    BY <1>1 DEF IInv, AuthTypeOK
  <2>2. \A slug \in Slugs : \A v \in Versions : store.issuers[slug].versions[v].kid \in Nat
    BY <2>1, FieldTypes DEF issuerVersion
  <2> QED BY <1>1, <1>3, <2>2 DEF QuietStep, EInv, NumberedStore, Numbered
<1>4. CASE PurgeStep
  BY <1>1, <1>4, NoneProvisioned DEF PurgeStep, EInv, NumberedStore
<1>5. CASE FirstStep
  <2>1. PICK configured \in SUBSET Slugs, mode \in IssuanceModes :
          store' = Bump(provision(keys + 1, now, configured, mode))
    BY <1>5 DEF FirstStep
  <2>2. provision(keys + 1, now, configured, mode) \in authorityState
    BY <1>1, ProvisionType
  <2>3. Numbered(provision(keys + 1, now, configured, mode), keys')
    BY <1>1, <1>5, ProvisionNumbered DEF FirstStep
  <2> QED BY <1>1, <1>2, <2>1, <2>2, <2>3 DEF EInv
<1>6. CASE UpdateStep
  BY <1>1, <1>2, <1>6 DEF UpdateStep, EInv
<1> QED BY <1>3, <1>4, <1>5, <1>6, StepKinds

\* A root signs only after it was in the trust bundle: no operation, failed
\* write or restart of any number of managers makes a root active that callers
\* could not have distributed before.
THEOREM RootPublishedFirst == AuthSpec => PublishedBeforeActive
<1>1. ASSUME EInv, [AuthNext]_authVars, Provisioned(store), Provisioned(store'), store' # store
      PROVE  \E g \in buildTrustBundle(store, now) :
                store.roots[g].kid = store'.roots[store'.activeRoot].kid
  <2>1. UpdateStep
    BY <1>1, StepKinds, NoneProvisioned DEF QuietStep, PurgeStep, FirstStep
  <2>2. PICK t \in authorityState : Evolves(store, t, ledger, now) /\ store' = Bump(t)
    BY <2>1 DEF UpdateStep
  <2>3. store'.roots = t.roots /\ store'.activeRoot = t.activeRoot
    BY <2>2 DEF Bump, authorityState
  <2>4. /\ store \in authorityState /\ Consistent(store) /\ store.activeRoot \in Gens
        /\ store.roots[store.activeRoot].kid # 0
    BY <1>1, ProvisionedFacts DEF EInv, Consistent, validateState, RootKeysExact
  <2>5. Settled(store, store.activeRoot)
    BY <2>4, StateConstants DEF Settled, Consistent, PendingIsNew, Gens
  <2>6. CASE t.activeRoot = store.activeRoot
    BY <2>2, <2>3, <2>4, <2>5, <2>6 DEF Evolves, RootsKept, buildTrustBundle
  <2>7. CASE /\ PendingRoot(store) /\ t.activeRoot = store.pending.root
             /\ t.roots[t.activeRoot].kid = store.roots[t.activeRoot].kid
    <3>1. store.pending.root \in Gens /\ store.roots[store.pending.root].kid # 0
      <4>1. store.pending.root \in 0..MaxGeneration
        BY <2>4 DEF authorityState, pendingManifest
      <4> QED BY <2>4, <2>7, <4>1, StateConstants
              DEF Consistent, validateState, PendingComplete, PendingRoot, Gens
    <3> QED BY <2>3, <2>7, <3>1 DEF buildTrustBundle
  <2> QED BY <2>2, <2>6, <2>7 DEF Evolves, RootPublished
<1>2. EInv /\ [AuthNext]_authVars =>
        [Provisioned(store) /\ Provisioned(store') =>
           \E g \in buildTrustBundle(store, now) :
              store.roots[g].kid = store'.roots[store'.activeRoot].kid]_store
  BY <1>1
<1> QED BY <1>2, InitEInv, NextEInv, PTL DEF AuthSpec, PublishedBeforeActive

-----------------------------------------------------------------------------
(***************************************************************************)
(* The unlock secrets of Authority: what a manager generated stays in its  *)
(* memory while the root it opens is in use, whatever the other managers   *)
(* do, and what the local unlock file has stays there when one manager     *)
(* works on the store.  (With several managers it does not: no lock        *)
(* protects the file.)                                                     *)
(***************************************************************************)

(***************************************************************************)
(* The inductive invariant for any number of managers.  Roots and secrets  *)
(* carry the number of the operation that generated them, so a secret      *)
(* opens at most the root it was generated with, under the same            *)
(* generation.  A manager that has promoted something opens only the       *)
(* active root: it could not stage another meanwhile (m.mu), and roots     *)
(* that others stage have secrets of their own.                            *)
(***************************************************************************)
RootsNumbered ==
    /\ ~Provisioned(store) => store = NoAuthority
    /\ \A g \in Gens : /\ store.roots[g].kid <= keys
                       /\ store.roots[g].key => store.roots[g].kid # 0

SecretsNumbered ==
    \A m \in Managers : \A h \in Gens :
        /\ am[m].generated[h] <= keys
        /\ \A g \in Gens :
              am[m].generated[h] # 0 /\ store.roots[g].kid = am[m].generated[h] => g = h

\* The manager's secret of generation g opens a root in use.
Opens(m, g) ==
    am[m].generated[g] # 0 /\ store.roots[g].key /\ store.roots[g].kid = am[m].generated[g]

\* The last steps of PromotePending, after the state was reloaded.
Forgetting(m) == am[m].pc = "promoted2" \/ (am[m].pc = "rewrite" /\ am[m].after = "forget")

OpensActive(m) ==
    /\ am[m].after = "forget" => am[m].pc = "rewrite"
    /\ am[m].pc = "promoted" => \A g \in Gens : Opens(m, g) => g = store.activeRoot
    /\ Forgetting(m) => \A g \in Gens : Opens(m, g) => g = am[m].gen

GInv == RootsNumbered /\ SecretsNumbered /\ \A m \in Managers : OpensActive(m)

(***************************************************************************)
(* With one manager: what it generated is right wherever there is a root;  *)
(* from the update of PromotePending to its end there is no pending root   *)
(* and what it remembers is the active root; a discarded root is gone; and *)
(* an unlock map that is about to be written has every right secret that   *)
(* the file has.                                                           *)
(***************************************************************************)
OwnSecrets(m) ==
    \A g \in Gens : store.roots[g].kid # 0 /\ am[m].generated[g] # 0 =>
        am[m].generated[g] = store.roots[g].kid
PromotedAlone(m) ==
    /\ am[m].pc = "promoted" \/ Forgetting(m) => Provisioned(store) /\ ~PendingRoot(store)
    /\ Forgetting(m) => am[m].gen = store.activeRoot
    /\ am[m].pc \in {"promoted", "promoted2"} =>
          am[m].secret \in {0, store.roots[store.activeRoot].kid}
DiscardedGone(m) ==
    am[m].pc = "discarded" /\ am[m].gen # 0 => store.roots[am[m].gen].kid = 0
FileRight(g) ==
    unlocks.present /\ store.roots[g].key /\ unlocks.secrets[g] = store.roots[g].kid
RewriteKeeps(m) ==
    am[m].pc = "rewrite" =>
        \A g \in Gens : FileRight(g) => am[m].values[g] = store.roots[g].kid

SecretsInv(m) == OwnSecrets(m) /\ PromotedAlone(m) /\ DiscardedGone(m) /\ RewriteKeeps(m)

-----------------------------------------------------------------------------
(***************************************************************************)
(* The roots of the record.  A step makes at most one root, of generation  *)
(* n (0: none), with the next number; the others stay or go, and none gets *)
(* a private key back.                                                     *)
(***************************************************************************)
RootsStep(n) ==
    /\ keys <= keys'
    /\ n # 0 => keys < keys' /\ store'.roots[n].kid = keys'
    /\ \A g \in Gens \ {n} :
          \/ store'.roots[g].kid = 0 /\ ~store'.roots[g].key
          \/ /\ store'.roots[g].kid = store.roots[g].kid
             /\ store'.roots[g].key => store.roots[g].key
    /\ \A g \in Gens \ {n} : store'.roots[g].key /\ g = store.activeRoot => g = store'.activeRoot
    /\ ~Provisioned(store') => store' = NoAuthority

LEMMA ZeroGeneration == 0 \in 0..MaxGeneration
  BY StateConstants

LEMMA NoAuthorityRoots ==
  /\ \A g \in Gens : NoAuthority.roots[g].kid = 0 /\ ~NoAuthority.roots[g].key
  /\ ~Provisioned(NoAuthority)
  BY DEF NoAuthority, NoRoot, Provisioned

LEMMA RootTypes ==
  ASSUME IInv, NEW g \in Gens
  PROVE  store.roots[g].kid \in Nat /\ store.roots[g].key \in BOOLEAN /\ keys \in Nat
  BY DEF IInv, AuthTypeOK, authorityState, rootRecord

LEMMA MemoryTypes ==
  ASSUME IInv, NEW m \in Managers
  PROVE  /\ am \in [Managers -> AuthorityManager] /\ am[m] \in AuthorityManager
         /\ am[m].generated \in [Gens -> Nat] /\ am[m].values \in [Gens -> Nat]
         /\ \A g \in Gens : am[m].generated[g] \in Nat
         /\ am[m].gen \in 0..MaxGeneration
<1>1. am \in [Managers -> AuthorityManager] /\ am[m] \in AuthorityManager
  BY DEF IInv, AuthTypeOK
<1>2. /\ am[m].generated \in SecretMap /\ am[m].values \in SecretMap
      /\ am[m].gen \in 0..MaxGeneration
  BY <1>1 DEF AuthorityManager
<1> QED BY <1>1, <1>2 DEF SecretMap

LEMMA SameStore ==
  ASSUME IInv, RootsNumbered, store' = store, keys' \in Nat, keys <= keys'
  PROVE  RootsStep(0)
<1>1. \A g \in Gens : store.roots[g].key \in BOOLEAN
  BY RootTypes
<1> QED BY <1>1 DEF RootsStep, RootsNumbered

\* Bump changes the revision only.
LEMMA BumpFields ==
  ASSUME NEW s \in authorityState
  PROVE  /\ Bump(s).roots = s.roots /\ Bump(s).activeRoot = s.activeRoot
         /\ Bump(s).id = s.id /\ Bump(s).pending = s.pending
  BY DEF Bump, authorityState

\* Updates that write no root.
LEMMA SameRoots ==
  ASSUME IInv, Provisioned(store), RootsNumbered, NEW t \in authorityState, NEW w,
         store' = Persisted(t, w), t.id = store.id, t.activeRoot = store.activeRoot,
         \A g \in Gens : t.roots[g].kid = store.roots[g].kid /\ t.roots[g].key = store.roots[g].key,
         keys' \in Nat, keys <= keys'
  PROVE  RootsStep(0)
<1>1. CASE w = "lost"
  <2>1. store' = store
    BY <1>1 DEF Persisted
  <2> QED BY <2>1, SameStore
<1>2. CASE w # "lost"
  <2>1. store'.roots = t.roots /\ store'.activeRoot = t.activeRoot /\ store'.id = t.id
    BY <1>2, BumpFields DEF Persisted
  <2>2. Provisioned(store')
    BY <2>1 DEF Provisioned
  <2> QED BY <2>1, <2>2 DEF RootsStep
<1> QED BY <1>1, <1>2

LEMMA ProvisionRoots ==
  ASSUME IInv, RootsNumbered, NEW m \in Managers, EnsureProvision(m)
  PROVE  (RootsStep(0) /\ store' = store) \/ RootsStep(1)
<1>1. /\ ~Provisioned(store) /\ keys' = keys + 1 /\ keys \in Nat /\ now \in Nat
      /\ am[m].configured \in SUBSET Slugs
  <2>1. am[m] \in AuthorityManager
    BY MemoryTypes
  <2>2. am[m].configured \in SUBSET Slugs
    BY <2>1 DEF AuthorityManager
  <2> QED BY <2>2 DEF EnsureProvision, IInv, AuthTypeOK
<1>2. PICK mode \in IssuanceModes, w \in WriteOutcomes :
        store' = Persisted(provision(keys + 1, now, am[m].configured, mode), w)
  BY DEF EnsureProvision
<1>3. CASE w = "lost"
  <2>1. store' = store
    BY <1>2, <1>3 DEF Persisted
  <2> QED BY <1>1, <2>1, SameStore
<1>4. CASE w # "lost"
  <2> DEFINE t == provision(keys + 1, now, am[m].configured, mode)
  <2>1. t \in authorityState /\ keys + 1 \in Nat \ {0} /\ 1 \in Gens
    BY <1>1, ProvisionType, StateConstants DEF Gens
  <2>2. /\ t.id = keys + 1 /\ t.roots[1].kid = keys + 1
        /\ \A g \in Gens \ {1} : t.roots[g] = NoRoot
    BY <2>1 DEF provision, NoAuthority, makeRoot
  <2>3. store' = Bump(t)
    BY <1>2, <1>4 DEF Persisted
  <2> HIDE DEF t
  <2>4. store'.id = keys + 1 /\ store'.roots = t.roots
    BY <2>1, <2>2, <2>3, BumpFields
  <2>5. Provisioned(store')
    BY <1>1, <2>4 DEF Provisioned
  <2>6. \A g \in Gens \ {1} : store'.roots[g].kid = 0 /\ ~store'.roots[g].key
    BY <2>2, <2>4 DEF NoRoot
  <2>7. RootsStep(1)
    BY <1>1, <2>2, <2>4, <2>5, <2>6 DEF RootsStep
  <2> QED BY <2>7
<1> QED BY <1>3, <1>4

LEMMA StageRoots ==
  ASSUME IInv, RootsNumbered, NEW m \in Managers, NEW before, EnsureReconciles(m),
         NEW g \in Gens, FreeGeneration(store, g), VersionsLeft(Reconciled(m), Known(Reconciled(m))),
         NEW w, store' = Persisted(prepareRoot(Reconciled(m), g, StagingKey(m), now), w),
         keys' = StagingKey(m)
  PROVE  (RootsStep(0) /\ store' = store) \/ RootsStep(g)
<1> DEFINE s == Reconciled(m)
           t == prepareRoot(s, g, StagingKey(m), now)
<1>1. /\ s \in authorityState /\ s.activeRoot = store.activeRoot /\ s.roots = store.roots
      /\ StagingKey(m) \in Nat \ {0} /\ keys < StagingKey(m) /\ now \in Nat
  BY ReconciledFacts
<1>2. store \in authorityState /\ Provisioned(store) /\ keys \in Nat
  BY DEF IInv, AuthTypeOK, EnsureReconciles
<1>3. s.id = store.id
  BY <1>2 DEF Reconciled, addIssuers, authorityState
<1> HIDE DEF s
<1>4. t \in authorityState
  BY <1>1, PrepareRootType DEF s
<1>5. /\ t.id = s.id /\ t.activeRoot = s.activeRoot
      /\ t.roots = [s.roots EXCEPT ![g] = makeRoot(StagingKey(m), now)]
  BY <1>1 DEF prepareRoot, authorityState
<1>6. store' = Persisted(t, w)
  BY DEF s
<1> HIDE DEF t
<1>7. CASE w = "lost"
  <2>1. store' = store
    BY <1>6, <1>7 DEF Persisted
  <2> QED BY <1>1, <1>2, <2>1, SameStore
<1>8. CASE w # "lost"
  <2>1. store'.roots = t.roots /\ store'.activeRoot = t.activeRoot /\ store'.id = t.id
    BY <1>4, <1>6, <1>8, BumpFields DEF Persisted
  <2>2. store.roots \in [Gens -> rootRecord]
    BY <1>2 DEF authorityState
  <2>3. /\ t.roots[g].kid = StagingKey(m)
        /\ \A h \in Gens \ {g} : t.roots[h] = store.roots[h]
    BY <1>1, <1>5, <2>2 DEF makeRoot
  <2>4. Provisioned(store')
    BY <1>2, <1>3, <1>5, <2>1 DEF Provisioned
  <2>5. \A h \in Gens : store.roots[h].key \in BOOLEAN
    BY RootTypes
  <2>6. keys < keys' /\ keys <= keys' /\ store'.roots[g].kid = keys'
    BY <1>1, <1>2, <2>1, <2>3
  <2>7. \A h \in Gens \ {g} : store'.roots[h] = store.roots[h]
    BY <2>1, <2>3
  <2>8. store'.activeRoot = store.activeRoot
    BY <1>1, <1>5, <2>1
  <2>9. RootsStep(g)
    BY <2>4, <2>5, <2>6, <2>7, <2>8 DEF RootsStep
  <2> QED BY <2>9
<1> QED BY <1>7, <1>8

LEMMA AddAndStageIssuersRoots ==
  ASSUME IInv, RootsNumbered, NEW m \in Managers, NEW before, NEW issuerBefore,
         EnsureStageIssuers(m, before, issuerBefore) \/ EnsureAddIssuers(m, before, issuerBefore)
  PROVE  RootsStep(0)
<1> DEFINE s == Reconciled(m)
<1>1. EnsureReconciles(m)
  BY DEF EnsureStageIssuers, EnsureAddIssuers
<1>2. /\ s \in authorityState /\ s.activeRoot = store.activeRoot /\ s.roots = store.roots
      /\ StagingKey(m) \in Nat \ {0} /\ keys < StagingKey(m) /\ now \in Nat
      /\ Consistent(s) /\ s.activeRoot # 0
  BY <1>1, ReconciledFacts, ProvisionedFacts, StateConstants DEF EnsureReconciles, Gens
<1>3. store \in authorityState /\ Provisioned(store) /\ keys \in Nat
  BY <1>1 DEF IInv, AuthTypeOK, EnsureReconciles
<1>4. s.id = store.id
  BY <1>3 DEF Reconciled, addIssuers, authorityState
<1>5. CASE EnsureStageIssuers(m, before, issuerBefore)
  <2> DEFINE due == issuersDue(s, issuerBefore, now)
             t == prepareIssuers(s, due, StagingKey(m), now)
  <2>1. VersionsLeft(s, due) /\ keys' = StagingKey(m)
    BY <1>5 DEF EnsureStageIssuers
  <2>2. PICK w \in WriteOutcomes : store' = Persisted(t, w)
    BY <1>5 DEF EnsureStageIssuers
  <2>3. due \in SUBSET Slugs
    BY DEF issuersDue, Known
  <2> HIDE DEF s, due
  <2>4. t \in authorityState
    BY <1>2, <2>1, <2>3, PrepareIssuersType
  <2>5. t.id = s.id /\ t.activeRoot = s.activeRoot /\ t.roots = s.roots
    BY <1>2 DEF prepareIssuers, authorityState
  <2> HIDE DEF t
  <2>6. keys' \in Nat /\ keys <= keys'
    BY <1>2, <1>3, <2>1
  <2> QED BY <1>2, <1>3, <1>4, <2>2, <2>4, <2>5, <2>6, SameRoots
<1>6. CASE EnsureAddIssuers(m, before, issuerBefore)
  <2>1. keys' \in Nat /\ keys <= keys'
    BY <1>3, <1>6 DEF EnsureAddIssuers
  <2>2. PICK w \in WriteOutcomes : store' = Persisted(s, w)
    BY <1>6 DEF EnsureAddIssuers
  <2> HIDE DEF s
  <2> QED BY <1>2, <1>3, <1>4, <2>1, <2>2, SameRoots
<1> QED BY <1>5, <1>6

\* The roots after a promotion: only the active one has its private key.
LEMMA PromoteRoots ==
  ASSUME IInv, RootsNumbered, Provisioned(store), store.pending.kind # "none",
         NEW d \in Nat, NEW w, store' = Persisted(promote(store, d), w), keys' = keys
  PROVE  /\ RootsStep(0)
         /\ \A g \in Gens : store'.roots[g].kid = store.roots[g].kid
         /\ w # "lost" =>
               /\ Provisioned(store') /\ ~PendingRoot(store')
               /\ \A g \in Gens : store'.roots[g].key => g = store'.activeRoot
               /\ store'.activeRoot = IF PendingRoot(store) THEN store.pending.root ELSE store.activeRoot
<1> DEFINE t == promote(store, d)
<1>1. /\ store \in authorityState /\ Consistent(store) /\ keys \in Nat /\ store.activeRoot \in Gens
  BY ProvisionedFacts DEF IInv, AuthTypeOK
<1>2. t \in authorityState /\ Consistent(t)
  BY <1>1, PromoteType, PromoteConsistent
<1>3. /\ t.id = store.id /\ t.pending = NoPending
      /\ t.activeRoot = IF PendingRoot(store) THEN store.pending.root ELSE store.activeRoot
      /\ t.roots = IF PendingRoot(store)
                   THEN [store.roots EXCEPT ![store.activeRoot].key = FALSE,
                                            ![store.activeRoot].until = d]
                   ELSE store.roots
  BY <1>1 DEF promote, authorityState
<1>4. store.roots \in [Gens -> rootRecord]
  BY <1>1 DEF authorityState
<1>5. \A g \in Gens :
        /\ t.roots[g].kid = store.roots[g].kid
        /\ t.roots[g].key => store.roots[g].key
        /\ t.roots[g].key /\ g = store.activeRoot => g = t.activeRoot
  BY <1>3, <1>4 DEF rootRecord
<1>6. store' = Persisted(t, w)
  OBVIOUS
<1> HIDE DEF t
<1>7. CASE w = "lost"
  <2>1. store' = store
    BY <1>6, <1>7 DEF Persisted
  <2>2. RootsStep(0)
    BY <1>1, <2>1, SameStore
  <2> QED BY <1>7, <2>1, <2>2
<1>8. CASE w # "lost"
  <2>1. /\ store'.roots = t.roots /\ store'.activeRoot = t.activeRoot /\ store'.id = t.id
        /\ store'.pending = t.pending
    BY <1>2, <1>6, <1>8, BumpFields DEF Persisted
  <2>2. Provisioned(store') /\ ~PendingRoot(store')
    BY <1>3, <2>1 DEF Provisioned, PendingRoot, NoPending
  <2>3. RootsStep(0)
    BY <1>1, <1>5, <2>1, <2>2 DEF RootsStep
  <2>4. ASSUME NEW g \in Gens, t.roots[g].key PROVE g = t.activeRoot
    <3>1. ~PendingRoot(t)
      BY <2>1, <2>2 DEF PendingRoot
    <3>2. t.roots[g].kid # 0
      BY <1>5, <2>4 DEF RootsNumbered
    <3> QED BY <1>2, <2>4, <3>1, <3>2 DEF Consistent, validateState, RootKeysExact
  <2> QED BY <1>3, <1>5, <2>1, <2>2, <2>3, <2>4
<1> QED BY <1>7, <1>8

LEMMA DiscardRoots ==
  ASSUME IInv, RootsNumbered, Provisioned(store), store.pending.kind # "none",
         NEW w, store' = Persisted(discard(store), w), keys' = keys
  PROVE  /\ RootsStep(0)
         /\ \A g \in Gens : store'.roots[g].kid \in {0, store.roots[g].kid}
         /\ w # "lost" => \A g \in Gens : g = store.pending.root => store'.roots[g].kid = 0
<1> DEFINE t == discard(store)
<1>1. /\ store \in authorityState /\ Consistent(store) /\ keys \in Nat
  BY ProvisionedFacts DEF IInv, AuthTypeOK
<1>2. t \in authorityState
  BY <1>1, DiscardType
<1>3. /\ t.id = store.id /\ t.activeRoot = store.activeRoot
      /\ \A g \in Gens : t.roots[g] = IF PendingRoot(store) /\ g = store.pending.root THEN NoRoot
                                      ELSE store.roots[g]
  BY <1>1 DEF discard, authorityState
<1>4. store' = Persisted(t, w)
  OBVIOUS
<1>5. ~PendingRoot(store) => store.pending.root = 0
  BY <1>1 DEF Consistent, PendingIsNew
<1> HIDE DEF t
<1>6. CASE w = "lost"
  <2>1. store' = store
    BY <1>4, <1>6 DEF Persisted
  <2>2. RootsStep(0)
    BY <1>1, <2>1, SameStore
  <2> QED BY <1>6, <2>1, <2>2
<1>7. CASE w # "lost"
  <2>1. store'.roots = t.roots /\ store'.activeRoot = t.activeRoot /\ store'.id = t.id
    BY <1>2, <1>4, <1>7, BumpFields DEF Persisted
  <2>2. Provisioned(store') /\ NoRoot.kid = 0 /\ NoRoot.key = FALSE
    BY <1>3, <2>1 DEF Provisioned, NoRoot
  <2>3. \A g \in Gens : store.roots[g].key \in BOOLEAN
    BY RootTypes
  <2>4. \A g \in Gens : store'.roots[g] \in {NoRoot, store.roots[g]}
    BY <1>3, <2>1
  <2>5. RootsStep(0)
    BY <1>1, <1>3, <2>1, <2>2, <2>3, <2>4 DEF RootsStep
  <2>6. \A g \in Gens : g = store.pending.root => store'.roots[g] = NoRoot
    BY <1>3, <1>5, <2>1 DEF Gens
  <2> QED BY <2>2, <2>4, <2>5, <2>6
<1> QED BY <1>6, <1>7

LEMMA PruneRoots ==
  ASSUME IInv, RootsNumbered, NEW m \in Managers, PruneRoot(m)
  PROVE  /\ RootsStep(0) /\ Provisioned(store) /\ Provisioned(store')
         /\ \A g \in Gens : /\ store'.roots[g].kid = store.roots[g].kid
                            /\ store'.roots[g].key = store.roots[g].key
         /\ store'.activeRoot = store.activeRoot /\ store'.pending = store.pending
<1>1. PICK h \in Gens, w \in WriteOutcomes : store' = Persisted(prune(store, h), w)
  BY DEF PruneRoot
<1> DEFINE t == prune(store, h)
<1>2. store \in authorityState /\ keys \in Nat /\ Provisioned(store) /\ keys' = keys
  BY DEF IInv, AuthTypeOK, PruneRoot
<1>3. t \in authorityState
  BY <1>2, PruneType
<1>4. /\ t.id = store.id /\ t.activeRoot = store.activeRoot /\ t.pending = store.pending
      /\ \A g \in Gens : t.roots[g].kid = store.roots[g].kid /\ t.roots[g].key = store.roots[g].key
  BY <1>2 DEF prune, authorityState, rootRecord
<1>5. store' = Persisted(t, w)
  BY <1>1
<1> HIDE DEF t
<1>6. RootsStep(0)
  BY <1>2, <1>3, <1>4, <1>5, SameRoots
<1>7. store' = store \/ store' = Bump(t)
  BY <1>5 DEF Persisted
<1> QED BY <1>2, <1>3, <1>4, <1>6, <1>7, BumpFields DEF Provisioned

-----------------------------------------------------------------------------
(***************************************************************************)
(* The secrets in memory.  A step keeps or forgets what a manager          *)
(* generated, and adds at most the secret of generation p (0: none).       *)
(***************************************************************************)
MemoryStep(m, p) ==
    /\ p # 0 => keys < keys' /\ am'[m].generated[p] = keys'
    /\ \A h \in Gens \ {p} : am'[m].generated[h] \in {0, am[m].generated[h]}

\* What GeneratedSecretStays says of one manager and one step.
Stays(m) ==
    \A g \in Gens :
        LET k == am[m].generated[g] IN
        k # 0 /\ LiveRoot(store', k) =>
            \/ am'[m].generated[g] = k
            \/ am'[m].closed
            \/ am'[m] = NewManager(am'[m].rootUnlock, am'[m].configured)

\* With one manager, what it generated stays right.
OwnKept(m) == OwnSecrets(m) => OwnSecrets(m)'

LEMMA RootsNumberedStep ==
  ASSUME IInv, IInv', RootsNumbered, NEW n \in 0..MaxGeneration, RootsStep(n)
  PROVE  RootsNumbered'
<1>1. keys \in Nat /\ keys' \in Nat
  BY DEF IInv, AuthTypeOK
<1>2. ASSUME NEW g \in Gens
      PROVE  store'.roots[g].kid <= keys' /\ (store'.roots[g].key => store'.roots[g].kid # 0)
  <2>1. store.roots[g].kid \in Nat /\ store.roots[g].kid <= keys
        /\ (store.roots[g].key => store.roots[g].kid # 0)
    BY RootTypes DEF RootsNumbered
  <2>2. CASE g = n
    <3>1. g # 0
      BY DEF Gens
    <3> QED BY <1>1, <2>2, <3>1 DEF RootsStep
  <2>3. CASE g # n
    <3>1. \/ store'.roots[g].kid = 0 /\ ~store'.roots[g].key
          \/ /\ store'.roots[g].kid = store.roots[g].kid
             /\ store'.roots[g].key => store.roots[g].key
      BY <2>3 DEF RootsStep
    <3> QED BY <1>1, <2>1, <3>1 DEF RootsStep
  <2> QED BY <2>2, <2>3
<1> QED BY <1>2 DEF RootsNumbered, RootsStep

\* A secret that opens a root after the step, and is not new, opened it before.
LEMMA OpenedBefore ==
  ASSUME IInv, GInv, NEW n \in 0..MaxGeneration, RootsStep(n),
         NEW m \in Managers, NEW h \in Gens, NEW g \in Gens, am[m].generated[h] # 0,
         store'.roots[g].kid = am[m].generated[h]
  PROVE  /\ g = h /\ g # n /\ store.roots[g].kid = store'.roots[g].kid
         /\ store'.roots[g].key => store.roots[g].key
         /\ store'.roots[g].key => Opens(m, h)
         /\ store'.roots[g].key /\ g = store.activeRoot => g = store'.activeRoot
<1>1. am[m].generated[h] \in Nat /\ am[m].generated[h] <= keys /\ keys \in Nat
  BY MemoryTypes DEF GInv, SecretsNumbered, IInv, AuthTypeOK
<1>2. g # n
  <2>1. g # 0
    BY DEF Gens
  <2>2. SUFFICES ASSUME g = n PROVE FALSE
    OBVIOUS
  <2>3. keys < keys' /\ store'.roots[g].kid = keys'
    BY <2>1, <2>2 DEF RootsStep
  <2> QED BY <1>1, <2>3
<1>3. /\ store.roots[g].kid = store'.roots[g].kid
      /\ store'.roots[g].key => store.roots[g].key
      /\ store'.roots[g].key /\ g = store.activeRoot => g = store'.activeRoot
  BY <1>2 DEF RootsStep
<1>4. g = h
  BY <1>3 DEF GInv, SecretsNumbered
<1> QED BY <1>2, <1>3, <1>4 DEF Opens

LEMMA LiveBefore ==
  ASSUME IInv, GInv, NEW n \in 0..MaxGeneration, RootsStep(n),
         NEW m \in Managers, NEW h \in Gens, am[m].generated[h] # 0,
         LiveRoot(store', am[m].generated[h])
  PROVE  /\ Opens(m, h) /\ h # n
         /\ store'.roots[h].key /\ store'.roots[h].kid = am[m].generated[h]
<1>1. PICK g \in Gens : store'.roots[g].key /\ store'.roots[g].kid = am[m].generated[h]
  BY DEF LiveRoot
<1> QED BY <1>1, OpenedBefore

LEMMA SecretsNumberedStep ==
  ASSUME IInv, IInv', GInv, NEW n \in 0..MaxGeneration, RootsStep(n),
         NEW m \in Managers, NEW p \in 0..MaxGeneration, MemoryStep(m, p), p # 0 => n \in {0, p}
  PROVE  \A h \in Gens :
            /\ am'[m].generated[h] <= keys'
            /\ \A g \in Gens :
                  am'[m].generated[h] # 0 /\ store'.roots[g].kid = am'[m].generated[h] => g = h
<1>1. keys \in Nat /\ keys' \in Nat /\ keys <= keys'
  BY DEF IInv, AuthTypeOK, RootsStep
<1>2. ASSUME NEW h \in Gens, h # p
      PROVE  /\ am'[m].generated[h] <= keys'
             /\ \A g \in Gens :
                   am'[m].generated[h] # 0 /\ store'.roots[g].kid = am'[m].generated[h] => g = h
  <2>1. am'[m].generated[h] \in {0, am[m].generated[h]}
    BY <1>2 DEF MemoryStep
  <2>2. am[m].generated[h] \in Nat /\ am[m].generated[h] <= keys
    BY MemoryTypes DEF GInv, SecretsNumbered
  <2>3. \A g \in Gens : am[m].generated[h] # 0 /\ store'.roots[g].kid = am[m].generated[h] => g = h
    BY OpenedBefore
  <2> QED BY <1>1, <2>1, <2>2, <2>3
<1>3. ASSUME p \in Gens
      PROVE  /\ am'[m].generated[p] <= keys'
             /\ \A g \in Gens :
                   am'[m].generated[p] # 0 /\ store'.roots[g].kid = am'[m].generated[p] => g = p
  <2>1. p # 0 /\ keys < keys' /\ am'[m].generated[p] = keys' /\ n \in {0, p}
    BY <1>3 DEF MemoryStep, Gens
  <2>2. ASSUME NEW g \in Gens, g # p, store'.roots[g].kid = keys' PROVE FALSE
    <3>1. g # n
      BY <2>1, <2>2 DEF Gens
    <3>2. store'.roots[g].kid \in {0, store.roots[g].kid}
      BY <3>1 DEF RootsStep
    <3>3. store.roots[g].kid <= keys /\ store.roots[g].kid \in Nat
      BY RootTypes DEF GInv, RootsNumbered
    <3> QED BY <1>1, <2>1, <2>2, <3>2, <3>3
  <2> QED BY <1>1, <2>1, <2>2
<1> QED BY <1>2, <1>3

\* A manager that does nothing in a step keeps what is said of it.
LEMMA OthersKeep ==
  ASSUME IInv, GInv, NEW n \in 0..MaxGeneration, RootsStep(n), NEW m \in Managers, am'[m] = am[m]
  PROVE  OpensActive(m)' /\ Stays(m) /\ MemoryStep(m, 0)
<1>1. ASSUME NEW g \in Gens, Opens(m, g)'
      PROVE  Opens(m, g) /\ (g = store.activeRoot => g = store'.activeRoot)
  <2>1. /\ am[m].generated[g] # 0 /\ store'.roots[g].key /\ store'.roots[g].kid = am[m].generated[g]
    BY <1>1 DEF Opens
  <2> QED BY <2>1, OpenedBefore
<1>2. OpensActive(m)'
  BY <1>1 DEF GInv, OpensActive, Forgetting
<1>3. Stays(m)
  BY DEF Stays
<1>4. MemoryStep(m, 0)
  BY DEF MemoryStep
<1> QED BY <1>2, <1>3, <1>4

\* A manager that generates a secret writes the root with it, or writes nothing.
LEMMA OwnStep ==
  ASSUME NEW n \in 0..MaxGeneration, RootsStep(n), NEW m \in Managers,
         NEW p \in 0..MaxGeneration, MemoryStep(m, p), n \in {0, p},
         n # p => store'.roots[p].kid = 0
  PROVE  OwnKept(m)
<1>1. ASSUME NEW g \in Gens, OwnSecrets(m), store'.roots[g].kid # 0, am'[m].generated[g] # 0
      PROVE  am'[m].generated[g] = store'.roots[g].kid
  <2>1. g # 0
    BY DEF Gens
  <2>2. CASE g = p
    BY <1>1, <2>1, <2>2 DEF RootsStep, MemoryStep
  <2>3. CASE g # p
    <3>1. g # n /\ am'[m].generated[g] = am[m].generated[g]
      BY <1>1, <2>1, <2>3 DEF MemoryStep
    <3>2. store'.roots[g].kid = store.roots[g].kid
      BY <1>1, <3>1 DEF RootsStep
    <3> QED BY <1>1, <3>1, <3>2 DEF OwnSecrets
  <2> QED BY <2>2, <2>3
<1> QED BY <1>1 DEF OwnKept, OwnSecrets

\* A step of manager m.
LEMMA StepOf ==
  ASSUME IInv, IInv', GInv, NEW n \in 0..MaxGeneration, RootsStep(n),
         NEW m \in Managers, NEW rec, am' = [am EXCEPT ![m] = rec],
         NEW p \in 0..MaxGeneration, MemoryStep(m, p), n \in {0, p},
         n # p => store'.roots[p].kid = 0,
         OpensActive(m)', Stays(m)
  PROVE  GInv' /\ OwnKept(m) /\ \A x \in Managers : Stays(x)
<1>1. am \in [Managers -> AuthorityManager]
  BY DEF IInv, AuthTypeOK
<1>2. \A x \in Managers \ {m} : am'[x] = am[x]
  BY <1>1
<1>3. \A x \in Managers : OpensActive(x)' /\ Stays(x)
  BY <1>2, OthersKeep
<1>4. RootsNumbered'
  BY RootsNumberedStep DEF GInv
<1>5. SecretsNumbered'
  <2>1. ASSUME NEW x \in Managers
        PROVE  \A h \in Gens :
                 /\ am'[x].generated[h] <= keys'
                 /\ \A g \in Gens :
                      am'[x].generated[h] # 0 /\ store'.roots[g].kid = am'[x].generated[h] => g = h
    <3>1. CASE x = m
      BY <3>1, SecretsNumberedStep
    <3>2. CASE x # m
      <4>1. MemoryStep(x, 0) /\ 0 \in 0..MaxGeneration
        BY <1>2, <3>2, OthersKeep, StateConstants
      <4> QED BY <4>1, SecretsNumberedStep
    <3> QED BY <3>1, <3>2
  <2> QED BY <2>1 DEF SecretsNumbered
<1>6. OwnKept(m)
  BY OwnStep
<1> QED BY <1>3, <1>4, <1>5, <1>6 DEF GInv

\* A step of no manager.
LEMMA QuietStepAll ==
  ASSUME IInv, IInv', GInv, RootsStep(0), am' = am
  PROVE  GInv' /\ \A x \in Managers : Stays(x) /\ OwnKept(x)
<1>1. 0 \in 0..MaxGeneration
  BY StateConstants
<1>2. \A x \in Managers : OpensActive(x)' /\ Stays(x) /\ MemoryStep(x, 0)
  BY <1>1, OthersKeep
<1>5. \A x \in Managers : OwnKept(x)
  BY <1>1, <1>2, OwnStep
<1>3. RootsNumbered'
  BY <1>1, RootsNumberedStep DEF GInv
<1>4. SecretsNumbered'
  BY <1>1, <1>2, SecretsNumberedStep DEF SecretsNumbered
<1> QED BY <1>2, <1>3, <1>4, <1>5 DEF GInv

LEMMA LocalFields ==
  ASSUME NEW rec \in AuthorityManager, NEW g \in 0..MaxGeneration
  PROVE  /\ Idle(rec).generated = rec.generated /\ Idle(rec).pc = "idle" /\ Idle(rec).after = ""
         /\ \A h \in Gens : Forget(rec, g).generated[h] = IF h = g THEN rec.generated[h] ELSE 0
         /\ Idle(Forget(rec, g)).generated = Forget(rec, g).generated
         /\ Idle(Forget(rec, g)).pc = "idle" /\ Idle(Forget(rec, g)).after = ""
<1>1. \A r \in AuthorityManager : /\ Idle(r).generated = r.generated /\ Idle(r).pc = "idle"
                                  /\ Idle(r).after = ""
  BY DEF Idle, AuthorityManager
<1>2. Forget(rec, g) \in AuthorityManager
  BY DEF Forget, AuthorityManager, SecretMap
<1>3. \A h \in Gens : Forget(rec, g).generated[h] = IF h = g THEN rec.generated[h] ELSE 0
  BY DEF Forget, AuthorityManager
<1> QED BY <1>1, <1>2, <1>3

LEMMA EnsureSecrets ==
  ASSUME IInv, IInv', GInv, NEW m \in Managers, Ensure(m)
  PROVE  GInv' /\ OwnKept(m) /\ \A x \in Managers : Stays(x)
<1>1. am \in [Managers -> AuthorityManager] /\ am[m] \in AuthorityManager /\ keys \in Nat
  BY MemoryTypes DEF IInv, AuthTypeOK
<1>2. RootsNumbered
  BY DEF GInv
<1>3. ASSUME NEW p \in Gens, NEW n \in {0, p}, RootsStep(n), keys < keys',
             am' = [am EXCEPT ![m].generated[p] = keys'],
             \A g \in Gens : Opens(m, g) => g # p,
             am[m].pc = "idle", n # p => store'.roots[p].kid = 0
      PROVE  GInv' /\ OwnKept(m) /\ \A x \in Managers : Stays(x)
  <2> DEFINE rec == [am[m] EXCEPT !.generated[p] = keys']
  <2>1. am' = [am EXCEPT ![m] = rec] /\ am'[m] = rec
    BY <1>1, <1>3
  <2>2. /\ rec.generated = [am[m].generated EXCEPT ![p] = keys'] /\ rec.pc = am[m].pc
        /\ rec.after = am[m].after
    BY <1>1 DEF AuthorityManager
  <2> HIDE DEF rec
  <2>3. am[m].generated \in [Gens -> Nat]
    BY MemoryTypes
  <2>4. p \in 0..MaxGeneration /\ n \in 0..MaxGeneration /\ p # 0
    BY <1>3, StateConstants DEF Gens
  <2>5. MemoryStep(m, p)
    BY <1>3, <2>1, <2>2, <2>3 DEF MemoryStep
  <2>6. OpensActive(m)'
    BY <1>3, <2>1, <2>2 DEF GInv, OpensActive, Forgetting
  <2>7. Stays(m)
    <3>1. ASSUME NEW g \in Gens, am[m].generated[g] # 0, LiveRoot(store', am[m].generated[g])
          PROVE  am'[m].generated[g] = am[m].generated[g]
      <4>1. g # p
        BY <1>3, <2>4, <3>1, LiveBefore
      <4> QED BY <2>1, <2>2, <2>3, <4>1
    <3> QED BY <3>1 DEF Stays
  <2> QED BY <1>3, <2>1, <2>4, <2>5, <2>6, <2>7, StepOf
<1>4. CASE EnsureProvision(m)
  <2>1. /\ am[m].pc = "idle" /\ ~Provisioned(store) /\ keys' = keys + 1
        /\ am' = [am EXCEPT ![m].generated[1] = keys + 1]
    BY <1>4 DEF EnsureProvision, Ready
  <2>2. (RootsStep(0) /\ store' = store) \/ RootsStep(1)
    BY <1>2, <1>4, ProvisionRoots
  <2>3. \A g \in Gens : ~Opens(m, g)
    BY <1>2, <2>1, NoAuthorityRoots DEF RootsNumbered, Opens
  <2>4. 1 \in Gens /\ keys < keys'
    BY <1>1, <2>1, StateConstants DEF Gens
  <2>5. am' = [am EXCEPT ![m].generated[1] = keys']
    BY <2>1
  <2>6. store.roots[1].kid = 0
    BY <1>2, <2>1, <2>4, NoAuthorityRoots DEF RootsNumbered
  <2> QED BY <1>3, <2>1, <2>2, <2>3, <2>4, <2>5, <2>6
<1>5. ASSUME NEW before \in RotateBefores, EnsureStageRoot(m, before)
      PROVE  GInv' /\ OwnKept(m) /\ \A x \in Managers : Stays(x)
  <2>1. /\ EnsureReconciles(m) /\ am[m].pc = "idle" /\ keys' = StagingKey(m)
        /\ VersionsLeft(Reconciled(m), Known(Reconciled(m)))
    BY <1>5 DEF EnsureStageRoot, EnsureReconciles, Ready
  <2>2. PICK g \in Gens : /\ FreeGeneration(store, g)
                          /\ \E w \in WriteOutcomes :
                               store' = Persisted(prepareRoot(Reconciled(m), g, StagingKey(m), now), w)
                          /\ am' = [am EXCEPT ![m].generated[g] = StagingKey(m)]
    BY <1>5 DEF EnsureStageRoot
  <2>3. PICK w \in WriteOutcomes :
           store' = Persisted(prepareRoot(Reconciled(m), g, StagingKey(m), now), w)
    BY <2>2
  <2>4. (RootsStep(0) /\ store' = store) \/ RootsStep(g)
    BY <1>2, <2>1, <2>2, <2>3, StageRoots
  <2>5. keys < keys' /\ am' = [am EXCEPT ![m].generated[g] = keys']
    BY <2>1, <2>2, ReconciledFacts
  <2>6. store.roots[g].kid = 0 /\ \A h \in Gens : Opens(m, h) => h # g
    BY <2>2 DEF FreeGeneration, Opens
  <2> QED BY <1>3, <2>1, <2>4, <2>5, <2>6
<1>6. ASSUME NEW before \in RotateBefores, NEW issuerBefore \in [Slugs -> RotateBefores],
             EnsureStageIssuers(m, before, issuerBefore) \/ EnsureAddIssuers(m, before, issuerBefore)
      PROVE  GInv' /\ OwnKept(m) /\ \A x \in Managers : Stays(x)
  <2>1. RootsStep(0)
    BY <1>2, <1>6, AddAndStageIssuersRoots
  <2>2. am' = am
    BY <1>6 DEF EnsureStageIssuers, EnsureAddIssuers
  <2> QED BY <2>1, <2>2, QuietStepAll
<1> QED BY <1>4, <1>5, <1>6 DEF Ensure

LEMMA PromoteSecrets ==
  ASSUME IInv, IInv', GInv, NEW m \in Managers, PromotePending(m)
  PROVE  GInv' /\ OwnKept(m) /\ \A x \in Managers : Stays(x)
<1>1. am \in [Managers -> AuthorityManager] /\ am[m] \in AuthorityManager
  BY MemoryTypes
<1>2. RootsNumbered /\ Provisioned(store) /\ store.pending.kind # "none" /\ keys' = keys
      /\ am[m].pc = "idle"
  BY DEF GInv, PromotePending, Ready
<1>3. PICK option \in exported \cup {0}, w \in WriteOutcomes,
           d \in 0..MaxTime + MaximumLeafValidity + ClockSkew :
        /\ store' = Persisted(promote(store, d), w)
        /\ am' = IF w = "ok"
                 THEN [am EXCEPT ![m].pc = "promoted", ![m].secret = promotedSecret(m, option)]
                 ELSE am
  BY DEF PromotePending
<1>4. /\ RootsStep(0)
      /\ w # "lost" => \A g \in Gens : store'.roots[g].key => g = store'.activeRoot
  <2>1. d \in Nat
    BY StateConstants, AuthorityConstants
  <2> QED BY <1>2, <1>3, <2>1, PromoteRoots
<1>5. CASE w # "ok"
  BY <1>3, <1>4, <1>5, QuietStepAll
<1>6. CASE w = "ok"
  <2> DEFINE rec == [am[m] EXCEPT !.pc = "promoted", !.secret = promotedSecret(m, option)]
  <2>1. am' = [am EXCEPT ![m] = rec] /\ am'[m] = rec
    BY <1>1, <1>3, <1>6
  <2>2. rec.generated = am[m].generated /\ rec.pc = "promoted" /\ rec.after = am[m].after
    BY <1>1 DEF AuthorityManager
  <2> HIDE DEF rec
  <2>3. 0 \in 0..MaxGeneration
    BY StateConstants
  <2>4. MemoryStep(m, 0) /\ Stays(m)
    BY <2>1, <2>2 DEF MemoryStep, Stays
  <2>5. am[m].after # "forget"
    BY <1>2 DEF GInv, OpensActive
  <2>6. OpensActive(m)'
    BY <1>4, <1>6, <2>1, <2>2, <2>5 DEF OpensActive, Opens, Forgetting
  <2> QED BY <1>4, <2>1, <2>3, <2>4, <2>6, StepOf
<1> QED BY <1>5, <1>6

LEMMA DiscardSecrets ==
  ASSUME IInv, IInv', GInv, NEW m \in Managers, DiscardPending(m)
  PROVE  GInv' /\ OwnKept(m) /\ \A x \in Managers : Stays(x)
<1>1. am \in [Managers -> AuthorityManager] /\ am[m] \in AuthorityManager
  BY MemoryTypes
<1>2. RootsNumbered /\ Provisioned(store) /\ store.pending.kind # "none" /\ keys' = keys
      /\ am[m].pc = "idle"
  BY DEF GInv, DiscardPending, Ready
<1> DEFINE secrets == [g \in Gens |-> IF g = store.pending.root THEN 0 ELSE am[m].generated[g]]
           rec == [am[m] EXCEPT !.pc = "discarded", !.gen = store.pending.root,
                                !.generated = secrets]
<1>3. PICK w \in WriteOutcomes :
        /\ store' = Persisted(discard(store), w)
        /\ am' = IF w = "ok" THEN [am EXCEPT ![m] = rec] ELSE am
  BY <1>1 DEF DiscardPending
<1>4. /\ RootsStep(0)
      /\ w # "lost" => \A g \in Gens : g = store.pending.root => store'.roots[g].kid = 0
  BY <1>2, <1>3, DiscardRoots
<1>5. CASE w # "ok"
  BY <1>3, <1>4, <1>5, QuietStepAll
<1>6. CASE w = "ok"
  <2>1. am' = [am EXCEPT ![m] = rec] /\ am'[m] = rec
    BY <1>1, <1>3, <1>6
  <2>2. rec.generated = secrets /\ rec.pc = "discarded" /\ rec.after = am[m].after
    BY <1>1 DEF AuthorityManager
  <2> HIDE DEF rec
  <2>3. 0 \in 0..MaxGeneration
    BY StateConstants
  <2>4. MemoryStep(m, 0)
    BY <2>1, <2>2 DEF MemoryStep
  <2>5. OpensActive(m)'
    <3>1. am[m].after # "forget"
      BY <1>2 DEF GInv, OpensActive
    <3> QED BY <2>1, <2>2, <3>1 DEF OpensActive, Forgetting
  <2>6. Stays(m)
    <3>1. ASSUME NEW g \in Gens, am[m].generated[g] # 0, LiveRoot(store', am[m].generated[g])
          PROVE  am'[m].generated[g] = am[m].generated[g]
      <4>1. store'.roots[g].kid = am[m].generated[g]
        BY <1>4, <2>3, <3>1, LiveBefore
      <4>2. g # store.pending.root
        BY <1>4, <1>6, <3>1, <4>1
      <4> QED BY <2>1, <2>2, <4>2
    <3> QED BY <3>1 DEF Stays
  <2> QED BY <1>4, <2>1, <2>3, <2>4, <2>5, <2>6, StepOf
<1> QED BY <1>5, <1>6

\* The steps of an operation after its update, and the operations without one.
LEMMA LocalSecrets ==
  ASSUME IInv, IInv', GInv, NEW m \in Managers,
         \/ PromoteReload(m) \/ PromoteReadUnlocks(m) \/ DiscardReadUnlocks(m)
         \/ StoreLocalUnlock(m) \/ StoreReadUnlocks(m) \/ StoreUnlocks(m)
         \/ ExportGeneratedUnlock(m) \/ Purge(m)
  PROVE  GInv' /\ OwnKept(m) /\ \A x \in Managers : Stays(x)
<1>1. am \in [Managers -> AuthorityManager] /\ am[m] \in AuthorityManager /\ keys \in Nat
      /\ am[m].generated \in [Gens -> Nat]
  BY MemoryTypes DEF IInv, AuthTypeOK
<1>2. UNCHANGED <<store, keys>> /\ RootsStep(0)
  <2>1. UNCHANGED <<store, keys>>
    BY DEF PromoteReload, PromoteReadUnlocks, DiscardReadUnlocks, StoreLocalUnlock,
           StoreReadUnlocks, StoreUnlocks, ExportGeneratedUnlock, Purge
  <2> QED BY <1>1, <2>1, SameStore DEF GInv
<1>3. OpensActive(m)
  BY DEF GInv
\* A manager that keeps what it generated, or forgets what opens no root in use.
<1>4. ASSUME NEW rec \in AuthorityManager, am' = [am EXCEPT ![m] = rec],
             \A h \in Gens : rec.generated[h] \in {0, am[m].generated[h]},
             \A h \in Gens : Opens(m, h) => rec.generated[h] = am[m].generated[h],
             rec.after = "forget" => rec.pc = "rewrite",
             rec.pc = "promoted" => am[m].pc = "promoted",
             rec.pc = "promoted2" \/ (rec.pc = "rewrite" /\ rec.after = "forget") =>
                \A h \in Gens : Opens(m, h) => h = rec.gen
      PROVE  GInv' /\ OwnKept(m) /\ \A x \in Managers : Stays(x)
  <2>1. am'[m] = rec
    BY <1>1, <1>4
  <2>2. MemoryStep(m, 0)
    BY <1>4, <2>1 DEF MemoryStep
  <2>3. ASSUME NEW h \in Gens, Opens(m, h)' PROVE Opens(m, h)
    BY <1>2, <1>4, <2>1, <2>3 DEF Opens
  <2>4. OpensActive(m)'
    BY <1>2, <1>3, <1>4, <2>1, <2>3 DEF OpensActive, Forgetting
  <2>5. Stays(m)
    <3>1. ASSUME NEW g \in Gens, am[m].generated[g] # 0, LiveRoot(store', am[m].generated[g])
          PROVE  am'[m].generated[g] = am[m].generated[g]
      <4>1. Opens(m, g)
        BY <1>2, <3>1, LiveBefore, ZeroGeneration
      <4> QED BY <1>4, <2>1, <4>1
    <3> QED BY <3>1 DEF Stays
  <2> QED BY <1>2, <1>4, <2>2, <2>4, <2>5, StepOf, ZeroGeneration
<1>5. Idle(am[m]) \in AuthorityManager
  BY <1>1, ManagerTypes, ZeroGeneration
<1>6. ASSUME am' = [am EXCEPT ![m] = Idle(am[m])]
      PROVE  GInv' /\ OwnKept(m) /\ \A x \in Managers : Stays(x)
  <2>1. /\ Idle(am[m]).generated = am[m].generated /\ Idle(am[m]).pc = "idle"
        /\ Idle(am[m]).after = ""
    BY <1>1, LocalFields, ZeroGeneration
  <2> HIDE DEF Idle
  <2> QED BY <1>4, <1>5, <1>6, <2>1
<1>7. ASSUME Forgetting(m), am' = [am EXCEPT ![m] = Idle(Forget(am[m], am[m].gen))]
      PROVE  GInv' /\ OwnKept(m) /\ \A x \in Managers : Stays(x)
  <2> DEFINE rec == Idle(Forget(am[m], am[m].gen))
  <2>1. rec \in AuthorityManager
    BY <1>1, ManagerTypes, MemoryTypes, ZeroGeneration
  <2>2. /\ \A h \in Gens : rec.generated[h] = IF h = am[m].gen THEN am[m].generated[h] ELSE 0
        /\ rec.pc = "idle" /\ rec.after = ""
    <3> DEFINE kept == Forget(am[m], am[m].gen)
    <3>0. am[m].gen \in 0..MaxGeneration
      BY MemoryTypes
    <3>1. \A h \in Gens : kept.generated[h] = IF h = am[m].gen THEN am[m].generated[h] ELSE 0
      BY <1>1, <3>0, LocalFields
    <3>2. rec.generated = kept.generated /\ rec.pc = "idle" /\ rec.after = ""
      BY <1>1, <3>0, LocalFields
    <3> HIDE DEF rec, kept
    <3> QED BY <3>1, <3>2
  <2>3. am' = [am EXCEPT ![m] = rec]
    BY <1>7
  <2>4. \A h \in Gens : Opens(m, h) => h = am[m].gen
    BY <1>3, <1>7 DEF OpensActive
  <2> HIDE DEF rec
  <2> QED BY <1>4, <2>1, <2>2, <2>3, <2>4
<1>8. CASE PromoteReload(m)
  <2>1. am[m].pc = "promoted"
    BY <1>8 DEF PromoteReload
  <2>2. CASE ~Provisioned(store)
    <3>1. am' = [am EXCEPT ![m] = Idle(am[m])]
      BY <1>8, <2>2 DEF PromoteReload
    <3> QED BY <1>6, <3>1
  <2>3. CASE Provisioned(store)
    <3> DEFINE rec == [am[m] EXCEPT !.pc = "promoted2", !.gen = store.activeRoot]
    <3>1. am' = [am EXCEPT ![m] = rec]
      BY <1>8, <2>3 DEF PromoteReload
    <3>2. /\ rec.generated = am[m].generated /\ rec.pc = "promoted2" /\ rec.after = am[m].after
          /\ rec.gen = store.activeRoot
      BY <1>1 DEF AuthorityManager
    <3>3. rec \in AuthorityManager
      <4>1. am' \in [Managers -> AuthorityManager]
        BY DEF IInv, AuthTypeOK
      <4>2. am'[m] = rec
        BY <1>1, <3>1
      <4> QED BY <4>1, <4>2
    <3> HIDE DEF rec
    <3>4. am[m].after # "forget" /\ \A h \in Gens : Opens(m, h) => h = store.activeRoot
      BY <1>3, <2>1 DEF OpensActive
    <3> QED BY <1>4, <3>1, <3>2, <3>3, <3>4
  <2> QED BY <2>2, <2>3
<1>9. CASE PromoteReadUnlocks(m)
  <2>1. am[m].pc = "promoted2" /\ Forgetting(m)
    BY <1>9 DEF PromoteReadUnlocks, Forgetting
  <2>2. CASE ~(unlocks.present /\ KeptSecret(m) # 0)
    <3>1. am' = [am EXCEPT ![m] = Idle(Forget(am[m], am[m].gen))]
      BY <1>9, <2>2 DEF PromoteReadUnlocks
    <3> QED BY <1>7, <2>1, <3>1
  <2>3. CASE unlocks.present /\ KeptSecret(m) # 0
    <3> DEFINE values == [NoSecrets EXCEPT ![am[m].gen] = KeptSecret(m)]
               rec == [am[m] EXCEPT !.pc = "rewrite", !.replace = TRUE, !.after = "forget",
                                    !.values = values]
    <3>1. am' = [am EXCEPT ![m] = rec]
      BY <1>9, <2>3 DEF PromoteReadUnlocks
    <3> HIDE DEF values
    <3>2. /\ rec.generated = am[m].generated /\ rec.pc = "rewrite" /\ rec.after = "forget"
          /\ rec.gen = am[m].gen
      BY <1>1 DEF AuthorityManager
    <3>3. rec \in AuthorityManager
      <4>1. am' \in [Managers -> AuthorityManager]
        BY DEF IInv, AuthTypeOK
      <4>2. am'[m] = rec
        BY <1>1, <3>1
      <4> QED BY <4>1, <4>2
    <3> HIDE DEF rec
    <3>4. \A h \in Gens : Opens(m, h) => h = am[m].gen
      BY <1>3, <2>1 DEF OpensActive
    <3> QED BY <1>4, <3>1, <3>2, <3>3, <3>4
  <2> QED BY <2>2, <2>3
\* Steps that end elsewhere and change other fields only.
<1>10. ASSUME NEW rec, am' = [am EXCEPT ![m] = rec], rec.generated = am[m].generated,
              rec.after = "", rec.pc \in {"storing", "rewrite", "purging"}
       PROVE  GInv' /\ OwnKept(m) /\ \A x \in Managers : Stays(x)
  <2>1. rec \in AuthorityManager
    <3>1. am' \in [Managers -> AuthorityManager]
      BY DEF IInv, AuthTypeOK
    <3>2. am'[m] = rec
      BY <1>1, <1>10
    <3> QED BY <3>1, <3>2
  <2> QED BY <1>4, <1>10, <2>1
<1>11. am[m].pc # "rewrite" => am[m].after = ""
  BY <1>1, <1>3 DEF OpensActive, AuthorityManager
<1>12. CASE DiscardReadUnlocks(m)
  <2>1. am[m].after = ""
    BY <1>11, <1>12 DEF DiscardReadUnlocks
  <2>2. CASE ~unlocks.present
    <3>1. am' = [am EXCEPT ![m] = Idle(am[m])]
      BY <1>12, <2>2 DEF DiscardReadUnlocks
    <3> QED BY <1>6, <3>1
  <2>3. CASE unlocks.present
    <3> DEFINE values == [g \in Gens |-> IF g = am[m].gen THEN 0 ELSE unlocks.secrets[g]]
               rec == [am[m] EXCEPT !.pc = "rewrite", !.replace = TRUE, !.values = values]
    <3>1. am' = [am EXCEPT ![m] = rec]
      BY <1>12, <2>3 DEF DiscardReadUnlocks
    <3> HIDE DEF values
    <3>2. rec.generated = am[m].generated /\ rec.pc = "rewrite" /\ rec.after = ""
      BY <1>1, <2>1 DEF AuthorityManager
    <3> HIDE DEF rec
    <3> QED BY <1>10, <3>1, <3>2
  <2> QED BY <2>2, <2>3
<1>13. CASE StoreLocalUnlock(m)
  <2>1. PICK replace \in BOOLEAN :
          am' = [am EXCEPT ![m].pc = "storing", ![m].gen = store.activeRoot,
                           ![m].pend = store.pending.root, ![m].replace = replace]
    BY <1>13 DEF StoreLocalUnlock
  <2> DEFINE rec == [am[m] EXCEPT !.pc = "storing", !.gen = store.activeRoot,
                                  !.pend = store.pending.root, !.replace = replace]
  <2>2. am' = [am EXCEPT ![m] = rec]
    BY <1>1, <2>1
  <2>3. am[m].after = ""
    BY <1>11, <1>13 DEF StoreLocalUnlock, Ready
  <2>4. rec.generated = am[m].generated /\ rec.pc = "storing" /\ rec.after = ""
    BY <1>1, <2>3 DEF AuthorityManager
  <2> HIDE DEF rec
  <2> QED BY <1>10, <2>2, <2>4
<1>14. CASE StoreReadUnlocks(m)
  <2>1. am[m].after = ""
    BY <1>11, <1>14 DEF StoreReadUnlocks
  <2>2. CASE am' = [am EXCEPT ![m] = Idle(am[m])]
    BY <1>6, <2>2
  <2>3. CASE am' = [am EXCEPT ![m] = [am[m] EXCEPT !.pc = "rewrite", !.values = StoredValues(m)]]
    <3> DEFINE rec == [am[m] EXCEPT !.pc = "rewrite", !.values = StoredValues(m)]
    <3>1. am' = [am EXCEPT ![m] = rec]
      BY <2>3
    <3>2. rec.generated = am[m].generated /\ rec.pc = "rewrite" /\ rec.after = ""
      BY <1>1, <2>1 DEF AuthorityManager
    <3> HIDE DEF rec
    <3> QED BY <1>10, <3>1, <3>2
  <2> QED BY <1>14, <2>2, <2>3 DEF StoreReadUnlocks
<1>15. CASE StoreUnlocks(m)
  <2>1. am[m].pc = "rewrite"
    BY <1>15 DEF StoreUnlocks
  <2>2. \/ am' = [am EXCEPT ![m] = Idle(am[m])]
        \/ am[m].after = "forget" /\ am' = [am EXCEPT ![m] = Idle(Forget(am[m], am[m].gen))]
    BY <1>15 DEF StoreUnlocks
  <2> QED BY <1>6, <1>7, <2>1, <2>2 DEF Forgetting
<1>16. CASE ExportGeneratedUnlock(m)
  <2>1. am' = am
    BY <1>16 DEF ExportGeneratedUnlock
  <2> QED BY <1>2, <2>1, QuietStepAll
<1>17. CASE Purge(m)
  <2> DEFINE rec == [am[m] EXCEPT !.pc = "purging",
                                  !.secret = store.roots[store.activeRoot].kid]
  <2>1. am' = [am EXCEPT ![m] = rec]
    BY <1>1, <1>17 DEF Purge
  <2>2. am[m].after = ""
    BY <1>11, <1>17 DEF Purge
  <2>3. rec.generated = am[m].generated /\ rec.pc = "purging" /\ rec.after = ""
    BY <1>1, <2>2 DEF AuthorityManager
  <2> HIDE DEF rec
  <2> QED BY <1>10, <2>1, <2>3
<1> QED BY <1>8, <1>9, <1>12, <1>13, <1>14, <1>15, <1>16, <1>17

LEMMA OtherSecrets ==
  ASSUME IInv, IInv', GInv, NEW m \in Managers,
         PruneRoot(m) \/ PurgeStore(m) \/ Close(m) \/ Restart(m)
  PROVE  GInv' /\ OwnKept(m) /\ \A x \in Managers : Stays(x)
<1>1. am \in [Managers -> AuthorityManager] /\ am[m] \in AuthorityManager /\ keys \in Nat
      /\ am[m].generated \in [Gens -> Nat]
  BY MemoryTypes DEF IInv, AuthTypeOK
<1>2. RootsNumbered /\ OpensActive(m)
  BY DEF GInv
<1>3. NoSecrets \in [Gens -> {0}]
  BY DEF NoSecrets
\* The manager has forgotten everything and is closed or new.
<1>4. ASSUME RootsStep(0), NEW rec, am' = [am EXCEPT ![m] = rec], rec.generated = NoSecrets,
             rec.pc = "idle", rec.after = "",
             rec.closed \/ rec = NewManager(rec.rootUnlock, rec.configured)
      PROVE  GInv' /\ OwnKept(m) /\ \A x \in Managers : Stays(x)
  <2>1. am'[m] = rec
    BY <1>1, <1>4
  <2>2. MemoryStep(m, 0)
    BY <1>3, <1>4, <2>1 DEF MemoryStep
  <2>3. OpensActive(m)'
    BY <1>4, <2>1 DEF OpensActive, Forgetting
  <2>4. Stays(m)
    BY <1>4, <2>1 DEF Stays
  <2> QED BY <1>4, <2>2, <2>3, <2>4, StepOf, ZeroGeneration
<1>5. CASE PruneRoot(m)
  <2>1. RootsStep(0)
    BY <1>2, <1>5, PruneRoots
  <2>2. am' = am
    BY <1>5 DEF PruneRoot
  <2> QED BY <2>1, <2>2, QuietStepAll
<1>6. CASE PurgeStore(m)
  <2>1. store' = NoAuthority /\ keys' = keys
    BY <1>6 DEF PurgeStore
  <2>2. RootsStep(0)
    BY <1>1, <2>1, NoAuthorityRoots DEF RootsStep
  <2> DEFINE rec == [Idle(am[m]) EXCEPT !.generated = NoSecrets, !.closed = TRUE]
  <2>3. am' = [am EXCEPT ![m] = rec]
    BY <1>6 DEF PurgeStore
  <2>4. Idle(am[m]) \in AuthorityManager /\ Idle(am[m]).pc = "idle" /\ Idle(am[m]).after = ""
    BY <1>1, ManagerTypes, LocalFields, ZeroGeneration
  <2>5. rec.generated = NoSecrets /\ rec.closed = TRUE /\ rec.pc = "idle" /\ rec.after = ""
    BY <2>4 DEF AuthorityManager
  <2> HIDE DEF rec
  <2> QED BY <1>4, <2>2, <2>3, <2>5
<1>7. CASE Close(m)
  <2>1. UNCHANGED <<store, keys>> /\ am[m].pc = "idle"
    BY <1>7 DEF Close, Ready
  <2>2. RootsStep(0)
    BY <1>1, <1>2, <2>1, SameStore
  <2> DEFINE rec == [am[m] EXCEPT !.generated = NoSecrets, !.rootUnlock = 0, !.closed = TRUE]
  <2>3. am' = [am EXCEPT ![m] = rec]
    BY <1>1, <1>7 DEF Close
  <2>4. am[m].after = ""
    BY <1>1, <1>2, <2>1 DEF OpensActive, AuthorityManager
  <2>5. rec.generated = NoSecrets /\ rec.closed = TRUE /\ rec.pc = "idle" /\ rec.after = ""
    BY <1>1, <2>1, <2>4 DEF AuthorityManager
  <2> HIDE DEF rec
  <2> QED BY <1>4, <2>2, <2>3, <2>5
<1>8. CASE Restart(m)
  <2>1. UNCHANGED <<store, keys>>
    BY <1>8 DEF Restart
  <2>2. RootsStep(0)
    BY <1>1, <1>2, <2>1, SameStore
  <2>3. PICK u \in exported \cup {0}, c \in Configurations : am' = [am EXCEPT ![m] = NewManager(u, c)]
    BY <1>8 DEF Restart
  <2> DEFINE rec == NewManager(u, c)
  <2>4. /\ rec.generated = NoSecrets /\ rec.pc = "idle" /\ rec.after = ""
        /\ rec = NewManager(rec.rootUnlock, rec.configured)
    BY DEF NewManager
  <2>5. am' = [am EXCEPT ![m] = rec]
    BY <2>3
  <2> HIDE DEF rec
  <2> QED BY <1>4, <2>2, <2>4, <2>5
<1> QED BY <1>5, <1>6, <1>7, <1>8

LEMMA ManagerSecrets ==
  ASSUME IInv, IInv', GInv, NEW m \in Managers, ManagerStep(m)
  PROVE  GInv' /\ OwnKept(m) /\ \A x \in Managers : Stays(x)
  BY EnsureSecrets, PromoteSecrets, DiscardSecrets, LocalSecrets, OtherSecrets DEF ManagerStep

LEMMA ClockSecrets ==
  ASSUME IInv, IInv', GInv, UNCHANGED <<keys, store, am>>
  PROVE  GInv' /\ \A x \in Managers : Stays(x) /\ OwnKept(x)
<1>1. keys \in Nat
  BY DEF IInv, AuthTypeOK
<1>2. RootsStep(0)
  BY <1>1, SameStore DEF GInv
<1> QED BY <1>2, QuietStepAll

LEMMA SecretsStep ==
  ASSUME IInv, GInv, [AuthNext]_authVars
  PROVE  GInv' /\ \A x \in Managers : Stays(x)
<1>1. IInv'
  BY NextIInv
<1>2. CASE UNCHANGED <<keys, store, am>>
  BY <1>1, <1>2, ClockSecrets
<1>3. ASSUME NEW m \in Managers, ManagerStep(m)
      PROVE  GInv' /\ \A x \in Managers : Stays(x)
  BY <1>1, <1>3, ManagerSecrets
<1> QED BY <1>2, <1>3 DEF AuthNext, Tick, authVars

LEMMA SecretsInit ==
  ASSUME AuthInit
  PROVE  GInv
<1>1. store = NoAuthority /\ keys = 0
  BY DEF AuthInit
<1>2. \A g \in Gens : store.roots[g].kid = 0 /\ ~store.roots[g].key
  BY <1>1, NoAuthorityRoots
<1>3. ASSUME NEW m \in Managers
      PROVE  /\ \A g \in Gens : am[m].generated[g] = 0
             /\ am[m].pc = "idle" /\ am[m].after = ""
  <2>1. PICK c \in Configurations : am[m] = NewManager(0, c)
    BY DEF AuthInit
  <2>2. NewManager(0, c).generated = NoSecrets /\ NewManager(0, c).pc = "idle"
        /\ NewManager(0, c).after = ""
    BY DEF NewManager
  <2>3. \A g \in Gens : NoSecrets[g] = 0
    BY DEF NoSecrets
  <2> QED BY <2>1, <2>2, <2>3
<1>4. RootsNumbered
  BY <1>1, <1>2 DEF RootsNumbered
<1>5. SecretsNumbered
  <2>1. \A m \in Managers : \A h \in Gens : am[m].generated[h] = 0
    BY <1>3
  <2>2. 0 <= keys
    BY <1>1
  <2> QED BY <2>1, <2>2 DEF SecretsNumbered
<1>6. \A m \in Managers : OpensActive(m)
  BY <1>3 DEF OpensActive, Forgetting
<1> QED BY <1>4, <1>5, <1>6 DEF GInv

-----------------------------------------------------------------------------
\* A generated secret of a root that is active or pending stays in its manager
\* until Close, Purge or the end of the process, for any number of managers,
\* with failed writes, discarded and repeated stagings and purges anywhere.
THEOREM GeneratedSecretsAreKept == AuthSpec => GeneratedSecretStays
<1>1. AuthInit => IInv /\ GInv
  BY InitIInv, SecretsInit
<1>2. IInv /\ GInv /\ [AuthNext]_authVars => IInv' /\ GInv'
  BY NextIInv, SecretsStep
<1>3. IInv /\ GInv /\ [AuthNext]_authVars =>
        [\A m \in Managers : \A g \in Gens :
           LET k == am[m].generated[g] IN
           k # 0 /\ LiveRoot(store', k) =>
              \/ am'[m].generated[g] = k
              \/ am'[m].closed
              \/ am'[m] = NewManager(am'[m].rootUnlock, am'[m].configured)]_<<am, store>>
  BY SecretsStep DEF Stays
<1> QED BY <1>1, <1>2, <1>3, PTL DEF AuthSpec, GeneratedSecretStays

-----------------------------------------------------------------------------
(***************************************************************************)
(* The local unlock file, with one manager.                                *)
(***************************************************************************)
UnlockInv(m) == PromotedAlone(m) /\ DiscardedGone(m) /\ RewriteKeeps(m)

\* What StoredSecretStays says of one step.
FileStays ==
    \A g \in Gens :
        FileRight(g) /\ store'.roots[g] = store.roots[g] =>
            unlocks'.present /\ unlocks'.secrets[g] = unlocks.secrets[g]

\* Nothing is under way.
LEMMA NothingUnderWay ==
  ASSUME NEW m \in Managers, am'[m].pc \notin {"promoted", "promoted2", "discarded", "rewrite"}
  PROVE  UnlockInv(m)'
  BY DEF UnlockInv, PromotedAlone, Forgetting, DiscardedGone, RewriteKeeps

LEMMA FileUntouched ==
  ASSUME unlocks' = unlocks
  PROVE  FileStays
  BY DEF FileStays, FileRight

\* A root that opens has a key number.
LEMMA RightIsNotEmpty ==
  ASSUME IInv, RootsNumbered, NEW g \in Gens, FileRight(g)
  PROVE  /\ store.roots[g].kid # 0 /\ FileSecret(g) = store.roots[g].kid
         /\ store = NoAuthority \/ Provisioned(store)
  BY DEF FileRight, RootsNumbered, FileSecret

\* The updates of PromotePending and DiscardPending.
LEMMA UpdateUnlocks ==
  ASSUME IInv, IInv', GInv, NEW m \in Managers, PromotePending(m) \/ DiscardPending(m)
  PROVE  UnlockInv(m)' /\ FileStays
<1>1. am \in [Managers -> AuthorityManager] /\ am[m] \in AuthorityManager
  BY MemoryTypes
<1>2. /\ RootsNumbered /\ Provisioned(store) /\ store.pending.kind # "none"
      /\ keys' = keys /\ unlocks' = unlocks /\ am[m].pc = "idle" /\ OpensActive(m)
  BY DEF GInv, PromotePending, DiscardPending, Ready
<1>3. FileStays
  BY <1>2, FileUntouched
<1>4. CASE PromotePending(m)
  <2>1. PICK option \in exported \cup {0}, w \in WriteOutcomes,
             d \in 0..MaxTime + MaximumLeafValidity + ClockSkew :
          /\ PendingRoot(store) =>
               pendingRootSecret(m, option) = store.roots[store.pending.root].kid
          /\ store' = Persisted(promote(store, d), w)
          /\ am' = IF w = "ok"
                   THEN [am EXCEPT ![m].pc = "promoted", ![m].secret = promotedSecret(m, option)]
                   ELSE am
    BY <1>4 DEF PromotePending
  <2>2. CASE w # "ok"
    <3>1. am'[m].pc = "idle"
      BY <1>2, <2>1, <2>2
    <3> QED BY <1>3, <3>1, NothingUnderWay
  <2>3. CASE w = "ok"
    <3>1. d \in Nat
      BY StateConstants, AuthorityConstants
    <3>2. /\ \A g \in Gens : store'.roots[g].kid = store.roots[g].kid
          /\ Provisioned(store') /\ ~PendingRoot(store')
          /\ store'.activeRoot = IF PendingRoot(store) THEN store.pending.root ELSE store.activeRoot
      BY <1>2, <2>1, <2>3, <3>1, PromoteRoots
    <3>3. /\ am'[m].pc = "promoted" /\ am'[m].secret = promotedSecret(m, option)
      BY <1>1, <2>1, <2>3 DEF AuthorityManager
    <3>4. promotedSecret(m, option) \in {0, store'.roots[store'.activeRoot].kid}
      <4>1. CASE ~PendingRoot(store)
        BY <4>1 DEF promotedSecret
      <4>2. CASE PendingRoot(store)
        <5>1. promotedSecret(m, option) \in {0, pendingRootSecret(m, option)}
          BY <4>2 DEF promotedSecret, pendingRootSecret
        <5>2. store.pending.root \in Gens
          BY <1>2, <4>2, ProvisionedFacts DEF Consistent, PendingIsNew, Gens
        <5> QED BY <2>1, <3>2, <4>2, <5>1, <5>2
      <4> QED BY <4>1, <4>2
    <3>5. UnlockInv(m)'
      BY <3>2, <3>3, <3>4 DEF UnlockInv, PromotedAlone, Forgetting, DiscardedGone, RewriteKeeps
    <3> QED BY <1>3, <3>5
  <2> QED BY <2>2, <2>3
<1>5. CASE DiscardPending(m)
  <2> DEFINE secrets == [g \in Gens |-> IF g = store.pending.root THEN 0 ELSE am[m].generated[g]]
             rec == [am[m] EXCEPT !.pc = "discarded", !.gen = store.pending.root,
                                  !.generated = secrets]
  <2>1. PICK w \in WriteOutcomes :
          /\ store' = Persisted(discard(store), w)
          /\ am' = IF w = "ok" THEN [am EXCEPT ![m] = rec] ELSE am
    BY <1>1, <1>5 DEF DiscardPending
  <2>2. CASE w # "ok"
    <3>1. am'[m].pc = "idle"
      BY <1>2, <2>1, <2>2
    <3> QED BY <1>3, <3>1, NothingUnderWay
  <2>3. CASE w = "ok"
    <3>1. \A g \in Gens : g = store.pending.root => store'.roots[g].kid = 0
      BY <1>2, <2>1, <2>3, DiscardRoots
    <3>2. rec.pc = "discarded" /\ rec.gen = store.pending.root
      BY <1>1 DEF AuthorityManager
    <3>3. am'[m] = rec
      BY <1>1, <2>1, <2>3
    <3> HIDE DEF rec
    <3>4. store.pending.root # 0 => store.pending.root \in Gens
      BY <1>2, ProvisionedFacts DEF Gens
    <3>5. UnlockInv(m)'
      BY <3>1, <3>2, <3>3, <3>4
         DEF UnlockInv, PromotedAlone, Forgetting, DiscardedGone, RewriteKeeps
    <3> QED BY <1>3, <3>5
  <2> QED BY <2>2, <2>3
<1> QED BY <1>4, <1>5

\* A manager with an unlock map in its hands.
LEMMA ReadUnlocks ==
  ASSUME IInv, IInv', GInv, NEW m \in Managers, SecretsInv(m),
         PromoteReload(m) \/ PromoteReadUnlocks(m) \/ DiscardReadUnlocks(m) \/ StoreReadUnlocks(m)
  PROVE  UnlockInv(m)' /\ FileStays
<1>1. am \in [Managers -> AuthorityManager] /\ am[m] \in AuthorityManager
  BY MemoryTypes
<1>2. RootsNumbered /\ OpensActive(m) /\ OwnSecrets(m) /\ UNCHANGED <<store, unlocks>>
  BY DEF GInv, SecretsInv, PromoteReload, PromoteReadUnlocks, DiscardReadUnlocks, StoreReadUnlocks
<1>3. FileStays
  BY <1>2, FileUntouched
<1>4. ASSUME NEW rec \in AuthorityManager, am' = [am EXCEPT ![m] = Idle(rec)]
      PROVE  UnlockInv(m)'
  <2>1. Idle(rec).pc = "idle"
    BY LocalFields, ZeroGeneration
  <2>2. am'[m] = Idle(rec)
    BY <1>1, <1>4
  <2> QED BY <2>1, <2>2, NothingUnderWay
<1>5. CASE PromoteReload(m)
  <2>1. am[m].pc = "promoted"
    BY <1>5 DEF PromoteReload
  <2>2. Provisioned(store) /\ ~PendingRoot(store)
        /\ am[m].secret \in {0, store.roots[store.activeRoot].kid}
    BY <2>1 DEF SecretsInv, PromotedAlone
  <2> DEFINE rec == [am[m] EXCEPT !.pc = "promoted2", !.gen = store.activeRoot]
  <2>3. am' = [am EXCEPT ![m] = rec]
    BY <1>5, <2>2 DEF PromoteReload
  <2>4. am'[m] = rec
    BY <1>1, <2>3
  <2>5. rec.pc = "promoted2" /\ rec.gen = store.activeRoot /\ rec.secret = am[m].secret
    BY <1>1 DEF AuthorityManager
  <2> HIDE DEF rec
  <2>6. UnlockInv(m)'
    BY <1>2, <2>2, <2>4, <2>5
       DEF UnlockInv, PromotedAlone, Forgetting, DiscardedGone, RewriteKeeps, Provisioned, PendingRoot
  <2> QED BY <1>3, <2>6
\* The map has the right secrets of the file.
<1>6. ASSUME NEW rec, am' = [am EXCEPT ![m] = rec], rec.pc = "rewrite",
             \A g \in Gens : FileRight(g) => rec.values[g] = store.roots[g].kid,
             rec.after = "forget" => /\ Provisioned(store) /\ ~PendingRoot(store)
                                     /\ rec.gen = store.activeRoot
      PROVE  UnlockInv(m)'
  <2>1. am'[m] = rec
    BY <1>1, <1>6
  <2>2. \A g \in Gens : FileRight(g)' => FileRight(g)
    BY <1>2 DEF FileRight
  <2> QED BY <1>2, <1>6, <2>1, <2>2
          DEF UnlockInv, PromotedAlone, Forgetting, DiscardedGone, RewriteKeeps, Provisioned, PendingRoot
<1>7. CASE PromoteReadUnlocks(m)
  <2>1. am[m].pc = "promoted2"
    BY <1>7 DEF PromoteReadUnlocks
  <2>2. /\ Provisioned(store) /\ ~PendingRoot(store) /\ am[m].gen = store.activeRoot
        /\ am[m].secret \in {0, store.roots[store.activeRoot].kid}
    BY <2>1 DEF SecretsInv, PromotedAlone, Forgetting
  <2>3. CASE ~(unlocks.present /\ KeptSecret(m) # 0)
    <3>1. am' = [am EXCEPT ![m] = Idle(Forget(am[m], am[m].gen))]
      BY <1>7, <2>3 DEF PromoteReadUnlocks
    <3>2. Forget(am[m], am[m].gen) \in AuthorityManager
      BY <1>1, ManagerTypes, MemoryTypes
    <3> QED BY <1>3, <1>4, <3>1, <3>2
  <2>4. CASE unlocks.present /\ KeptSecret(m) # 0
    <3> DEFINE values == [NoSecrets EXCEPT ![am[m].gen] = KeptSecret(m)]
               rec == [am[m] EXCEPT !.pc = "rewrite", !.replace = TRUE, !.after = "forget",
                                    !.values = values]
    <3>1. am' = [am EXCEPT ![m] = rec]
      BY <1>7, <2>4 DEF PromoteReadUnlocks
    <3>2. am[m].gen \in Gens
      BY <2>2, ProvisionedFacts
    <3>3. values[am[m].gen] = KeptSecret(m)
      BY <3>2 DEF NoSecrets
    <3> HIDE DEF values
    <3>4. rec.pc = "rewrite" /\ rec.values = values /\ rec.gen = am[m].gen
      BY <1>1 DEF AuthorityManager
    <3> HIDE DEF rec
    <3>5. ASSUME NEW g \in Gens, FileRight(g) PROVE values[g] = store.roots[g].kid
      <4>1. store.roots[g].kid # 0 /\ FileSecret(g) = store.roots[g].kid /\ store.roots[g].key
        BY <1>2, <3>5, RightIsNotEmpty DEF FileRight
      <4>2. g = am[m].gen
        BY <2>2, <4>1, ProvisionedFacts DEF Consistent, validateState, RootKeysExact
      <4>3. KeptSecret(m) = store.roots[g].kid
        <5>1. am[m].generated[g] # 0 => am[m].generated[g] = store.roots[g].kid
          BY <1>2, <4>1 DEF OwnSecrets
        <5> QED BY <2>2, <4>1, <4>2, <5>1 DEF KeptSecret
      <4> QED BY <3>3, <4>2, <4>3
    <3> QED BY <1>3, <1>6, <2>2, <3>1, <3>4, <3>5
  <2> QED BY <2>3, <2>4
<1>8. CASE DiscardReadUnlocks(m)
  <2>1. am[m].pc = "discarded" /\ am[m].after # "forget"
    BY <1>2, <1>8 DEF DiscardReadUnlocks, OpensActive
  <2>2. CASE ~unlocks.present
    BY <1>1, <1>3, <1>4, <1>8, <2>2 DEF DiscardReadUnlocks
  <2>3. CASE unlocks.present
    <3> DEFINE values == [g \in Gens |-> IF g = am[m].gen THEN 0 ELSE unlocks.secrets[g]]
               rec == [am[m] EXCEPT !.pc = "rewrite", !.replace = TRUE, !.values = values]
    <3>1. am' = [am EXCEPT ![m] = rec]
      BY <1>8, <2>3 DEF DiscardReadUnlocks
    <3>2. ASSUME NEW g \in Gens, FileRight(g) PROVE values[g] = store.roots[g].kid
      <4>1. g # 0 /\ store.roots[g].kid # 0
        BY <1>2, <3>2, RightIsNotEmpty DEF Gens
      <4>2. g # am[m].gen
        BY <2>1, <4>1 DEF SecretsInv, DiscardedGone
      <4> QED BY <3>2, <4>2 DEF FileRight
    <3> HIDE DEF values
    <3>3. rec.pc = "rewrite" /\ rec.values = values /\ rec.after = am[m].after
      BY <1>1 DEF AuthorityManager
    <3> HIDE DEF rec
    <3> QED BY <1>3, <1>6, <2>1, <3>1, <3>2, <3>3
  <2> QED BY <2>2, <2>3
<1>9. CASE StoreReadUnlocks(m)
  <2>1. am[m].after # "forget"
    BY <1>2, <1>9 DEF StoreReadUnlocks, OpensActive
  <2>2. CASE am' = [am EXCEPT ![m] = Idle(am[m])]
    BY <1>1, <1>3, <1>4, <2>2
  <2>3. CASE am' = [am EXCEPT ![m] = [am[m] EXCEPT !.pc = "rewrite", !.values = StoredValues(m)]]
    <3> DEFINE rec == [am[m] EXCEPT !.pc = "rewrite", !.values = StoredValues(m)]
    <3>1. am' = [am EXCEPT ![m] = rec]
      BY <2>3
    <3>2. rec.pc = "rewrite" /\ rec.values = StoredValues(m) /\ rec.after = am[m].after
      BY <1>1 DEF AuthorityManager
    <3> HIDE DEF rec
    <3>3. ASSUME NEW g \in Gens, FileRight(g) PROVE StoredValues(m)[g] = store.roots[g].kid
      <4>1. store.roots[g].kid # 0 /\ FileSecret(g) = store.roots[g].kid
        BY <1>2, <3>3, RightIsNotEmpty
      <4>2. am[m].generated[g] # 0 => am[m].generated[g] = store.roots[g].kid
        BY <1>2, <4>1 DEF OwnSecrets
      <4> QED BY <4>1, <4>2 DEF StoredValues
    <3> QED BY <1>3, <1>6, <2>1, <3>1, <3>2, <3>3
  <2> QED BY <1>9, <2>2, <2>3 DEF StoreReadUnlocks
<1> QED BY <1>5, <1>7, <1>8, <1>9

\* The write of the file, and the operations that leave nothing under way.
LEMMA EndUnlocks ==
  ASSUME IInv, IInv', GInv, NEW m \in Managers, SecretsInv(m),
         \/ Ensure(m) \/ StoreLocalUnlock(m) \/ StoreUnlocks(m) \/ ExportGeneratedUnlock(m)
         \/ Purge(m) \/ PurgeStore(m) \/ Close(m) \/ Restart(m)
  PROVE  UnlockInv(m)' /\ FileStays
<1>1. am \in [Managers -> AuthorityManager] /\ am[m] \in AuthorityManager
  BY MemoryTypes
<1>2. Idle(am[m]).pc = "idle" /\ Idle(am[m]) \in AuthorityManager
  BY <1>1, LocalFields, ManagerTypes, ZeroGeneration
<1>3. CASE Ensure(m)
  <2>1. am[m].pc = "idle" /\ unlocks' = unlocks
    BY <1>3 DEF Ensure, EnsureProvision, EnsureStageRoot, EnsureStageIssuers, EnsureAddIssuers,
                EnsureReconciles, Ready
  <2>2. am'[m].pc = am[m].pc
    <3>1. ASSUME NEW p \in Gens, NEW k \in Nat, am' = [am EXCEPT ![m].generated[p] = k]
          PROVE  am'[m].pc = am[m].pc
      BY <1>1, <3>1 DEF AuthorityManager
    <3>2. am' = am \/ \E p \in Gens, k \in Nat : am' = [am EXCEPT ![m].generated[p] = k]
      <4>1. CASE EnsureProvision(m)
        <5>1. 1 \in Gens /\ keys + 1 \in Nat
          BY StateConstants DEF Gens, IInv, AuthTypeOK
        <5> QED BY <4>1, <5>1 DEF EnsureProvision
      <4>2. ASSUME NEW before \in RotateBefores, EnsureStageRoot(m, before)
            PROVE  \E p \in Gens, k \in Nat : am' = [am EXCEPT ![m].generated[p] = k]
        <5>1. StagingKey(m) \in Nat
          BY <4>2, ReconciledFacts DEF EnsureStageRoot
        <5> QED BY <4>2, <5>1 DEF EnsureStageRoot
      <4> QED BY <1>3, <4>1, <4>2 DEF Ensure, EnsureStageIssuers, EnsureAddIssuers
    <3> QED BY <3>1, <3>2
  <2> QED BY <2>1, <2>2, NothingUnderWay, FileUntouched
<1>4. CASE StoreLocalUnlock(m) \/ ExportGeneratedUnlock(m) \/ Purge(m) \/ Close(m) \/ Restart(m)
  <2>1. unlocks' = unlocks
    BY <1>4 DEF StoreLocalUnlock, ExportGeneratedUnlock, Purge, Close, Restart
  <2>2. am'[m].pc \in {"idle", "storing", "purging"}
    <3>1. CASE StoreLocalUnlock(m)
      <4>1. PICK replace \in BOOLEAN :
              am' = [am EXCEPT ![m].pc = "storing", ![m].gen = store.activeRoot,
                               ![m].pend = store.pending.root, ![m].replace = replace]
        BY <3>1 DEF StoreLocalUnlock
      <4> QED BY <1>1, <4>1 DEF AuthorityManager
    <3>2. CASE ExportGeneratedUnlock(m)
      BY <3>2 DEF ExportGeneratedUnlock, Ready
    <3>3. CASE Purge(m)
      BY <1>1, <3>3 DEF Purge, AuthorityManager
    <3>4. CASE Close(m)
      BY <1>1, <3>4 DEF Close, Ready, AuthorityManager
    <3>5. CASE Restart(m)
      <4>1. PICK u \in exported \cup {0}, c \in Configurations :
              am' = [am EXCEPT ![m] = NewManager(u, c)]
        BY <3>5 DEF Restart
      <4>2. NewManager(u, c).pc = "idle"
        BY DEF NewManager
      <4> QED BY <1>1, <4>1, <4>2
    <3> QED BY <1>4, <3>1, <3>2, <3>3, <3>4, <3>5
  <2> QED BY <2>1, <2>2, NothingUnderWay, FileUntouched
<1>5. CASE StoreUnlocks(m)
  <2>1. am[m].pc = "rewrite" /\ store' = store
    BY <1>5 DEF StoreUnlocks
  <2>2. am'[m].pc = "idle"
    <3>1. Idle(Forget(am[m], am[m].gen)).pc = "idle"
      BY <1>1, LocalFields, MemoryTypes
    <3> QED BY <1>1, <1>2, <1>5, <3>1 DEF StoreUnlocks
  <2>3. unlocks' = unlocks \/ unlocks' = [present |-> TRUE, secrets |-> am[m].values]
    BY <1>5 DEF StoreUnlocks
  <2>4. FileStays
    <3>1. ASSUME NEW g \in Gens, FileRight(g)
          PROVE  unlocks'.present /\ unlocks'.secrets[g] = unlocks.secrets[g]
      <4>1. am[m].values[g] = store.roots[g].kid
        BY <2>1, <3>1 DEF SecretsInv, RewriteKeeps
      <4> QED BY <2>3, <3>1, <4>1 DEF FileRight
    <3> QED BY <3>1 DEF FileStays
  <2> QED BY <2>2, <2>4, NothingUnderWay
<1>6. CASE PurgeStore(m)
  <2>1. store' = NoAuthority /\ am'[m] = [Idle(am[m]) EXCEPT !.generated = NoSecrets, !.closed = TRUE]
    BY <1>1, <1>6 DEF PurgeStore
  <2>2. am'[m].pc = "idle"
    BY <1>2, <2>1 DEF AuthorityManager
  <2>3. FileStays
    BY <2>1, NoAuthorityRoots DEF FileStays, FileRight
  <2> QED BY <2>2, <2>3, NothingUnderWay
<1> QED BY <1>3, <1>4, <1>5, <1>6

\* PruneRoot may come between any two steps of the manager, and so may time.
LEMMA PruneUnlocks ==
  ASSUME IInv, IInv', GInv, NEW m \in Managers, SecretsInv(m),
         PruneRoot(m) \/ UNCHANGED <<store, unlocks, am>>
  PROVE  UnlockInv(m)' /\ FileStays
<1>1. unlocks' = unlocks /\ am' = am
  BY DEF PruneRoot
<1>2. /\ \A g \in Gens : /\ store'.roots[g].kid = store.roots[g].kid
                         /\ store'.roots[g].key = store.roots[g].key
      /\ store'.activeRoot = store.activeRoot /\ store'.pending = store.pending
      /\ Provisioned(store') <=> Provisioned(store)
  <2>1. CASE PruneRoot(m)
    BY <2>1, PruneRoots DEF GInv
  <2>2. CASE store' = store
    BY <2>2
  <2> QED BY <2>1, <2>2
<1>3. \A g \in Gens : FileRight(g)' <=> FileRight(g)
  BY <1>1, <1>2 DEF FileRight
<1>4. Provisioned(store) => store.activeRoot \in Gens
  BY ProvisionedFacts
<1>5. am[m].gen # 0 => am[m].gen \in Gens
  BY MemoryTypes DEF Gens
<1>6. PromotedAlone(m)'
  BY <1>1, <1>2, <1>4 DEF SecretsInv, PromotedAlone, Forgetting, PendingRoot
<1>7. DiscardedGone(m)'
  BY <1>1, <1>2, <1>5 DEF SecretsInv, DiscardedGone
<1>8. RewriteKeeps(m)'
  BY <1>1, <1>2, <1>3 DEF SecretsInv, RewriteKeeps
<1> QED BY <1>1, <1>6, <1>7, <1>8, FileUntouched DEF UnlockInv

LEMMA UnlocksStep ==
  ASSUME NEW m0, Managers = {m0}, IInv, GInv, SecretsInv(m0), [AuthNext]_authVars
  PROVE  SecretsInv(m0)' /\ FileStays
<1>1. IInv' /\ m0 \in Managers
  BY NextIInv
<1>2. CASE UNCHANGED <<keys, store, unlocks, am>>
  BY <1>1, <1>2, ClockSecrets, PruneUnlocks DEF SecretsInv, UnlockInv, OwnKept
<1>3. CASE ManagerStep(m0)
  <2>1. OwnSecrets(m0)'
    BY <1>1, <1>3, ManagerSecrets DEF OwnKept, SecretsInv
  <2>2. UnlockInv(m0)' /\ FileStays
    BY <1>1, <1>3, UpdateUnlocks, ReadUnlocks, EndUnlocks, PruneUnlocks DEF ManagerStep
  <2> QED BY <2>1, <2>2 DEF SecretsInv, UnlockInv
<1> QED BY <1>2, <1>3 DEF AuthNext, Tick, authVars

LEMMA UnlocksInit ==
  ASSUME AuthInit, NEW m \in Managers
  PROVE  SecretsInv(m)
<1>1. PICK c \in Configurations : am[m] = NewManager(0, c)
  BY DEF AuthInit
<1>2. NewManager(0, c).generated = NoSecrets /\ NewManager(0, c).pc = "idle"
  BY DEF NewManager
<1>3. \A g \in Gens : NoSecrets[g] = 0
  BY DEF NoSecrets
<1>4. \A g \in Gens : am[m].generated[g] = 0
  BY <1>1, <1>2, <1>3
<1>5. am[m].pc = "idle"
  BY <1>1, <1>2
<1> QED BY <1>4, <1>5
        DEF SecretsInv, OwnSecrets, PromotedAlone, Forgetting, DiscardedGone, RewriteKeeps

-----------------------------------------------------------------------------
\* With one manager, a right secret for a root that stays active or pending is
\* neither forgotten nor dropped from the local unlock file by an operation, a
\* failed one, a crash in the middle of one, or a new process that has other
\* secrets.  (Two managers can drop it from the file: run unlockfile.)
THEOREM SecretsAreKept ==
  ASSUME NEW m0, Managers = {m0}
  PROVE  AuthSpec => SecretsStay
<1>1. AuthInit => IInv /\ GInv /\ SecretsInv(m0)
  BY InitIInv, SecretsInit, UnlocksInit
<1>2. IInv /\ GInv /\ SecretsInv(m0) /\ [AuthNext]_authVars => IInv' /\ GInv' /\ SecretsInv(m0)'
  BY NextIInv, SecretsStep, UnlocksStep
<1>3. IInv /\ GInv /\ SecretsInv(m0) /\ [AuthNext]_authVars =>
        [\A g \in Gens :
           /\ unlocks.present
           /\ store.roots[g].key
           /\ unlocks.secrets[g] = store.roots[g].kid
           /\ store'.roots[g] = store.roots[g]
           => unlocks'.present /\ unlocks'.secrets[g] = unlocks.secrets[g]]_<<unlocks, store>>
  BY UnlocksStep DEF FileStays, FileRight
<1>4. AuthSpec => StoredSecretStays
  BY <1>1, <1>2, <1>3, PTL DEF AuthSpec, StoredSecretStays
<1> QED BY <1>4, GeneratedSecretsAreKept DEF SecretsStay
=============================================================================
