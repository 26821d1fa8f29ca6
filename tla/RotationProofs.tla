--------------------------- MODULE RotationProofs ---------------------------
(***************************************************************************)
(* Proofs about Rotation: a controller that works (InTime) and rotates     *)
(* roots early enough never lets the active root or an active issuer       *)
(* expire, for any number of issuers, any validities and any time.         *)
(***************************************************************************)
EXTENDS Rotation, AuthorityProofs

(***************************************************************************)
(* That nothing has expired is not inductive.  How many periods are left   *)
(* depends on where the controller is: a renewal is staged two periods     *)
(* before the end, waits at most until the next one, in which Ensure only  *)
(* answers that something is pending, and is then promoted.  All issuers   *)
(* have the same end, because they are made and renewed together: otherwise*)
(* one that became due while another was pending would come too late.      *)
(***************************************************************************)

\* What is active in s is valid at instant n.
Lasts(s, n) ==
    /\ n <= s.roots[s.activeRoot].notAfter
    /\ \A slug \in Known(s) : n <= ActiveVersion(s, slug).notAfter

Together(s) ==
    \A x, y \in Known(s) : ActiveVersion(s, x).notAfter = ActiveVersion(s, y).notAfter

\* Every issuer has a successor that was made at n, under a root that lasts.
Staged(s, n) ==
    /\ \A slug \in Known(s) :
          /\ s.pending.issuers[slug] # 0
          /\ s.issuers[slug].versions[s.pending.issuers[slug]].notAfter = n + IssuerValidity
    /\ n + IssuerValidity
          <= s.roots[IF PendingRoot(s) THEN s.pending.root ELSE s.activeRoot].notAfter

ThisPeriod == turn = "promote" /\ fresh

\* The periods that are left at least.
Margin ==
    IF store.pending.kind = "none" THEN IF turn = "ensure" THEN 2 ELSE 3
    ELSE IF ThisPeriod THEN 2 ELSE 1

\* When the pending transaction was staged.
StagedAt == IF ThisPeriod THEN now ELSE now - 1

Timed ==
    /\ Lasts(store, now + Margin)
    /\ Together(store)
    /\ store.pending.kind # "none" => Staged(store, StagedAt)

ControllerOK ==
    /\ before \in Befores /\ turn \in {"ensure", "promote"} /\ fresh \in BOOLEAN
    /\ \A m \in Managers : am[m].configured \in Configurations
    /\ Provisioned(store) => \A m \in Managers : am[m].configured \subseteq Known(store)
    /\ store.pending.kind # "none" => Provisioned(store)

RInv ==
    /\ IInv /\ ControllerOK
    /\ RootsEarly /\ Provisioned(store) => Timed

-----------------------------------------------------------------------------
\* Numbers

\* What the constants and the controller's pair say.
LEMMA Numbers ==
  ASSUME BeforesAreNat, InTime, RInv
  PROVE  /\ IssuerValidity \in Nat /\ RootValidity \in Nat /\ ClockSkew \in Nat /\ now \in Nat
         /\ 4 <= IssuerValidity /\ IssuerValidity + ClockSkew <= RootValidity
         /\ before.root \in Nat \ {0} /\ before.issuer \in Nat \ {0} /\ 2 <= before.issuer
         /\ before.issuer < IssuerValidity /\ before.root < RootValidity
         /\ RootsEarly <=> IssuerValidity + ClockSkew <= before.root
<1>1. before \in Befores /\ now \in Nat
  BY DEF RInv, ControllerOK, IInv, AuthTypeOK
<1>2. before.root \in Nat \ {0} /\ before.issuer \in Nat \ {0}
  BY <1>1 DEF BeforesAreNat
<1>3. IssuerValidity \in Nat /\ RootValidity \in Nat /\ ClockSkew \in Nat
  BY StateConstants
<1>4. IssuerValidity >= 4 /\ before.issuer \in 2..IssuerValidity - 1 /\ before.root < RootValidity
  BY <1>1 DEF InTime
<1>5. IssuerValidity + ClockSkew <= RootValidity
  BY IssuerFitsNewRoot
<1> QED BY <1>1, <1>2, <1>3, <1>4, <1>5 DEF RootsEarly

\* The ends of what is active are numbers.
LEMMA Ends ==
  ASSUME NEW s \in authorityState, s.activeRoot # 0
  PROVE  /\ s.activeRoot \in Gens /\ s.roots[s.activeRoot].notAfter \in Nat
         /\ \A slug \in Known(s) :
               /\ slug \in Slugs /\ s.issuers[slug].active \in Versions
               /\ ActiveVersion(s, slug).notAfter \in Nat
<1>1. s.activeRoot \in Gens
  BY StateConstants DEF authorityState, Gens
<1>2. s.roots[s.activeRoot].notAfter \in Nat
  BY <1>1 DEF authorityState, rootRecord
<1>3. ASSUME NEW slug \in Known(s)
      PROVE  /\ slug \in Slugs /\ s.issuers[slug].active \in Versions
             /\ ActiveVersion(s, slug).notAfter \in Nat
  <2>1. slug \in Slugs /\ s.issuers[slug].active # 0
    BY DEF Known
  <2>2. s.issuers[slug].active \in Versions
    BY <2>1, FieldTypes, StateConstants DEF Versions
  <2>3. s.issuers[slug].versions[s.issuers[slug].active] \in issuerVersion
    BY <2>1, <2>2, FieldTypes
  <2> QED BY <2>1, <2>2, <2>3 DEF ActiveVersion, issuerVersion
<1> QED BY <1>1, <1>2, <1>3

\* No write fails.
LEMMA Written ==
  ASSUME InTime, NEW s, NEW w \in WriteOutcomes
  PROVE  Persisted(s, w) = Bump(s) /\ w = "ok"
<1>1. w = "ok"
  BY DEF InTime, WriteOutcomes
<1> QED BY <1>1 DEF Persisted

\* A new revision is the same to the controller.
LEMMA BumpKeeps ==
  ASSUME NEW s \in authorityState
  PROVE  LET t == Bump(s)
         IN /\ t.roots = s.roots /\ t.activeRoot = s.activeRoot /\ t.issuers = s.issuers
            /\ t.pending = s.pending /\ t.id = s.id
  BY DEF Bump, authorityState

-----------------------------------------------------------------------------
\* Ensure

LEMMA ProvisionTimed ==
  ASSUME BeforesAreNat, InTime, RInv, NEW m \in Managers, EnsureProvision(m),
         turn = "ensure", turn' = "promote", before' = before
  PROVE  /\ Timed' /\ store'.pending.kind = "none" /\ Provisioned(store')
         /\ Known(store') = am[m].configured
         /\ store'.roots[store'.activeRoot].notAfter = now + RootValidity
         /\ \A slug \in Known(store') : ActiveVersion(store', slug).notAfter = now + IssuerValidity
<1>1. keys \in Nat /\ keys + 1 \in Nat /\ keys + 1 # 0 /\ now \in Nat /\ now' = now
      /\ am[m].configured \in SUBSET Slugs
  <2>1. am[m] \in AuthorityManager /\ keys \in Nat /\ now \in Nat /\ now' = now
    BY DEF RInv, IInv, AuthTypeOK, EnsureProvision
  <2>2. am[m].configured \in SUBSET Slugs
    BY <2>1 DEF AuthorityManager
  <2> QED BY <2>1, <2>2
<1>2. PICK mode \in IssuanceModes, w \in WriteOutcomes :
        store' = Persisted(provision(keys + 1, now, am[m].configured, mode), w)
  BY DEF EnsureProvision
<1> DEFINE root == makeRoot(keys + 1, now)
           t == provision(keys + 1, now, am[m].configured, mode)
<1>3. 1 \in Gens /\ 1 \in Versions /\ root.notAfter = now + RootValidity /\ root \in rootRecord
  BY <1>1, StateConstants, MaterialType DEF Gens, Versions, makeRoot
<1>4. t \in authorityState
  BY <1>1, ProvisionType
<1>5. /\ t.id = keys + 1 /\ t.activeRoot = 1 /\ t.roots[1] = root /\ t.pending = NoPending
      /\ \A slug \in Slugs : t.issuers[slug] = IF slug \in am[m].configured
                                               THEN FirstVersion(1, root, keys + 1, now) ELSE NoIssuer
  BY <1>3 DEF provision, NoAuthority
<1>6. store' = Bump(t)
  BY <1>2, Written
<1> HIDE DEF t
<1>7. /\ store'.id = keys + 1 /\ store'.activeRoot = 1 /\ store'.roots[1] = root
      /\ store'.pending = NoPending /\ store'.issuers = t.issuers
  BY <1>4, <1>5, <1>6, BumpKeeps
<1>8. FirstVersion(1, root, keys + 1, now).active = 1
      /\ FirstVersion(1, root, keys + 1, now).versions[1].notAfter = now + IssuerValidity
  <2>1. makeIssuer(1, root, keys + 1, now).notAfter = now + IssuerValidity
    BY DEF makeIssuer
  <2> HIDE DEF root
  <2> QED BY <1>1, <1>3, <2>1, FirstVersionFields
<1> HIDE DEF root
<1>9. Known(store') = am[m].configured
  BY <1>1, <1>5, <1>7, <1>8 DEF Known, NoIssuer
<1>10. \A slug \in Known(store') : ActiveVersion(store', slug).notAfter = now + IssuerValidity
  BY <1>1, <1>5, <1>7, <1>8, <1>9 DEF ActiveVersion
<1>11. store'.roots[store'.activeRoot].notAfter = now + RootValidity
  BY <1>3, <1>7
<1>12. store'.pending.kind = "none"
  BY <1>7 DEF NoPending
<1>13. Margin' = 3
  BY <1>12 DEF Margin
<1>14. Lasts(store, now + Margin)'
  BY <1>1, <1>10, <1>11, <1>13, Numbers DEF Lasts
<1>15. Together(store')
  BY <1>10 DEF Together
<1> QED BY <1>1, <1>7, <1>9, <1>10, <1>11, <1>12, <1>14, <1>15 DEF Timed, Provisioned

\* Nothing is added by a controller whose issuers are all there.
LEMMA ReconciledIs ==
  ASSUME RInv, NEW m \in Managers, EnsureReconciles(m)
  PROVE  /\ store \in authorityState /\ store.activeRoot # 0 /\ Consistent(store)
         /\ Provisioned(store) /\ store.pending.kind = "none"
         /\ Reconciled(m) \in authorityState /\ Reconciled(m).id = store.id
         /\ Reconciled(m).issuers = store.issuers /\ Known(Reconciled(m)) = Known(store)
         /\ Reconciled(m).roots = store.roots /\ Reconciled(m).activeRoot = store.activeRoot
         /\ StagingKey(m) \in Nat \ {0}
<1>1. Provisioned(store) /\ store.pending.kind = "none" /\ IInv
  BY DEF EnsureReconciles, RInv
<1>2. store \in authorityState /\ Consistent(store) /\ store.activeRoot # 0
  BY <1>1, ProvisionedFacts, StateConstants DEF Gens
<1>3. am[m].configured \ Known(store) = {}
  BY <1>1 DEF RInv, ControllerOK
<1>4. Reconciled(m).issuers = [slug \in Slugs |-> store.issuers[slug]] /\ Reconciled(m).id = store.id
  BY <1>2, <1>3 DEF Reconciled, addIssuers, authorityState
<1>5. store.issuers = [slug \in Slugs |-> store.issuers[slug]]
  BY <1>2 DEF authorityState
<1>6. Known(Reconciled(m)) = Known(store)
  BY <1>4, <1>5 DEF Known
<1> QED BY <1>1, <1>2, <1>4, <1>5, <1>6, ReconciledFacts

\* t is the record with successors for all issuers, made under "root", of
\* generation g; h is the root that is staged with them.
Stages(t, r, g, root, k, kind, h) ==
    /\ r \in authorityState /\ t \in authorityState /\ kind \in {"root", "issuer"}
    /\ r.issuers = store.issuers
    /\ t.id = store.id /\ t.activeRoot = store.activeRoot
    /\ t.roots[t.activeRoot] = store.roots[store.activeRoot]
    /\ t.issuers = stageVersions(r, Known(store), g, root, k, now)
    /\ t.pending = stagedManifest(r, kind, h, Known(store))
    /\ VersionsLeft(r, Known(store))
    /\ now + IssuerValidity <= t.roots[IF kind = "root" THEN h ELSE t.activeRoot].notAfter

\* Successors for all issuers at once, under the root that is active or staged.
LEMMA StagingTimed ==
  ASSUME BeforesAreNat, InTime, RInv, Provisioned(store), store.pending.kind = "none", Timed,
         turn = "ensure", turn' = "promote", fresh' = TRUE, now' = now,
         NEW r, NEW t, NEW g, NEW root, NEW k, NEW kind, NEW h,
         Stages(t, r, g, root, k, kind, h), store' = Bump(t)
  PROVE  Timed' /\ Known(store') = Known(store) /\ store'.pending.kind = kind
<1>1. store \in authorityState /\ store.activeRoot # 0 /\ now \in Nat
  BY ProvisionedFacts, StateConstants DEF RInv, Gens, IInv, AuthTypeOK
<1> USE DEF Stages
<1>2. /\ store'.roots = t.roots /\ store'.activeRoot = t.activeRoot /\ store'.issuers = t.issuers
      /\ store'.pending = t.pending
  BY BumpKeeps
<1>3. t.pending.kind = kind /\ t.pending.root = h
      /\ \A slug \in Known(store) : t.pending.issuers[slug] = store.issuers[slug].active + 1
  BY DEF stagedManifest, Known
<1>4. Known(store) \in SUBSET Slugs
  BY DEF Known
<1>5. ASSUME NEW slug \in Slugs
      PROVE  /\ t.issuers[slug].active = store.issuers[slug].active
             /\ \A v \in Versions :
                  t.issuers[slug].versions[v] = IF slug \in Known(store) /\ v = store.issuers[slug].active + 1
                                                THEN makeIssuer(g, root, k, now)
                                                ELSE store.issuers[slug].versions[v]
  <2> DEFINE staged == stageVersions(r, Known(store), g, root, k, now)[slug]
  <2>1. /\ staged.active = r.issuers[slug].active
        /\ \A v \in Versions :
             staged.versions[v] = IF slug \in Known(store) /\ v = r.issuers[slug].active + 1
                                  THEN makeIssuer(g, root, k, now)
                                  ELSE r.issuers[slug].versions[v]
    BY SMTT(30), <1>4, StageVersionsFields
  <2>2. t.issuers[slug] = staged /\ r.issuers = store.issuers
    OBVIOUS
  <2> HIDE DEF staged
  <2> QED BY <2>1, <2>2
<1>6. Known(store') = Known(store)
  BY <1>2, <1>5 DEF Known
<1>7. ASSUME NEW slug \in Known(store)
      PROVE  /\ store.issuers[slug].active \in Versions /\ store.issuers[slug].active + 1 \in Versions
             /\ ActiveVersion(store', slug) = ActiveVersion(store, slug)
             /\ store'.issuers[slug].versions[store'.pending.issuers[slug]].notAfter = now + IssuerValidity
             /\ store'.pending.issuers[slug] # 0
  <2>1. slug \in Slugs /\ store.issuers[slug].active \in Versions
    BY <1>1, Ends
  <2>2. PICK a \in Nat : a = store.issuers[slug].active /\ a \in Versions
    BY <2>1 DEF Versions
  <2>3. a < MaxVersion
    BY <2>2 DEF VersionsLeft
  <2>4. a + 1 \in Versions /\ a # a + 1 /\ a + 1 # 0
    BY <2>2, <2>3, StateConstants DEF Versions
  <2>5. ActiveVersion(store', slug) = ActiveVersion(store, slug)
    BY <1>2, <1>5, <2>1, <2>2, <2>4 DEF ActiveVersion
  <2>6. store'.pending.issuers[slug] = a + 1
    BY <1>2, <1>3, <2>2
  <2>7. store'.issuers[slug].versions[a + 1] = makeIssuer(g, root, k, now)
    BY <1>2, <1>5, <2>1, <2>2, <2>4
  <2>8. makeIssuer(g, root, k, now).notAfter = now + IssuerValidity
    BY DEF makeIssuer
  <2> QED BY <2>2, <2>4, <2>5, <2>6, <2>7, <2>8
<1>8. Margin = 2 /\ Margin' = 2 /\ StagedAt' = now
  BY <1>2, <1>3 DEF Margin, StagedAt, ThisPeriod
<1>9. Lasts(store', now + 2) /\ Together(store')
  BY <1>2, <1>6, <1>7, <1>8 DEF Timed, Lasts, Together
<1>10. Staged(store', now)
  BY <1>2, <1>3, <1>6, <1>7 DEF Staged, PendingRoot
<1>11. Timed'
  BY <1>8, <1>9, <1>10 DEF Timed
<1> QED BY <1>2, <1>3, <1>6, <1>11

LEMMA StageRootTimed ==
  ASSUME BeforesAreNat, InTime, RInv, Timed, NEW m \in Managers, EnsureStageRoot(m, before.root),
         turn = "ensure", turn' = "promote", fresh' = TRUE
  PROVE  Timed'
<1>1. /\ EnsureReconciles(m) /\ VersionsLeft(Reconciled(m), Known(Reconciled(m))) /\ now' = now
  BY DEF EnsureStageRoot
<1>2. PICK g \in Gens, w \in WriteOutcomes :
        /\ FreeGeneration(store, g)
        /\ store' = Persisted(prepareRoot(Reconciled(m), g, StagingKey(m), now), w)
  BY DEF EnsureStageRoot
<1> DEFINE r == Reconciled(m)
           k == StagingKey(m)
           root == makeRoot(k, now)
           t == prepareRoot(r, g, k, now)
<1>3. /\ store \in authorityState /\ store.activeRoot # 0 /\ Provisioned(store)
      /\ store.pending.kind = "none" /\ r \in authorityState /\ r.id = store.id
      /\ r.issuers = store.issuers /\ Known(r) = Known(store) /\ r.roots = store.roots
      /\ r.activeRoot = store.activeRoot /\ k \in Nat \ {0} /\ now \in Nat
  BY <1>1, ReconciledIs, ReconciledFacts DEF RInv
<1>4. store.activeRoot \in Gens /\ g # store.activeRoot /\ store.roots \in [Gens -> rootRecord]
  <2>1. store.activeRoot \in Gens /\ store.roots \in [Gens -> rootRecord]
    BY <1>3, Ends DEF authorityState
  <2>2. PICK a \in Nat : a = store.activeRoot
    BY <2>1 DEF Gens
  <2>3. g > a
    BY <1>2, <2>2 DEF FreeGeneration
  <2> QED BY <2>1, <2>2, <2>3
<1>5. t \in authorityState
  BY <1>1, <1>3, PrepareRootType
<1> HIDE DEF r, k
<1>6. /\ t.id = r.id /\ t.activeRoot = r.activeRoot /\ t.roots = [r.roots EXCEPT ![g] = root]
      /\ t.issuers = stageVersions(r, Known(r), g, root, k, now)
      /\ t.pending = stagedManifest(r, "root", g, Known(r))
  BY <1>3 DEF prepareRoot, authorityState
<1>7. store' = Bump(t)
  BY <1>2, Written DEF r, k
<1>8. root.notAfter = now + RootValidity
  BY DEF makeRoot
<1> HIDE DEF t, root
<1>9. t.roots[t.activeRoot] = store.roots[store.activeRoot] /\ t.roots[g] = root
  BY <1>3, <1>4, <1>6
<1>10. now + IssuerValidity <= t.roots[g].notAfter
  <2>1. /\ now \in Nat /\ IssuerValidity \in Nat /\ RootValidity \in Nat /\ ClockSkew \in Nat
        /\ IssuerValidity + ClockSkew <= RootValidity
    BY Numbers
  <2> QED BY <1>8, <1>9, <2>1
<1>11. VersionsLeft(r, Known(store))
  BY <1>1, <1>3 DEF r
<1>12. Stages(t, r, g, root, k, "root", g)
  BY <1>3, <1>5, <1>6, <1>9, <1>10, <1>11 DEF Stages
<1> QED BY <1>1, <1>3, <1>7, <1>12, StagingTimed

\* With the same end all issuers are due together.
LEMMA DueTogether ==
  ASSUME BeforesAreNat, RInv, Together(store), NEW s, s.issuers = store.issuers,
         issuersDue(s, IssuerBefore, now) # {}
  PROVE  issuersDue(s, IssuerBefore, now) = Known(store)
<1>1. Known(s) = Known(store) /\ \A slug : ActiveVersion(s, slug) = ActiveVersion(store, slug)
  BY DEF Known, ActiveVersion
<1>2. before.issuer # 0 /\ Known(store) \subseteq Slugs
  BY DEF RInv, ControllerOK, BeforesAreNat, Known
<1>3. \A slug \in Known(store) : IssuerBefore[slug] = before.issuer
  BY <1>2 DEF IssuerBefore
<1>4. PICK x \in Known(store) : ActiveVersion(store, x).notAfter <= now + before.issuer
  BY <1>1, <1>2, <1>3 DEF issuersDue
<1>5. \A slug \in Known(store) : ActiveVersion(store, slug).notAfter <= now + IssuerBefore[slug]
  BY <1>3, <1>4 DEF Together
<1> QED BY <1>1, <1>5 DEF issuersDue

LEMMA StageIssuersTimed ==
  ASSUME BeforesAreNat, InTime, RInv, Timed, RootsEarly, NEW m \in Managers,
         EnsureStageIssuers(m, before.root, IssuerBefore),
         turn = "ensure", turn' = "promote", fresh' = TRUE
  PROVE  Timed'
<1> DEFINE r == Reconciled(m)
           k == StagingKey(m)
           due == issuersDue(r, IssuerBefore, now)
           t == prepareIssuers(r, due, k, now)
<1>1. /\ EnsureReconciles(m) /\ VersionsLeft(r, due) /\ due # {} /\ now' = now
      /\ ~rootDue(store, before.root, now)
  BY DEF EnsureStageIssuers
<1>2. PICK w \in WriteOutcomes : store' = Persisted(t, w)
  BY DEF EnsureStageIssuers
<1>3. /\ store \in authorityState /\ store.activeRoot # 0 /\ Provisioned(store)
      /\ store.pending.kind = "none" /\ r \in authorityState /\ r.id = store.id
      /\ r.issuers = store.issuers /\ Known(r) = Known(store) /\ r.roots = store.roots
      /\ r.activeRoot = store.activeRoot /\ k \in Nat \ {0} /\ now \in Nat
  BY <1>1, ReconciledIs, ReconciledFacts DEF RInv
<1> HIDE DEF r, k
<1>4. due = Known(store)
  BY <1>1, <1>3, DueTogether DEF Timed
<1> HIDE DEF due
<1>5. t \in authorityState
  <2>1. due \in SUBSET Slugs
    BY <1>4 DEF Known
  <2> QED BY <1>1, <1>3, <2>1, PrepareIssuersType
<1>6. /\ t.id = r.id /\ t.activeRoot = r.activeRoot /\ t.roots = r.roots
      /\ t.issuers = stageVersions(r, due, r.activeRoot, r.roots[r.activeRoot], k, now)
      /\ t.pending = stagedManifest(r, "issuer", 0, due)
  BY <1>3 DEF prepareIssuers, authorityState
<1>7. store' = Bump(t)
  BY <1>2, Written
<1> HIDE DEF t
<1>8. now + IssuerValidity <= store.roots[store.activeRoot].notAfter
  <2>1. PICK e \in Nat : e = store.roots[store.activeRoot].notAfter
    BY <1>3, Ends
  <2>2. ~(e <= now + before.root)
    BY <1>1, <2>1 DEF rootDue
  <2> QED BY <2>1, <2>2, Numbers
<1>9. Stages(t, r, r.activeRoot, r.roots[r.activeRoot], k, "issuer", 0)
  BY <1>1, <1>3, <1>4, <1>5, <1>6, <1>8 DEF Stages
<1> QED BY <1>1, <1>3, <1>7, <1>9, StagingTimed

\* Ensure that changes nothing: something is pending, or nothing is due.  That
\* it refuses a successor does not happen to roots that are rotated early.
LEMMA PendingTimed ==
  ASSUME Timed, NEW m \in Managers, EnsurePending(m), turn = "ensure", turn' = "promote",
         fresh' = FALSE
  PROVE  Timed'
<1>1. store' = store /\ now' = now /\ store.pending.kind # "none"
  BY DEF EnsurePending, authVars
<1>2. Margin = 1 /\ Margin' = 1 /\ StagedAt' = StagedAt
  BY <1>1 DEF Margin, StagedAt, ThisPeriod
<1> QED BY <1>1, <1>2 DEF Timed

LEMMA NothingTimed ==
  ASSUME BeforesAreNat, InTime, RInv, Timed, RootsEarly, NEW m \in Managers, EnsureNothing(m),
         turn = "ensure", turn' = "promote"
  PROVE  Timed'
<1>1. /\ store' = store /\ now' = now /\ store.pending.kind = "none"
      /\ ~rootDue(store, before.root, now) /\ issuersDue(store, IssuerBefore, now) = {}
  BY DEF EnsureNothing, EnsureReconciles, authVars, Due
<1>2. store \in authorityState /\ store.activeRoot # 0
  BY ReconciledIs DEF EnsureNothing
<1>3. now + 3 <= store.roots[store.activeRoot].notAfter
  <2>1. PICK e \in Nat : e = store.roots[store.activeRoot].notAfter
    BY <1>2, Ends
  <2>2. ~(e <= now + before.root)
    BY <1>1, <2>1 DEF rootDue
  <2> QED BY <2>1, <2>2, Numbers
<1>4. ASSUME NEW slug \in Known(store) PROVE now + 3 <= ActiveVersion(store, slug).notAfter
  <2>1. slug \in Slugs
    BY DEF Known
  <2>2. PICK e \in Nat : e = ActiveVersion(store, slug).notAfter
    BY <1>2, Ends
  <2>3. ~(e <= now + before.issuer)
    BY <1>1, <2>1, <2>2 DEF issuersDue, IssuerBefore
  <2> QED BY <2>2, <2>3, Numbers
<1>5. Margin' = 3
  BY <1>1 DEF Margin
<1> QED BY <1>1, <1>3, <1>4, <1>5 DEF Timed, Lasts

LEMMA NeverRefused ==
  ASSUME BeforesAreNat, InTime, RInv, RootsEarly, NEW m \in Managers, EnsureRefused(m)
  PROVE  FALSE
<1>1. /\ Provisioned(store) /\ ~rootDue(store, before.root, now)
      /\ ~IssuerFits(store.roots[store.activeRoot], now)
  BY DEF EnsureRefused
<1>2. PICK e \in Nat : e = store.roots[store.activeRoot].notAfter
  BY <1>1, ProvisionedFacts DEF RInv, rootRecord
<1>3. ~(e <= now + before.root)
  BY <1>1, <1>2 DEF rootDue
<1>4. ~(now + IssuerValidity <= e - ClockSkew)
  BY <1>1, <1>2 DEF IssuerFits
<1> QED BY <1>3, <1>4, Numbers

-----------------------------------------------------------------------------
\* PromotePending and the passing of time

\* What promotion leaves of the record, whether or not it comes in time.
LEMMA PromotedRecord ==
  ASSUME RInv, Provisioned(store), store.pending.kind # "none", NEW d \in Nat,
         store' = Bump(promote(store, d))
  PROVE  Known(store') = Known(store) /\ store'.pending.kind = "none" /\ store'.id = store.id
<1> DEFINE p == store.pending
           t == promote(store, d)
<1>1. store \in authorityState /\ Consistent(store)
  BY ProvisionedFacts DEF RInv
<1>2. t \in authorityState
  BY <1>1, PromoteType
<1>3. /\ t.id = store.id /\ t.pending = NoPending
      /\ \A slug \in Slugs :
            t.issuers[slug] = IF p.issuers[slug] = 0 THEN store.issuers[slug]
                              ELSE [active |-> p.issuers[slug],
                                    versions |-> [store.issuers[slug].versions EXCEPT
                                                    ![store.issuers[slug].active].key = FALSE]]
  BY <1>1 DEF promote, authorityState
<1>4. store'.id = t.id /\ store'.issuers = t.issuers /\ store'.pending = t.pending
  BY <1>2, BumpKeeps
<1> HIDE DEF t
<1>5. \A slug \in Slugs : p.issuers[slug] # 0 => slug \in Known(store)
  BY <1>1 DEF Consistent, PendingIsNew, Known
<1>6. \A slug \in Slugs : store'.issuers[slug].active =
         IF p.issuers[slug] = 0 THEN store.issuers[slug].active ELSE p.issuers[slug]
  <2> TAKE slug \in Slugs
  <2>1. CASE p.issuers[slug] = 0
    <3>1. t.issuers[slug] = store.issuers[slug]
      BY <1>3, <2>1
    <3> QED BY <1>4, <2>1, <3>1
  <2>2. CASE p.issuers[slug] # 0
    <3>1. t.issuers[slug] = [active |-> p.issuers[slug],
                             versions |-> [store.issuers[slug].versions EXCEPT
                                             ![store.issuers[slug].active].key = FALSE]]
      BY <1>3, <2>2
    <3>2. t.issuers[slug].active = p.issuers[slug]
      BY <3>1
    <3> QED BY <1>4, <2>2, <3>2
  <2> QED BY <2>1, <2>2
<1>7. Known(store') = Known(store)
  BY <1>5, <1>6 DEF Known
<1> QED BY <1>3, <1>4, <1>7 DEF NoPending

LEMMA PromoteTimed ==
  ASSUME BeforesAreNat, InTime, RInv, Provisioned(store), store.pending.kind # "none", Timed,
         NEW d \in Nat, store' = Bump(promote(store, d)), now' = now,
         turn = "promote", turn' = turn
  PROVE  Timed' /\ Known(store') = Known(store) /\ store'.pending.kind = "none" /\ store'.id = store.id
<1> DEFINE p == store.pending
           t == promote(store, d)
           g == IF PendingRoot(store) THEN p.root ELSE store.activeRoot
           e == StagedAt + IssuerValidity
<1>1. /\ store \in authorityState /\ Consistent(store) /\ store.activeRoot \in Gens
      /\ store.roots \in [Gens -> rootRecord] /\ now \in Nat
  BY ProvisionedFacts DEF RInv, IInv, AuthTypeOK, authorityState
<1>2. t \in authorityState
  BY <1>1, PromoteType
<1>3. /\ t.id = store.id /\ t.activeRoot = g /\ t.pending = NoPending
      /\ t.roots = IF PendingRoot(store) THEN [store.roots EXCEPT ![store.activeRoot].key = FALSE,
                                                                  ![store.activeRoot].until = d]
                   ELSE store.roots
      /\ \A slug \in Slugs :
            t.issuers[slug] = IF p.issuers[slug] = 0 THEN store.issuers[slug]
                              ELSE [active |-> p.issuers[slug],
                                    versions |-> [store.issuers[slug].versions EXCEPT
                                                    ![store.issuers[slug].active].key = FALSE]]
  BY <1>1 DEF promote, authorityState
<1>4. /\ store'.id = t.id /\ store'.activeRoot = t.activeRoot /\ store'.roots = t.roots
      /\ store'.issuers = t.issuers /\ store'.pending = t.pending
  BY <1>2, BumpKeeps
<1> HIDE DEF t
<1>5. Staged(store, StagedAt)
  BY DEF Timed
<1>6. e \in Nat /\ now + 3 <= e
  BY Numbers DEF StagedAt
<1>7. e <= store'.roots[store'.activeRoot].notAfter
  <2>1. g \in Gens
    BY <1>1, StateConstants DEF Consistent, PendingIsNew, Gens, authorityState, pendingManifest
  <2>2. e <= store.roots[g].notAfter
    BY <1>5 DEF Staged
  <2>3. store.roots[g] \in rootRecord
    BY <1>1, <2>1
  <2> HIDE DEF g
  <2>4. t.roots[g].notAfter = store.roots[g].notAfter
    BY <1>1, <1>3, <2>1, <2>3 DEF rootRecord
  <2> QED BY <1>3, <1>4, <2>2, <2>4
<1>8. Known(store') = Known(store)
  BY PromotedRecord
<1>9. \A slug \in Known(store) : ActiveVersion(store', slug).notAfter = e
  <2> TAKE slug \in Known(store)
  <2>1. slug \in Slugs /\ p.issuers[slug] # 0
    BY <1>5 DEF Known, Staged
  <2>2. p.issuers[slug] \in Versions /\ store.issuers[slug].versions \in [Versions -> issuerVersion]
    BY <1>1, <2>1, FieldTypes, StateConstants DEF Versions
  <2>3. store.issuers[slug].versions[p.issuers[slug]].notAfter = e
    BY <1>5 DEF Staged
  <2>4. PICK v \in Versions : v = p.issuers[slug]
    BY <2>2
  <2>5. store'.issuers[slug].active = v
        /\ store'.issuers[slug].versions = [store.issuers[slug].versions EXCEPT
                                              ![store.issuers[slug].active].key = FALSE]
    <3>1. t.issuers[slug] = [active |-> p.issuers[slug],
                             versions |-> [store.issuers[slug].versions EXCEPT
                                             ![store.issuers[slug].active].key = FALSE]]
      BY <1>3, <2>1
    <3> QED BY <1>4, <2>4, <3>1
  <2>6. store.issuers[slug].versions[v] \in issuerVersion
    BY <2>2
  <2>7. store'.issuers[slug].versions[v].notAfter = store.issuers[slug].versions[v].notAfter
    BY <2>2, <2>5, <2>6 DEF issuerVersion
  <2> QED BY <2>3, <2>4, <2>5, <2>7 DEF ActiveVersion
<1>10. store'.pending.kind = "none"
  BY <1>3, <1>4 DEF NoPending
<1>11. Margin' = 3
  BY <1>10 DEF Margin
<1> HIDE DEF e
<1>12. Lasts(store', now + 3)
  <2>1. now + 3 <= store'.roots[store'.activeRoot].notAfter
    <3>1. PICK z \in Nat : z = store'.roots[store'.activeRoot].notAfter
      <4>1. t.activeRoot # 0
        <5>1. g \in Gens
          BY <1>1, StateConstants DEF Consistent, PendingIsNew, Gens, authorityState, pendingManifest
        <5>2. t.activeRoot = g
          BY <1>3, Zenon
        <5> HIDE DEF g
        <5> QED BY <5>1, <5>2 DEF Gens
      <4> QED BY <1>2, <1>4, <4>1, Ends
    <3> QED BY <1>1, <1>6, <1>7, <3>1
  <2> QED BY <1>6, <1>8, <1>9, <2>1 DEF Lasts
<1>13. Together(store')
  BY <1>8, <1>9 DEF Together
<1> QED BY <1>3, <1>4, <1>8, <1>10, <1>11, <1>12, <1>13 DEF Timed

LEMMA PeriodTimed ==
  ASSUME RInv, Provisioned(store), Timed, NEW m \in Managers, PeriodEnds(m)
  PROVE  Timed'
<1>1. /\ turn = "promote" /\ turn' = "ensure" /\ now' = now + 1 /\ store' = store
      /\ store.pending.kind # "none" => fresh
  BY DEF PeriodEnds, Tick
<1>2. now \in Nat
  BY DEF RInv, IInv, AuthTypeOK
<1>3. now' + Margin' = now + Margin
  BY <1>1, <1>2 DEF Margin, ThisPeriod
<1>4. store.pending.kind # "none" => StagedAt' = StagedAt
  BY <1>1, <1>2 DEF StagedAt, ThisPeriod
<1> QED BY <1>1, <1>3, <1>4 DEF Timed

-----------------------------------------------------------------------------
\* All steps

\* The memory of a manager keeps its configuration.
LEMMA ConfiguredKept ==
  ASSUME RInv, NEW m \in Managers,
         EnsureCall(m) \/ PromotePending(m) \/ PromoteReload(m) \/ PromoteReadUnlocks(m) \/ Tick
  PROVE  \A n \in Managers : am'[n].configured = am[n].configured
<1>1. am \in [Managers -> AuthorityManager]
  BY DEF RInv, IInv, AuthTypeOK
<1>2. am[m] \in AuthorityManager /\ \A rec \in AuthorityManager : \A g :
         Idle(rec).configured = rec.configured /\ Forget(rec, g).configured = rec.configured
  BY <1>1 DEF AuthorityManager, Idle, Forget
<1>3. \A g : Idle(Forget(am[m], g)).configured = am[m].configured
  BY <1>2 DEF Idle, Forget, AuthorityManager
<1>4. CASE EnsureCall(m)
  <2>1. am' = am \/ \E g, k : am' = [am EXCEPT ![m].generated[g] = k]
    BY <1>4 DEF EnsureCall, EnsureProvision, EnsureStageRoot, EnsureStageIssuers, EnsurePending,
       EnsureNothing, EnsureRefused, authVars
  <2>2. ASSUME NEW g, NEW k, am' = [am EXCEPT ![m].generated[g] = k], NEW n \in Managers
        PROVE  am'[n].configured = am[n].configured
    BY <1>1, <2>2 DEF AuthorityManager
  <2> QED BY <2>1, <2>2
<1>5. CASE PromotePending(m)
  <2>1. am' = am \/ \E k : am' = [am EXCEPT ![m].pc = "promoted", ![m].secret = k]
    BY <1>5 DEF PromotePending
  <2>2. ASSUME NEW k, am' = [am EXCEPT ![m].pc = "promoted", ![m].secret = k], NEW n \in Managers
        PROVE  am'[n].configured = am[n].configured
    BY <1>1, <2>2 DEF AuthorityManager
  <2> QED BY <2>1, <2>2
<1>6. CASE PromoteReload(m)
  BY <1>1, <1>2, <1>6 DEF PromoteReload, AuthorityManager
<1>7. CASE PromoteReadUnlocks(m)
  BY <1>1, <1>2, <1>3, <1>7 DEF PromoteReadUnlocks, AuthorityManager
<1>8. CASE Tick
  BY <1>8 DEF Tick
<1> QED BY <1>4, <1>5, <1>6, <1>7, <1>8

\* What Ensure has staged is pending, and what was active stays so.
LEMMA StagedRecord ==
  ASSUME InTime, RInv, NEW m \in Managers,
         EnsureStageRoot(m, before.root) \/ EnsureStageIssuers(m, before.root, IssuerBefore)
  PROVE  \E t \in authorityState :
            /\ store' = Bump(t) /\ t.id = store.id /\ t.pending.kind # "none"
            /\ \A slug \in Slugs : t.issuers[slug].active = store.issuers[slug].active
<1> DEFINE r == Reconciled(m)
           k == StagingKey(m)
<1>1. EnsureReconciles(m)
  BY DEF EnsureStageRoot, EnsureStageIssuers
<1>2. /\ r \in authorityState /\ r.id = store.id /\ r.issuers = store.issuers
      /\ r.activeRoot # 0 /\ k \in Nat /\ now \in Nat
  BY <1>1, ReconciledIs DEF RInv, IInv, AuthTypeOK
<1>3. CASE EnsureStageRoot(m, before.root)
  <2>1. VersionsLeft(r, Known(r))
    BY <1>3 DEF EnsureStageRoot
  <2>2. PICK g \in Gens, w \in WriteOutcomes : store' = Persisted(prepareRoot(r, g, k, now), w)
    BY <1>3 DEF EnsureStageRoot
  <2> DEFINE t == prepareRoot(r, g, k, now)
  <2>3. t \in authorityState
    BY <1>2, <2>1, PrepareRootType
  <2>4. store' = Bump(t)
    BY <2>2, Written
  <2> HIDE DEF r, k
  <2>5. /\ t.id = r.id /\ t.issuers = stageVersions(r, Known(r), g, makeRoot(k, now), k, now)
        /\ t.pending = stagedManifest(r, "root", g, Known(r))
    BY <1>2 DEF prepareRoot, authorityState
  <2>6. t.pending.kind = "root"
    BY <2>5 DEF stagedManifest
  <2> HIDE DEF t
  <2>7. Known(r) \in SUBSET Slugs
    BY DEF Known
  <2>8. \A slug \in Slugs : t.issuers[slug].active = store.issuers[slug].active
    <3> TAKE slug \in Slugs
    <3>1. stageVersions(r, Known(r), g, makeRoot(k, now), k, now)[slug].active = r.issuers[slug].active
      BY <1>2, <2>7, StageVersionsFields
    <3> QED BY <1>2, <2>5, <3>1
  <2> QED BY <1>2, <2>3, <2>4, <2>5, <2>6, <2>8
<1>4. CASE EnsureStageIssuers(m, before.root, IssuerBefore)
  <2> DEFINE due == issuersDue(r, IssuerBefore, now)
             t == prepareIssuers(r, due, k, now)
  <2>1. VersionsLeft(r, due)
    BY <1>4 DEF EnsureStageIssuers
  <2>2. PICK w \in WriteOutcomes : store' = Persisted(t, w)
    BY <1>4 DEF EnsureStageIssuers
  <2>3. due \in SUBSET Slugs
    BY DEF issuersDue, Known
  <2> HIDE DEF due
  <2>4. t \in authorityState
    BY <1>2, <2>1, <2>3, PrepareIssuersType
  <2>5. store' = Bump(t)
    BY <2>2, Written
  <2> HIDE DEF r, k
  <2>6. /\ t.id = r.id
        /\ t.issuers = stageVersions(r, due, r.activeRoot, r.roots[r.activeRoot], k, now)
        /\ t.pending = stagedManifest(r, "issuer", 0, due)
    BY <1>2 DEF prepareIssuers, authorityState
  <2>7. t.pending.kind = "issuer"
    BY <2>6 DEF stagedManifest
  <2> HIDE DEF t
  <2>8. \A slug \in Slugs : t.issuers[slug].active = store.issuers[slug].active
    <3> TAKE slug \in Slugs
    <3>1. stageVersions(r, due, r.activeRoot, r.roots[r.activeRoot], k, now)[slug].active
             = r.issuers[slug].active
      BY <1>2, <2>3, StageVersionsFields
    <3> QED BY <1>2, <2>6, <3>1
  <2> QED BY <1>2, <2>4, <2>5, <2>6, <2>7, <2>8
<1> QED BY <1>3, <1>4

\* The invariant of Authority.
LEMMA ControllerIInv ==
  ASSUME RInv, NEW m \in Managers, EnsureTurn(m) \/ PromoteTurn(m) \/ PeriodEnds(m)
  PROVE  IInv'
<1>1. IInv
  BY DEF RInv
<1>2. CASE UNCHANGED authVars \/ Tick
  BY <1>1, <1>2, NextIInv DEF AuthNext
<1>3. CASE EnsureTurn(m)
  <2>1. \/ EnsureProvision(m) \/ EnsureStageRoot(m, before.root)
        \/ EnsureStageIssuers(m, before.root, IssuerBefore) \/ UNCHANGED authVars
    BY <1>3 DEF EnsureTurn, EnsureCall, EnsurePending, EnsureNothing, EnsureRefused
  <2> QED BY <1>1, <1>2, <2>1, EnsureProvisionInv, EnsureStageRootInv, EnsureStageIssuersInv
<1>4. CASE PromoteTurn(m)
  BY <1>1, <1>4, PendingInv, PromoteLocalInv DEF PromoteTurn
<1>5. CASE PeriodEnds(m)
  BY <1>2, <1>5 DEF PeriodEnds
<1> QED BY <1>3, <1>4, <1>5

LEMMA ControllerBegin ==
  BeforesAreNat /\ Init => RInv
<1> SUFFICES ASSUME BeforesAreNat, Init PROVE RInv
  OBVIOUS
<1>1. IInv
  BY InitIInv DEF Init
<1>2. store.id = 0 /\ store.pending.kind = "none"
  BY DEF Init, AuthInit, NoAuthority, NoPending
<1>3. \A m \in Managers : am[m].configured \in Configurations
  <2> TAKE m \in Managers
  <2>1. PICK c \in Configurations : am[m] = NewManager(0, c)
    BY DEF Init, AuthInit
  <2>2. NewManager(0, c).configured = c
    BY DEF NewManager
  <2> QED BY <2>1, <2>2
<1>4. before \in Befores /\ turn = "ensure" /\ fresh \in BOOLEAN
  BY DEF Init
<1> QED BY <1>1, <1>2, <1>3, <1>4 DEF RInv, ControllerOK, Provisioned

LEMMA EnsureTurnInv ==
  ASSUME BeforesAreNat, InTime, RInv, NEW m \in Managers, EnsureTurn(m)
  PROVE  RInv' /\ (RootsEarly => Provisioned(store') /\ (store'.pending.kind # "none" \/ ~Due'))
<1>1. /\ turn = "ensure" /\ turn' = "promote" /\ before' = before /\ EnsureCall(m)
      /\ fresh' = (store.pending.kind = "none" /\ store'.pending.kind # "none")
  BY DEF EnsureTurn
<1>2. IInv' /\ \A n \in Managers : am'[n].configured = am[n].configured
  BY <1>1, ControllerIInv, ConfiguredKept
<1>3. ControllerOK /\ before \in Befores /\ fresh' \in BOOLEAN
  BY <1>1 DEF RInv, ControllerOK
<1>4. \A n \in Managers : am'[n].configured \in Configurations /\ am'[n].configured = am[m].configured
  BY <1>2, <1>3 DEF ControllerOK, InTime
<1>5. SUFFICES /\ Provisioned(store') => am[m].configured \subseteq Known(store')
               /\ store'.pending.kind # "none" => Provisioned(store')
               /\ RootsEarly /\ Provisioned(store') => Timed'
               /\ RootsEarly => Provisioned(store') /\ (store'.pending.kind # "none" \/ ~Due')
  BY <1>1, <1>2, <1>3, <1>4 DEF RInv, ControllerOK, RootsEarly
<1>6. CASE EnsureProvision(m)
  <2>1. /\ Timed' /\ store'.pending.kind = "none" /\ Provisioned(store')
        /\ Known(store') = am[m].configured
        /\ store'.roots[store'.activeRoot].notAfter = now + RootValidity
        /\ \A slug \in Known(store') : ActiveVersion(store', slug).notAfter = now + IssuerValidity
    BY <1>1, <1>6, ProvisionTimed
  <2>2. now' = now
    BY <1>6 DEF EnsureProvision
  <2>3. ~rootDue(store', before.root, now)
    BY <2>1, Numbers DEF rootDue
  <2>4. issuersDue(store', IssuerBefore, now) = {}
    <3> SUFFICES ASSUME NEW slug \in issuersDue(store', IssuerBefore, now) PROVE FALSE
      OBVIOUS
    <3>1. slug \in Known(store') /\ IssuerBefore[slug] = before.issuer
      BY DEF issuersDue, IssuerBefore, Known
    <3>2. before.issuer = 0 \/ now + IssuerValidity <= now + before.issuer
      BY <2>1, <3>1 DEF issuersDue
    <3> QED BY <3>2, Numbers
  <2>5. ~Due'
    BY <1>1, <2>2, <2>3, <2>4 DEF Due, IssuerBefore
  <2> QED BY <2>1, <2>5
<1>7. CASE EnsureStageRoot(m, before.root) \/ EnsureStageIssuers(m, before.root, IssuerBefore)
  <2>1. EnsureReconciles(m)
    BY <1>7 DEF EnsureStageRoot, EnsureStageIssuers
  <2>2. store.pending.kind = "none" /\ Provisioned(store)
    BY <2>1 DEF EnsureReconciles
  <2>3. /\ store'.pending.kind # "none" /\ Known(store') = Known(store) /\ Provisioned(store')
    <3>1. PICK t \in authorityState : /\ store' = Bump(t) /\ t.id = store.id /\ t.pending.kind # "none"
                                      /\ \A slug \in Slugs : t.issuers[slug].active = store.issuers[slug].active
      BY <1>7, StagedRecord
    <3>2. store'.id = t.id /\ store'.pending = t.pending /\ store'.issuers = t.issuers
      BY <3>1, BumpKeeps
    <3> QED BY <2>2, <3>1, <3>2 DEF Known, Provisioned
  <2>4. fresh' = TRUE
    BY <1>1, <2>2, <2>3
  <2>5. RootsEarly => Timed'
    <3>1. RootsEarly => Timed
      BY <2>2 DEF RInv
    <3> QED BY <1>1, <1>7, <2>4, <3>1, StageRootTimed, StageIssuersTimed
  <2>6. am[m].configured \subseteq Known(store')
    BY <1>3, <2>2, <2>3 DEF ControllerOK
  <2> QED BY <2>3, <2>5, <2>6
<1>8. CASE EnsurePending(m)
  <2>1. store' = store /\ store.pending.kind # "none" /\ fresh' = FALSE
    BY <1>1, <1>8 DEF EnsurePending, authVars
  <2>2. Provisioned(store)
    BY <1>3, <2>1 DEF ControllerOK
  <2> QED BY <1>1, <1>3, <1>8, <2>1, <2>2, PendingTimed DEF RInv, ControllerOK
<1>9. CASE EnsureNothing(m)
  <2>1. store' = store /\ now' = now /\ Provisioned(store) /\ store.pending.kind = "none" /\ ~Due
    BY <1>9 DEF EnsureNothing, EnsureReconciles, authVars
  <2>2. ~Due'
    BY <1>1, <2>1 DEF Due, IssuerBefore
  <2> QED BY <1>1, <1>3, <1>9, <2>1, <2>2, NothingTimed DEF RInv, ControllerOK
<1>10. CASE EnsureRefused(m)
  <2>1. ~RootsEarly
    BY <1>10, NeverRefused
  <2>2. store' = store
    BY <1>10 DEF EnsureRefused, authVars
  <2> QED BY <1>3, <2>1, <2>2 DEF ControllerOK
<1> QED BY <1>1, <1>6, <1>7, <1>8, <1>9, <1>10 DEF EnsureCall

LEMMA PromoteTurnInv ==
  ASSUME BeforesAreNat, InTime, RInv, NEW m \in Managers, PromoteTurn(m)
  PROVE  RInv'
<1>1. turn = "promote" /\ before' = before /\ turn' = turn /\ fresh' = fresh
  BY DEF PromoteTurn, controller
<1>2. IInv' /\ \A n \in Managers : am'[n].configured = am[n].configured
  BY ControllerIInv, ConfiguredKept DEF PromoteTurn
<1>3. CASE PromotePending(m)
  <2>1. Provisioned(store) /\ store.pending.kind # "none" /\ now' = now
    BY <1>3 DEF PromotePending
  <2>2. PICK w \in WriteOutcomes, d \in 0..MaxTime + MaximumLeafValidity + ClockSkew :
          store' = Persisted(promote(store, d), w)
    BY <1>3 DEF PromotePending
  <2>3. store' = Bump(promote(store, d)) /\ d \in Nat
    BY <2>2, Written, StateConstants, AuthorityConstants
  <2>4. /\ Known(store') = Known(store) /\ store'.pending.kind = "none" /\ store'.id = store.id
    BY <2>1, <2>3, PromotedRecord
  <2>5. RootsEarly => Timed'
    <3>1. RootsEarly => Timed
      BY <2>1 DEF RInv
    <3> QED BY <1>1, <2>1, <2>3, <3>1, PromoteTimed
  <2> QED BY <1>1, <1>2, <2>1, <2>4, <2>5 DEF RInv, ControllerOK, RootsEarly
<1>4. CASE PromoteReload(m) \/ PromoteReadUnlocks(m)
  <2>1. store' = store /\ now' = now
    BY <1>4 DEF PromoteReload, PromoteReadUnlocks
  <2>2. Timed => Timed'
    BY <1>1, <2>1 DEF Timed, Margin, StagedAt, ThisPeriod
  <2> QED BY <1>1, <1>2, <2>1, <2>2 DEF RInv, ControllerOK, RootsEarly
<1> QED BY <1>3, <1>4 DEF PromoteTurn

LEMMA PeriodEndsInv ==
  ASSUME RInv, NEW m \in Managers, PeriodEnds(m)
  PROVE  RInv'
<1>1. turn' = "ensure" /\ before' = before /\ fresh' = fresh /\ store' = store /\ am' = am
  BY DEF PeriodEnds, Tick
<1>2. IInv'
  BY ControllerIInv
<1> QED BY <1>1, <1>2, PeriodTimed DEF RInv, ControllerOK, RootsEarly

\* What one step is shown to do.
StagedStep ==
    turn = "ensure" /\ turn' = "promote" /\ RootsEarly =>
        Provisioned(store') /\ (store'.pending.kind # "none" \/ ~Due')

LEMMA ControllerStep ==
  ASSUME BeforesAreNat, InTime, RInv, [Next]_vars
  PROVE  RInv' /\ StagedStep
<1>1. CASE UNCHANGED vars
  <2>1. UNCHANGED authVars /\ UNCHANGED controller
    BY <1>1 DEF vars
  <2>2. IInv'
    BY <2>1, NextIInv DEF RInv
  <2>3. Timed => Timed'
    BY <2>1 DEF authVars, controller, Timed, Margin, StagedAt, ThisPeriod
  <2> QED BY <2>1, <2>2, <2>3 DEF authVars, controller, RInv, ControllerOK, RootsEarly, StagedStep
<1>2. ASSUME NEW m \in Managers, EnsureTurn(m) PROVE RInv' /\ StagedStep
  BY <1>2, EnsureTurnInv DEF StagedStep
<1>3. ASSUME NEW m \in Managers, PromoteTurn(m) PROVE RInv' /\ StagedStep
  BY <1>3, PromoteTurnInv DEF PromoteTurn, StagedStep
<1>4. ASSUME NEW m \in Managers, PeriodEnds(m) PROVE RInv' /\ StagedStep
  BY <1>4, PeriodEndsInv DEF PeriodEnds, StagedStep
<1>5. CASE Ended
  BY <1>1, <1>5 DEF Ended
<1> QED BY <1>1, <1>2, <1>3, <1>4, <1>5 DEF Next

LEMMA NothingExpired ==
  ASSUME RInv PROVE NeverExpires
<1> SUFFICES ASSUME Provisioned(store), RootsEarly
             PROVE  /\ now < store.roots[store.activeRoot].notAfter
                    /\ \A slug \in Known(store) : now < ActiveVersion(store, slug).notAfter
  BY DEF NeverExpires
<1>1. Lasts(store, now + Margin)
  BY DEF RInv, Timed
<1>2. Margin \in {1, 2, 3}
  BY DEF Margin
<1>3. now \in Nat /\ store \in authorityState /\ store.activeRoot # 0
  BY ProvisionedFacts, StateConstants DEF RInv, IInv, AuthTypeOK, Gens
<1>4. /\ store.roots[store.activeRoot].notAfter \in Nat
      /\ \A slug \in Known(store) : ActiveVersion(store, slug).notAfter \in Nat
  BY <1>3, Ends
<1>5. PICK n \in Nat : n = now + Margin /\ now < n
  BY <1>2, <1>3
<1>6. /\ n <= store.roots[store.activeRoot].notAfter
      /\ \A slug \in Known(store) : n <= ActiveVersion(store, slug).notAfter
  BY <1>1, <1>5 DEF Lasts
<1> QED BY <1>3, <1>4, <1>5, <1>6

\* Every variable of a controller and of its authority has its type, and the
\* stored authority passes validateState, whenever Ensure and PromotePending
\* (authority.go, authority_operations.go) are called by one.
THEOREM RotationTypes ==
  ASSUME BeforesAreNat, InTime
  PROVE  Spec => []TypeOK
<1>1. Init => RInv
  BY ControllerBegin
<1>2. RInv /\ [Next]_vars => RInv'
  BY ControllerStep
<1>3. RInv => TypeOK
  BY DEF RInv, IInv, StoreInv, Consistent, ValidStore, ControllerOK, TypeOK
<1> QED BY <1>1, <1>2, <1>3, PTL DEF Spec

\* A controller that calls Ensure and PromotePending in every period, gets no
\* disk errors and rotates roots early enough never has an expired root or
\* issuer, if an issuer is valid for at least four periods and renewed at least
\* two before its end (authority.go, rotation of roots and issuers).
THEOREM NothingExpires ==
  ASSUME BeforesAreNat, InTime
  PROVE  Spec => []NeverExpires
<1>1. Init => RInv
  BY ControllerBegin
<1>2. RInv /\ [Next]_vars => RInv'
  BY ControllerStep
<1> QED BY <1>1, <1>2, NothingExpired, PTL DEF Spec

\* Its Ensure (authority.go) is never refused a successor, and leaves nothing
\* that is due and not pending.
THEOREM DueIsPending ==
  ASSUME BeforesAreNat, InTime
  PROVE  Spec => DueIsStagedEarly
<1>1. Init => RInv
  BY ControllerBegin
<1>2. RInv /\ [Next]_vars => RInv' /\ [StagedStep]_vars
  BY ControllerStep
<1>3. Spec => [][StagedStep]_vars
  BY <1>1, <1>2, PTL DEF Spec
<1>4. DueIsStagedEarly <=> [][StagedStep]_vars
  BY DEF DueIsStagedEarly, StagedStep
<1> QED BY <1>3, <1>4
=============================================================================
