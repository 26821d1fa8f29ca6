--------------------------- MODULE IssuanceProofs ---------------------------
(***************************************************************************)
(* Proofs about Issuance: what SignCSR hands out stays verifiable and on   *)
(* record while AuthorityManagers rotate, prune and purge the authority,   *)
(* for any number of managers, issuers, generations, versions and leaves.  *)
(***************************************************************************)
EXTENDS Issuance, AuthorityProofs

MaterialOf(i) == store.issuers[SlugOf[i]].versions[im[i].version]

\* A manager that has read the present authority: its key is not older.
Loaded(i) == im[i].rev # 0 /\ Provisioned(store) /\ store.id <= im[i].kid

(***************************************************************************)
(* What an IssuerManager holds was read from some state of the store, and  *)
(* the version it read is still there as it was: promotion and discard     *)
(* never touch a version that was active.  Material of an authority that   *)
(* has been purged since is recognised by its key, which is older than the *)
(* present authority.                                                      *)
(***************************************************************************)
MaterialKept ==
    \A i \in Issuers :
        /\ im[i].pc # "idle" => im[i].rev # 0
        /\ im[i].rev # 0 => /\ im[i].version # 0 /\ im[i].root # 0
                            /\ im[i].kid # 0 /\ im[i].kid <= keys
        /\ im[i].exp <= now + MaximumLeafValidity
        /\ Loaded(i) =>
              /\ im[i].version <= store.issuers[SlugOf[i]].active
              /\ MaterialOf(i).kid = im[i].kid
              /\ MaterialOf(i).parent = im[i].parent
              /\ MaterialOf(i).root = im[i].root
              /\ im[i].mode = store.mode
              /\ im[i].rev <= store.revision
              /\ im[i].rev = store.revision =>
                    im[i].version = store.issuers[SlugOf[i]].active

(***************************************************************************)
(* The root of a leaf in the field is settled, and active or trusted until *)
(* the leaf has expired.  That the record of the leaf still finds its      *)
(* version, signed by that root, is what makes the next trust deadline     *)
(* late enough.                                                            *)
(***************************************************************************)
LeafTrusted(x) ==
    /\ Settled(store, x.root)
    /\ store.roots[x.root].kid = x.parent
    /\ x.mode = store.mode
    /\ x.version <= store.issuers[x.slug].active
    /\ store.issuers[x.slug].versions[x.version].kid # 0
    /\ store.issuers[x.slug].versions[x.version].root = x.root
    /\ \/ x.root = store.activeRoot
       \/ x.exp + ClockSkew <= store.roots[x.root].until
       \/ x.exp + ClockSkew <= now

LeavesTrusted ==
    \A x \in issued :
        /\ x.id <= keys
        /\ x.exp <= now + MaximumLeafValidity
        /\ x.current => x.id # 0
        /\ x.current /\ x.id = store.id => LeafTrusted(x)

TypesInv ==
    /\ EInv
    /\ im \in [Issuers -> IssuerManager]
    /\ issued \subseteq Leaf

SInv == TypesInv /\ MaterialKept /\ LeavesTrusted /\ LedgerComplete

-----------------------------------------------------------------------------
(***************************************************************************)
(* What a step of an IssuerManager does to its memory.                     *)
(***************************************************************************)

\* The material stays; only the call in progress changes.
KeepsMaterial(i, rec) ==
    /\ rec \in IssuerManager
    /\ rec.rev = im[i].rev /\ rec.version = im[i].version /\ rec.kid = im[i].kid
    /\ rec.parent = im[i].parent /\ rec.root = im[i].root /\ rec.mode = im[i].mode
    /\ rec.exp <= now + MaximumLeafValidity
    /\ rec.pc # "idle" => im[i].rev # 0

\* The material is what the store has as active.
TakesMaterial(i, rec) ==
    /\ HasIssuer(i)
    /\ rec \in IssuerManager
    /\ rec.rev = store.revision
    /\ rec.version = store.issuers[SlugOf[i]].active
    /\ rec.kid = ActiveVersion(store, SlugOf[i]).kid
    /\ rec.parent = ActiveVersion(store, SlugOf[i]).parent
    /\ rec.root = ActiveVersion(store, SlugOf[i]).root
    /\ rec.mode = store.mode
    /\ rec.exp <= now + MaximumLeafValidity

\* A leaf is returned, without or with a record.
Returns(i) ==
    /\ im[i].pc = "append"
    /\ issued' = issued \cup {SignedLeaf(i)}
    /\ \/ /\ im[i].mode = "None"
          /\ UNCHANGED authVars
       \/ /\ im[i].mode = "Ledger"
          /\ AppendAccepts(i)
          /\ ledger' = ledger \cup {SignedRecord(i)}
          /\ UNCHANGED <<now, keys, store, unlocks, exported, am>>

IssuerEffect(i, rec) ==
    /\ im' = [im EXCEPT ![i] = rec]
    /\ \/ /\ rec = NoManager \/ KeepsMaterial(i, rec) \/ TakesMaterial(i, rec)
          /\ UNCHANGED <<authVars, issued>>
       \/ KeepsMaterial(i, rec) /\ Returns(i)

\* The active version of a known issuer.
LEMMA ActiveFacts ==
  ASSUME TypesInv, NEW i \in Issuers, HasIssuer(i)
  PROVE  LET v == ActiveVersion(store, SlugOf[i]) IN
         /\ SlugOf[i] \in Slugs /\ store.issuers[SlugOf[i]].active \in Versions
         /\ v \in issuerVersion
         /\ v.kid # 0 /\ v.kid <= keys /\ store.id <= v.kid
         /\ v.root = store.activeRoot /\ v.root \in Gens
         /\ v.parent = store.roots[v.root].kid
         /\ store.roots[v.root].kid # 0 /\ v.root # store.pending.root
         /\ store.revision \in Nat \ {0}
<1>1. /\ Provisioned(store) /\ SlugOf[i] \in Known(store) /\ SlugOf[i] \in Slugs
      /\ store.issuers[SlugOf[i]].active # 0
  BY IssuanceConstants DEF HasIssuer, Known
<1>2. /\ IInv /\ store \in authorityState /\ Consistent(store) /\ store.activeRoot \in Gens
      /\ Numbered(store, keys) /\ store.revision # 0
  BY <1>1, ProvisionedFacts DEF TypesInv, EInv, NumberedStore
<1>3. store.issuers[SlugOf[i]].active \in Versions
  BY <1>1, <1>2, FieldTypes DEF Versions
<1>4. ActiveVersion(store, SlugOf[i]) \in issuerVersion
  BY <1>1, <1>2, <1>3, FieldTypes DEF ActiveVersion
<1>5. /\ ActiveVersion(store, SlugOf[i]).kid # 0
      /\ ActiveVersion(store, SlugOf[i]).root = store.activeRoot
  BY <1>1, <1>2 DEF Consistent, validateState, ActiveUnderActive
<1>6. /\ ActiveVersion(store, SlugOf[i]).kid <= keys
      /\ store.id <= ActiveVersion(store, SlugOf[i]).kid
  BY <1>1, <1>2, <1>3, <1>5 DEF Numbered, ActiveVersion
<1>7. /\ ActiveVersion(store, SlugOf[i]).parent = store.roots[store.activeRoot].kid
      /\ store.roots[store.activeRoot].kid # 0
  BY <1>1, <1>2, <1>3, <1>5 DEF Consistent, validateState, IssuersSigned, ActiveVersion
<1>8. store.activeRoot # store.pending.root
  BY <1>2, StateConstants DEF Consistent, PendingIsNew, Gens
<1>9. store.revision \in Nat
  BY <1>2 DEF authorityState
<1> QED BY <1>1, <1>2, <1>3, <1>4, <1>5, <1>6, <1>7, <1>8, <1>9

LEMMA ReloadTakes ==
  ASSUME TypesInv, NEW i \in Issuers, HasIssuer(i), NEW rec \in IssuerManager,
         rec.exp <= now + MaximumLeafValidity
  PROVE  TakesMaterial(i, reload(i, rec))
<1> DEFINE v == ActiveVersion(store, SlugOf[i])
           r == reload(i, rec)
<1>1. /\ v \in issuerVersion /\ v.root \in Gens /\ store.revision \in Nat
      /\ store.issuers[SlugOf[i]].active \in Versions
      /\ store.mode \in {"None", "Ledger"}
  BY ActiveFacts DEF TypesInv, EInv, IInv, AuthTypeOK, authorityState
<1>2. r = [rec EXCEPT !.rev = store.revision,
                !.version = store.issuers[SlugOf[i]].active,
                !.kid = v.kid, !.parent = v.parent, !.root = v.root,
                !.notAfter = v.notAfter, !.mode = store.mode]
  BY DEF reload
<1> HIDE DEF v, r
<1>3. r \in IssuerManager
  <2>1. /\ v.kid \in Nat /\ v.parent \in Nat /\ v.notAfter \in Nat
        /\ v.root \in 0..MaxGeneration
        /\ store.issuers[SlugOf[i]].active \in 0..MaxVersion
    BY <1>1, StateConstants DEF issuerVersion, Versions
  <2> QED BY <1>1, <1>2, <2>1 DEF IssuerManager
<1>4. /\ r.rev = store.revision /\ r.version = store.issuers[SlugOf[i]].active
      /\ r.kid = v.kid /\ r.parent = v.parent /\ r.root = v.root /\ r.mode = store.mode
      /\ r.exp = rec.exp
  BY <1>2 DEF IssuerManager
<1> QED BY <1>3, <1>4 DEF TakesMaterial, v, r

LEMMA NoManagerType == NoManager \in IssuerManager
  BY NoAuthorityType, StateConstants DEF NoManager, IssuerManager, IssuerPCs

\* Returning keeps the material.
LEMMA ReturnKeeps ==
  ASSUME NEW rec \in IssuerManager
  PROVE  /\ Return(rec) \in IssuerManager
         /\ Return(rec).rev = rec.rev /\ Return(rec).version = rec.version
         /\ Return(rec).kid = rec.kid /\ Return(rec).parent = rec.parent
         /\ Return(rec).root = rec.root /\ Return(rec).mode = rec.mode
         /\ Return(rec).exp = 0 /\ Return(rec).pc = "idle"
  BY NoAuthorityType DEF Return, IssuerManager, IssuerPCs

\* Every step of an IssuerManager has one of these effects.
LEMMA IssuerEffects ==
  ASSUME TypesInv, MaterialKept, NEW i \in Issuers, IssuerStep(i)
  PROVE  \E rec : IssuerEffect(i, rec)
<1>1. /\ im \in [Issuers -> IssuerManager] /\ im[i] \in IssuerManager
      /\ now \in Nat /\ store \in authorityState /\ MaximumLeafValidity \in Nat
  BY StateConstants DEF TypesInv, EInv, IInv, AuthTypeOK
<1>2. im[i].exp <= now + MaximumLeafValidity /\ (im[i].pc # "idle" => im[i].rev # 0)
  BY DEF MaterialKept
<1>3. KeepsMaterial(i, Return(im[i]))
  BY <1>1, ReturnKeeps DEF KeepsMaterial
<1>4. ASSUME NEW pc \in IssuerPCs, im[i].rev # 0
      PROVE  KeepsMaterial(i, [im[i] EXCEPT !.pc = pc])
  BY <1>1, <1>2, <1>4 DEF KeepsMaterial, IssuerManager
<1>5. CASE NewIssuerManager(i)
  <2>1. NoManager \in IssuerManager /\ NoManager.exp <= now + MaximumLeafValidity
    BY <1>1, NoManagerType DEF NoManager
  <2> QED BY <1>5, <2>1, ReloadTakes DEF NewIssuerManager, IssuerEffect
<1>6. CASE Reload(i)
  BY <1>1, <1>2, <1>6, ReloadTakes DEF Reload, IssuerEffect
<1>7. CASE Stop(i)
  BY <1>7 DEF Stop, IssuerEffect
<1>8. CASE SignStart(i)
  <2>1. CASE im[i].mode = "None" /\ im' = [im EXCEPT ![i].pc = "check"]
    <3>1. im' = [im EXCEPT ![i] = [im[i] EXCEPT !.pc = "check"]]
      BY <2>1, <1>1
    <3> QED BY <1>4, <1>8, <3>1 DEF SignStart, IssuerEffect, IssuerPCs
  <2>2. CASE im' = [im EXCEPT ![i].snap = store,
                              ![i].pc = IF store.revision # im[i].rev
                                        THEN "reload" ELSE "list"]
    <3> DEFINE rec == [im[i] EXCEPT !.snap = store,
                              !.pc = IF store.revision # im[i].rev THEN "reload" ELSE "list"]
    <3>1. im' = [im EXCEPT ![i] = rec]
      BY <2>2, <1>1
    <3>2. KeepsMaterial(i, rec)
      BY <1>1, <1>2, <1>8 DEF SignStart, KeepsMaterial, IssuerManager, IssuerPCs
    <3> HIDE DEF rec
    <3> QED BY <1>8, <3>1, <3>2 DEF SignStart, IssuerEffect
  <2> QED BY <1>8, <2>1, <2>2 DEF SignStart
<1>9. CASE SignReload(i)
  <2>1. CASE HasIssuer(i)
    <3> DEFINE r == reload(i, im[i])
               rec == [r EXCEPT !.pc = "list"]
    <3>1. TakesMaterial(i, r)
      BY <1>1, <1>2, <2>1, ReloadTakes
    <3>2. im' = [im EXCEPT ![i] = rec] /\ UNCHANGED <<authVars, issued>>
      BY <1>9, <2>1 DEF SignReload
    <3> HIDE DEF r
    <3>3. TakesMaterial(i, rec)
      BY <3>1 DEF TakesMaterial, IssuerManager, IssuerPCs
    <3> HIDE DEF rec
    <3> QED BY <3>2, <3>3 DEF IssuerEffect
  <2>2. CASE ~HasIssuer(i)
    BY <1>3, <1>9, <2>2 DEF SignReload, IssuerEffect
  <2> QED BY <2>1, <2>2
<1>10. CASE SignList(i)
  <2> DEFINE rec == [im[i] EXCEPT !.pc = "check", !.snap = NoAuthority]
  <2>1. KeepsMaterial(i, rec)
    BY <1>1, <1>2, <1>10, NoAuthorityType DEF SignList, KeepsMaterial, IssuerManager, IssuerPCs
  <2>2. /\ im' = [im EXCEPT ![i] = rec] \/ im' = [im EXCEPT ![i] = Return(im[i])]
        /\ UNCHANGED <<authVars, issued>>
    BY <1>10 DEF SignList
  <2> HIDE DEF rec
  <2> QED BY <1>3, <2>1, <2>2 DEF IssuerEffect
<1>11. CASE SignCheck(i)
  <2>1. PICK lifetime \in Lifetimes :
         im' = [im EXCEPT ![i] =
                  IF LeafFits(now + lifetime, im[i].notAfter)
                  THEN [im[i] EXCEPT !.pc = "attempt", !.exp = now + lifetime]
                  ELSE Return(im[i])]
    BY <1>11 DEF SignCheck
  <2> DEFINE rec == [im[i] EXCEPT !.pc = "attempt", !.exp = now + lifetime]
  <2>2. now + lifetime \in Nat /\ now + lifetime <= now + MaximumLeafValidity
    BY <1>1 DEF Lifetimes
  <2>3. KeepsMaterial(i, rec)
    <3>1. im[i].rev # 0
      BY <1>2, <1>11 DEF SignCheck
    <3> QED BY <1>1, <2>2, <3>1 DEF KeepsMaterial, IssuerManager, IssuerPCs
  <2>4. /\ im' = [im EXCEPT ![i] = rec] \/ im' = [im EXCEPT ![i] = Return(im[i])]
        /\ UNCHANGED <<authVars, issued>>
    BY <1>11, <2>1 DEF SignCheck
  <2> HIDE DEF rec
  <2> QED BY <1>3, <2>3, <2>4 DEF IssuerEffect
<1>12. CASE SignAttempt(i)
  <2> DEFINE again == [im[i] EXCEPT !.attempts = im[i].attempts + 1]
             next(serial) == [im[i] EXCEPT !.pc = "append", !.serial = serial]
  <2>0. im[i].attempts + 1 \in Nat /\ im[i].rev # 0
    <3>1. im[i].pc = "attempt"
      BY <1>12 DEF SignAttempt
    <3> QED BY <1>1, <1>2, <3>1 DEF IssuerManager
  <2>1. KeepsMaterial(i, again)
    BY <1>1, <1>2, <2>0 DEF KeepsMaterial, IssuerManager
  <2>2. ASSUME NEW serial \in Serials PROVE KeepsMaterial(i, next(serial))
    BY <1>1, <1>2, <1>12, IssuanceConstants
       DEF SignAttempt, KeepsMaterial, IssuerManager, IssuerPCs
  <2>3. /\ \/ im' = [im EXCEPT ![i] = Return(im[i])]
           \/ im' = [im EXCEPT ![i] = again]
           \/ \E serial \in Serials : im' = [im EXCEPT ![i] = next(serial)]
        /\ UNCHANGED <<authVars, issued>>
    BY <1>12 DEF SignAttempt
  <2> HIDE DEF again, next
  <2> QED BY <1>3, <2>1, <2>2, <2>3 DEF IssuerEffect
<1>13. CASE SignUnrecorded(i) \/ SignAppend(i)
  <2>1. Returns(i) /\ im' = [im EXCEPT ![i] = Return(im[i])]
    BY <1>13 DEF SignUnrecorded, SignAppend, Returns, authVars
  <2> QED BY <1>3, <2>1 DEF IssuerEffect
<1>14. CASE SignRefused(i)
  <2>1. KeepsMaterial(i, [im[i] EXCEPT !.pc = "conflict"])
    BY <1>2, <1>4, <1>14 DEF SignRefused, IssuerPCs
  <2>2. /\ \/ im' = [im EXCEPT ![i] = Return(im[i])]
           \/ im' = [im EXCEPT ![i] = [im[i] EXCEPT !.pc = "conflict"]]
        /\ UNCHANGED <<authVars, issued>>
    BY <1>14 DEF SignRefused
  <2> QED BY <1>3, <2>1, <2>2 DEF IssuerEffect
<1>15. CASE SignConflict(i)
  <2> DEFINE again == [im[i] EXCEPT !.pc = "attempt", !.attempts = im[i].attempts + 1]
  <2>1. KeepsMaterial(i, [im[i] EXCEPT !.pc = "reload2"])
    BY <1>2, <1>4, <1>15 DEF SignConflict, IssuerPCs
  <2>0. im[i].attempts + 1 \in Nat /\ im[i].rev # 0
    BY <1>1, <1>2, <1>15 DEF SignConflict, IssuerManager
  <2>2. KeepsMaterial(i, again)
    BY <1>1, <1>2, <2>0 DEF KeepsMaterial, IssuerManager, IssuerPCs
  <2>3. /\ \/ im' = [im EXCEPT ![i] = Return(im[i])]
           \/ im' = [im EXCEPT ![i] = [im[i] EXCEPT !.pc = "reload2"]]
           \/ im' = [im EXCEPT ![i] = again]
        /\ UNCHANGED <<authVars, issued>>
    BY <1>15 DEF SignConflict
  <2> HIDE DEF again
  <2> QED BY <1>3, <2>1, <2>2, <2>3 DEF IssuerEffect
<1>16. CASE SignReloadAgain(i)
  <2> DEFINE r == reload(i, im[i])
             rec == [r EXCEPT !.pc = "attempt", !.attempts = im[i].attempts + 1]
  <2>1. /\ \/ HasIssuer(i) /\ im' = [im EXCEPT ![i] = rec]
           \/ HasIssuer(i) /\ im' = [im EXCEPT ![i] = Return(r)]
           \/ im' = [im EXCEPT ![i] = Return(im[i])]
        /\ UNCHANGED <<authVars, issued>>
    BY <1>16 DEF SignReloadAgain
  <2>2. HasIssuer(i) => TakesMaterial(i, r)
    BY <1>1, <1>2, ReloadTakes
  <2> HIDE DEF r
  <2>0. im[i].attempts + 1 \in Nat
    BY <1>1 DEF IssuerManager
  <2>3. HasIssuer(i) => TakesMaterial(i, rec)
    BY <2>0, <2>2 DEF TakesMaterial, IssuerManager, IssuerPCs
  <2>4. HasIssuer(i) => TakesMaterial(i, Return(r))
    BY <1>1, <2>2, ReturnKeeps DEF TakesMaterial
  <2> HIDE DEF rec
  <2> QED BY <1>3, <2>1, <2>3, <2>4 DEF IssuerEffect
<1> QED BY <1>5, <1>6, <1>7, <1>8, <1>9, <1>10, <1>11, <1>12, <1>13, <1>14, <1>15, <1>16
        DEF IssuerStep, SignContinue
-----------------------------------------------------------------------------
(***************************************************************************)
(* Steps of the AuthorityManagers.                                         *)
(***************************************************************************)

\* An update, seen from the stored record.
LEMMA UpdateFacts ==
  ASSUME EInv, UpdateStep
  PROVE  /\ store'.id = store.id /\ store'.mode = store.mode
         /\ store'.revision = store.revision + 1 /\ store.revision \in Nat
         /\ RootsKept(store, store', ledger, now)
         /\ \A slug \in Slugs :
               /\ store.issuers[slug].active \in 0..MaxVersion
               /\ store'.issuers[slug].active \in 0..MaxVersion
               /\ store.issuers[slug].active <= store'.issuers[slug].active
               /\ \A v \in Versions : v <= store.issuers[slug].active =>
                     SameVersion(store'.issuers[slug].versions[v], store.issuers[slug].versions[v])
<1>1. PICK t \in authorityState : Evolves(store, t, ledger, now) /\ store' = Bump(t)
  BY DEF UpdateStep
<1>2. /\ store'.id = t.id /\ store'.mode = t.mode /\ store'.revision = t.revision + 1
      /\ store'.roots = t.roots /\ store'.issuers = t.issuers /\ store'.pending = t.pending
      /\ store'.activeRoot = t.activeRoot
  BY <1>1 DEF Bump, authorityState
<1>3. store \in authorityState /\ store.revision \in Nat
  BY DEF EInv, IInv, AuthTypeOK, authorityState
<1>4. RootsKept(store, store', ledger, now)
  BY <1>1, <1>2 DEF Evolves, RootsKept, Settled
<1> QED BY <1>1, <1>2, <1>3, <1>4, FieldTypes DEF Evolves, IssuersKept

\* The record after a first provision is newer than every key so far.
LEMMA FirstFacts ==
  ASSUME EInv, FirstStep
  PROVE  ~Provisioned(store) /\ store'.id = keys + 1 /\ keys' = keys + 1 /\ keys \in Nat
<1>1. keys \in Nat /\ now \in Nat
  BY DEF EInv, IInv, AuthTypeOK
<1>2. PICK configured \in SUBSET Slugs, mode \in IssuanceModes :
        store' = Bump(provision(keys + 1, now, configured, mode))
  BY DEF FirstStep
<1>3. provision(keys + 1, now, configured, mode) \in authorityState
  BY <1>1, ProvisionType
<1>4. provision(keys + 1, now, configured, mode).id = keys + 1
  BY <1>1, ProvisionNumbered
<1> QED BY <1>1, <1>2, <1>3, <1>4 DEF FirstStep, Bump, authorityState

LEMMA AuthorityKeepsMaterial ==
  ASSUME TypesInv, MaterialKept, [AuthNext]_authVars, UNCHANGED issuerVars
  PROVE  MaterialKept'
<1>1. EInv /\ EInv' /\ im' = im /\ issued' = issued
  BY NextEInv DEF TypesInv, issuerVars
<1>2. keys \in Nat /\ keys' \in Nat /\ now \in Nat /\ now' \in Nat /\ MaximumLeafValidity \in Nat
  BY <1>1, StateConstants DEF EInv, IInv, AuthTypeOK
<1> SUFFICES ASSUME NEW i \in Issuers
             PROVE  /\ im[i].rev # 0 => im[i].kid <= keys'
                    /\ im[i].exp <= now' + MaximumLeafValidity
                    /\ Loaded(i)' =>
                          /\ im[i].version <= store'.issuers[SlugOf[i]].active
                          /\ MaterialOf(i)'.kid = im[i].kid
                          /\ MaterialOf(i)'.parent = im[i].parent
                          /\ MaterialOf(i)'.root = im[i].root
                          /\ im[i].mode = store'.mode
                          /\ im[i].rev <= store'.revision
                          /\ im[i].rev = store'.revision =>
                                im[i].version = store'.issuers[SlugOf[i]].active
  BY <1>1 DEF MaterialKept
<1>3. /\ im[i].rev \in Nat /\ im[i].kid \in Nat /\ im[i].exp \in Nat
      /\ im[i].version \in 0..MaxVersion /\ SlugOf[i] \in Slugs
  BY IssuanceConstants DEF TypesInv, IssuerManager
<1>4. /\ im[i].rev # 0 => im[i].kid <= keys /\ im[i].version # 0
      /\ im[i].exp <= now + MaximumLeafValidity
  BY DEF MaterialKept
<1>5. CASE QuietStep
  BY SMTT(30), <1>1, <1>2, <1>3, <1>4, <1>5 DEF QuietStep, MaterialKept, Loaded, MaterialOf
<1>6. CASE PurgeStep
  BY <1>1, <1>2, <1>3, <1>4, <1>6, NoneProvisioned DEF PurgeStep, Loaded
<1>7. CASE FirstStep
  <2>1. store'.id = keys + 1 /\ keys' = keys + 1 /\ now' = now
    BY <1>1, <1>7, FirstFacts DEF FirstStep
  <2> QED BY <1>1, <1>2, <1>3, <1>4, <2>1 DEF Loaded
<1>8. CASE UpdateStep
  <2>1. keys <= keys' /\ now' = now /\ Provisioned(store)
    BY <1>8 DEF UpdateStep
  <2>2. ASSUME Loaded(i)' PROVE Loaded(i) /\ im[i].version \in Versions
    BY <1>1, <1>3, <1>4, <1>8, <2>1, <2>2, UpdateFacts, StateConstants DEF Loaded, Versions
  <2>3. ASSUME Loaded(i)'
        PROVE  SameVersion(MaterialOf(i)', MaterialOf(i))
    BY <1>1, <1>3, <1>8, <2>2, <2>3, UpdateFacts DEF MaterialOf, MaterialKept
  <2>4. ASSUME Loaded(i)'
        PROVE  /\ im[i].version <= store'.issuers[SlugOf[i]].active
               /\ im[i].mode = store'.mode
               /\ im[i].rev < store'.revision
    BY <1>1, <1>3, <1>8, <2>2, <2>4, UpdateFacts DEF MaterialKept
  <2> QED BY <1>1, <1>2, <1>3, <1>4, <1>8, <2>1, <2>2, <2>3, <2>4, UpdateFacts
          DEF MaterialKept, SameVersion
<1> QED BY <1>1, <1>5, <1>6, <1>7, <1>8, StepKinds

\* The trust deadline a retired root gets covers the leaves issued under it.
LEMMA DeadlineCovers ==
  ASSUME TypesInv, LeavesTrusted, LedgerComplete, NEW x \in issued,
         Provisioned(store), x.current, x.id = store.id, x.root = store.activeRoot,
         NEW d, IsTrustDeadline(store, ledger, now, d)
  PROVE  x.exp + ClockSkew <= d
<1>1. LeafTrusted(x) /\ x.exp <= now + MaximumLeafValidity
  BY DEF LeavesTrusted
<1>2. /\ x \in Leaf /\ x.exp \in Nat /\ x.version \in Versions /\ x.slug \in Slugs
      /\ now \in Nat /\ ClockSkew \in Nat /\ MaximumLeafValidity \in Nat
      /\ ledger \subseteq LedgerRecord /\ store \in authorityState
      /\ x.mode \in {"None", "Ledger"}
  BY StateConstants DEF TypesInv, EInv, IInv, AuthTypeOK, Leaf
<1>3. CASE store.mode = "None"
  BY <1>1, <1>2, <1>3 DEF IsTrustDeadline
<1>4. CASE store.mode # "None"
  <2>1. x.mode = "Ledger"
    BY <1>1, <1>2, <1>4 DEF LeafTrusted
  <2>2. PICK r \in ledger : r.slug = x.slug /\ r.version = x.version /\ r.exp = x.exp
    BY <2>1 DEF LedgerComplete
  <2>3. store.issuers[r.slug].active # 0
    <3>1. store.issuers[x.slug].active \in 0..MaxVersion
      BY <1>2, FieldTypes
    <3> QED BY <1>1, <1>2, <2>2, <3>1 DEF LeafTrusted, Versions
  <2>4. r.exp + ClockSkew \in ledgerInstants(store, ledger, store.activeRoot)
    BY <1>1, <2>2, <2>3 DEF LeafTrusted, ledgerInstants
  <2> QED BY <1>4, <2>2, <2>4 DEF IsTrustDeadline
<1> QED BY <1>3, <1>4

LEMMA AuthorityKeepsLeaves ==
  ASSUME TypesInv, LeavesTrusted, LedgerComplete, [AuthNext]_authVars, UNCHANGED issuerVars
  PROVE  LeavesTrusted'
<1>1. EInv /\ EInv' /\ issued' = issued
  BY NextEInv DEF TypesInv, issuerVars
<1>2. /\ keys \in Nat /\ keys' \in Nat /\ now \in Nat /\ now' \in Nat
      /\ MaximumLeafValidity \in Nat /\ ClockSkew \in Nat
      /\ store \in authorityState /\ store' \in authorityState
  BY <1>1, StateConstants DEF EInv, IInv, AuthTypeOK
<1> SUFFICES ASSUME NEW x \in issued
             PROVE  /\ x.id <= keys'
                    /\ x.exp <= now' + MaximumLeafValidity
                    /\ x.current /\ x.id = store'.id => LeafTrusted(x)'
  BY <1>1 DEF LeavesTrusted
<1>3. /\ x.id \in Nat /\ x.exp \in Nat /\ x.version \in Versions /\ x.slug \in Slugs
      /\ x.root \in Gens
  BY DEF TypesInv, Leaf
<1>4. /\ x.id <= keys
      /\ x.exp <= now + MaximumLeafValidity
      /\ x.current => x.id # 0
      /\ x.current /\ x.id = store.id => LeafTrusted(x)
  BY DEF LeavesTrusted
<1>5. CASE QuietStep
  <2>1. store' = store /\ keys <= keys' /\ now <= now'
    BY <1>5 DEF QuietStep
  <2> QED BY <1>2, <1>3, <1>4, <2>1 DEF LeafTrusted, Settled
<1>6. CASE PurgeStep
  <2>1. store'.id = 0 /\ keys' = keys /\ now' = now
    BY <1>6, NoneProvisioned DEF PurgeStep, Provisioned
  <2> QED BY <1>4, <2>1
<1>7. CASE FirstStep
  <2>1. store'.id = keys + 1 /\ keys' = keys + 1 /\ now' = now
    BY <1>1, <1>7, FirstFacts DEF FirstStep
  <2> QED BY <1>2, <1>3, <1>4, <2>1
<1>8. CASE UpdateStep
  <2>1. keys <= keys' /\ now' = now /\ Provisioned(store)
    BY <1>8 DEF UpdateStep
  <2>2. SUFFICES ASSUME x.current, x.id = store'.id PROVE LeafTrusted(x)'
    BY <1>2, <1>3, <1>4, <2>1
  <2>3. x.id = store.id /\ LeafTrusted(x)
    BY <1>1, <1>4, <1>8, <2>2, UpdateFacts
  <2>4. /\ store'.mode = store.mode
        /\ x.version <= store'.issuers[x.slug].active
        /\ SameVersion(store'.issuers[x.slug].versions[x.version],
                       store.issuers[x.slug].versions[x.version])
    <3>1. x.version <= store.issuers[x.slug].active
      BY <2>3 DEF LeafTrusted
    <3> QED BY <1>1, <1>3, <1>8, <3>1, UpdateFacts DEF Versions
  <2>5. /\ Settled(store', x.root) /\ store'.roots[x.root].kid = store.roots[x.root].kid
        /\ \/ /\ store'.roots[x.root].until = store.roots[x.root].until
              /\ x.root = store.activeRoot => x.root = store'.activeRoot
           \/ x.root # store.activeRoot /\ store.roots[x.root].until <= now
           \/ x.root = store.activeRoot /\ IsTrustDeadline(store, ledger, now, store'.roots[x.root].until)
    BY <1>1, <1>3, <1>8, <2>3, UpdateFacts DEF LeafTrusted, RootsKept
  <2>6. store.roots[x.root].until \in Nat /\ store'.roots[x.root].until \in Nat
    BY <1>2, <1>3 DEF authorityState, rootRecord
  <2>7. \/ x.root = store'.activeRoot
        \/ x.exp + ClockSkew <= store'.roots[x.root].until
        \/ x.exp + ClockSkew <= now
    <3>1. CASE x.root = store.activeRoot /\ IsTrustDeadline(store, ledger, now, store'.roots[x.root].until)
      BY <2>1, <2>2, <2>3, <3>1, DeadlineCovers
    <3>2. CASE /\ store'.roots[x.root].until = store.roots[x.root].until
               /\ x.root = store.activeRoot => x.root = store'.activeRoot
      BY <2>3, <3>2 DEF LeafTrusted
    <3>3. CASE x.root # store.activeRoot /\ store.roots[x.root].until <= now
      BY <1>2, <1>3, <2>3, <2>6, <3>3 DEF LeafTrusted
    <3> QED BY <2>5, <3>1, <3>2, <3>3
  <2>8. /\ store'.roots[x.root].kid = x.parent
        /\ x.mode = store'.mode
        /\ store'.issuers[x.slug].versions[x.version].kid # 0
        /\ store'.issuers[x.slug].versions[x.version].root = x.root
    BY <2>3, <2>4, <2>5 DEF LeafTrusted, SameVersion
  <2> QED BY <2>1, <2>4, <2>5, <2>7, <2>8 DEF LeafTrusted
<1> QED BY <1>1, <1>5, <1>6, <1>7, <1>8, StepKinds

LEMMA AuthorityKeepsLedger ==
  ASSUME TypesInv, LeavesTrusted, LedgerComplete, [AuthNext]_authVars, UNCHANGED issuerVars
  PROVE  LedgerComplete'
<1>1. EInv /\ issued' = issued /\ keys \in Nat
  BY DEF TypesInv, issuerVars, EInv, IInv, AuthTypeOK
<1>2. CASE QuietStep
  BY <1>1, <1>2 DEF QuietStep, LedgerComplete
<1>3. CASE PurgeStep
  BY <1>3, NoneProvisioned DEF PurgeStep, LedgerComplete
<1>4. CASE FirstStep
  <2>1. store'.id = keys + 1 /\ ledger' = ledger
    BY <1>1, <1>4, FirstFacts DEF FirstStep
  <2>2. \A x \in issued : x.id # store'.id
    BY <1>1, <2>1 DEF LeavesTrusted, TypesInv, Leaf
  <2> QED BY <1>1, <2>1, <2>2 DEF LedgerComplete
<1>5. CASE UpdateStep
  <2>1. ledger' = ledger /\ store'.id = store.id
    BY <1>1, <1>5, UpdateFacts DEF UpdateStep
  <2> QED BY <1>1, <2>1 DEF LedgerComplete, Provisioned
<1> QED BY <1>1, <1>2, <1>3, <1>4, <1>5, StepKinds

LEMMA AuthorityKeeps ==
  ASSUME SInv, [AuthNext]_authVars, UNCHANGED issuerVars
  PROVE  SInv'
<1>1. TypesInv'
  BY NextEInv DEF SInv, TypesInv, issuerVars
<1> QED BY <1>1, AuthorityKeepsMaterial, AuthorityKeepsLeaves, AuthorityKeepsLedger DEF SInv
-----------------------------------------------------------------------------
(***************************************************************************)
(* Steps of the IssuerManagers.                                            *)
(***************************************************************************)

\* What a signing manager hands out is well typed.
LEMMA SignedTypes ==
  ASSUME TypesInv, MaterialKept, NEW i \in Issuers, im[i].pc = "append"
  PROVE  SignedLeaf(i) \in Leaf /\ SignedRecord(i) \in LedgerRecord
<1>1. im[i] \in IssuerManager /\ SlugOf[i] \in Slugs /\ store.id \in Nat
  BY IssuanceConstants DEF TypesInv, EInv, IInv, AuthTypeOK, authorityState
<1>2. im[i].version # 0 /\ im[i].root # 0
  BY DEF MaterialKept
<1>3. /\ im[i].version \in Versions /\ im[i].root \in Gens /\ im[i].rev \in Nat
      /\ im[i].serial \in Nat /\ im[i].exp \in Nat /\ im[i].kid \in Nat
      /\ im[i].parent \in Nat /\ im[i].mode \in {"None", "Ledger"}
  BY <1>1, <1>2, StateConstants DEF IssuerManager, Versions, Gens
<1> DEFINE current == HasIssuer(i) /\ im[i].kid = ActiveVersion(store, SlugOf[i]).kid
<1>4. current \in BOOLEAN
  BY DEF HasIssuer, Provisioned
<1>5. SignedLeaf(i) = [id |-> store.id, slug |-> SlugOf[i], version |-> im[i].version,
          serial |-> im[i].serial, exp |-> im[i].exp, signer |-> im[i].kid,
          root |-> im[i].root, parent |-> im[i].parent, mode |-> im[i].mode,
          current |-> current]
  BY DEF SignedLeaf
<1> HIDE DEF current
<1>6. SignedLeaf(i) \in Leaf
  BY <1>1, <1>3, <1>4, <1>5 DEF Leaf
<1>7. SignedRecord(i) \in LedgerRecord
  BY <1>1, <1>3 DEF SignedRecord, LedgerRecord
<1> QED BY <1>6, <1>7

\* Issuer steps leave everything but the ledger as it is.
LEMMA IssuerKeepsTypes ==
  ASSUME TypesInv, MaterialKept, NEW i \in Issuers, NEW rec, IssuerEffect(i, rec)
  PROVE  /\ TypesInv'
         /\ UNCHANGED <<now, keys, store, unlocks, exported, am>>
<1>1. rec \in IssuerManager
  BY NoManagerType DEF IssuerEffect, KeepsMaterial, TakesMaterial
<1>2. im' \in [Issuers -> IssuerManager]
  BY <1>1 DEF IssuerEffect, TypesInv
<1>3. issued' \subseteq Leaf
  BY SignedTypes DEF IssuerEffect, Returns, TypesInv
<1>4. UNCHANGED <<now, keys, store, unlocks, exported, am>>
  BY DEF IssuerEffect, Returns, authVars
<1>5. ledger' \subseteq LedgerRecord
  <2>1. ledger \subseteq LedgerRecord
    BY DEF TypesInv, EInv, IInv, AuthTypeOK
  <2> QED BY <2>1, SignedTypes DEF IssuerEffect, Returns, authVars
<1>6. EInv'
  BY <1>4, <1>5 DEF TypesInv, EInv, IInv, AuthTypeOK, StoreInv, Consistent, NumberedStore, Numbered
<1> QED BY <1>2, <1>3, <1>4, <1>6 DEF TypesInv

LEMMA IssuerKeepsMaterial ==
  ASSUME TypesInv, MaterialKept, NEW i \in Issuers, NEW rec, IssuerEffect(i, rec)
  PROVE  MaterialKept'
<1>1. UNCHANGED <<now, keys, store>>
  BY IssuerKeepsTypes
<1>2. im' = [im EXCEPT ![i] = rec] /\ im \in [Issuers -> IssuerManager]
  BY DEF IssuerEffect, TypesInv
<1>3. ASSUME NEW j \in Issuers, j # i PROVE im'[j] = im[j]
  BY <1>2, <1>3
<1>4. im'[i] = rec
  BY <1>2
<1>5. now \in Nat /\ keys \in Nat /\ MaximumLeafValidity \in Nat
  BY StateConstants DEF TypesInv, EInv, IInv, AuthTypeOK
<1> SUFFICES ASSUME NEW j \in Issuers
             PROVE  (/\ im[j].pc # "idle" => im[j].rev # 0
                     /\ im[j].rev # 0 => /\ im[j].version # 0 /\ im[j].root # 0
                                         /\ im[j].kid # 0 /\ im[j].kid <= keys
                     /\ im[j].exp <= now + MaximumLeafValidity
                     /\ Loaded(j) =>
                           /\ im[j].version <= store.issuers[SlugOf[j]].active
                           /\ MaterialOf(j).kid = im[j].kid
                           /\ MaterialOf(j).parent = im[j].parent
                           /\ MaterialOf(j).root = im[j].root
                           /\ im[j].mode = store.mode
                           /\ im[j].rev <= store.revision
                           /\ im[j].rev = store.revision =>
                                 im[j].version = store.issuers[SlugOf[j]].active)'
  BY DEF MaterialKept
<1>6. CASE j # i
  BY SMTT(30), <1>1, <1>3, <1>6 DEF MaterialKept, Loaded, MaterialOf
<1>7. CASE j = i /\ rec = NoManager
  BY <1>1, <1>4, <1>5, <1>7 DEF NoManager, Loaded
<1>8. CASE j = i /\ KeepsMaterial(i, rec)
  BY SMTT(30), <1>1, <1>4, <1>8 DEF KeepsMaterial, MaterialKept, Loaded, MaterialOf
<1>9. CASE j = i /\ TakesMaterial(i, rec)
  <2> DEFINE v == ActiveVersion(store, SlugOf[i])
  <2>1. /\ v.kid # 0 /\ v.kid <= keys /\ v.root \in Gens
        /\ store.issuers[SlugOf[i]].active \in Versions /\ store.revision \in Nat \ {0}
    BY <1>9, ActiveFacts DEF TakesMaterial
  <2>2. /\ rec.rev = store.revision /\ rec.version = store.issuers[SlugOf[i]].active
        /\ rec.kid = v.kid /\ rec.parent = v.parent /\ rec.root = v.root
        /\ rec.mode = store.mode /\ rec.exp <= now + MaximumLeafValidity
    BY <1>9 DEF TakesMaterial
  <2>3. v = store.issuers[SlugOf[i]].versions[store.issuers[SlugOf[i]].active]
    BY DEF ActiveVersion
  <2> HIDE DEF v
  <2>4. MaterialOf(i)' = v /\ im'[i] = rec /\ j = i
    BY <1>1, <1>4, <1>9, <2>2, <2>3 DEF MaterialOf
  <2> QED BY <1>1, <1>5, <2>1, <2>2, <2>4, StateConstants DEF Versions, Gens
<1> QED BY <1>6, <1>7, <1>8, <1>9 DEF IssuerEffect

\* A leaf signed with the active key is signed with the active version, under
\* the active root: no two versions share a key.
LEMMA SignedTrusted ==
  ASSUME TypesInv, MaterialKept, NEW i \in Issuers, im[i].pc = "append", SignedLeaf(i).current
  PROVE  Provisioned(store) /\ LeafTrusted(SignedLeaf(i))
<1>1. HasIssuer(i) /\ im[i].kid = ActiveVersion(store, SlugOf[i]).kid /\ Provisioned(store)
  BY DEF SignedLeaf, HasIssuer
<1> DEFINE x == SignedLeaf(i)
           v == ActiveVersion(store, SlugOf[i])
           active == store.issuers[SlugOf[i]].active
<1>2. /\ SlugOf[i] \in Slugs /\ active \in Versions /\ v.kid # 0 /\ store.id <= v.kid
      /\ v.root = store.activeRoot /\ v.root \in Gens
      /\ v.parent = store.roots[v.root].kid
      /\ store.roots[v.root].kid # 0 /\ v.root # store.pending.root
  BY <1>1, ActiveFacts
<1>3. im[i].rev # 0 /\ im[i].version # 0 /\ im[i].version \in 0..MaxVersion
  BY DEF MaterialKept, TypesInv, IssuerManager
<1>4. Loaded(i)
  BY <1>1, <1>2, <1>3 DEF Loaded
<1>5. /\ MaterialOf(i).kid = im[i].kid /\ MaterialOf(i).parent = im[i].parent
      /\ MaterialOf(i).root = im[i].root /\ im[i].mode = store.mode
  BY <1>4 DEF MaterialKept
<1>6. im[i].version = active
  <2>1. Numbered(store, keys)
    BY <1>1 DEF TypesInv, EInv, NumberedStore
  <2>2. im[i].version \in Versions
    BY <1>3, StateConstants DEF Versions
  <2> QED BY <1>1, <1>2, <1>5, <2>1, <2>2 DEF Numbered, MaterialOf, ActiveVersion
<1>7. MaterialOf(i) = v
  BY <1>6 DEF MaterialOf, ActiveVersion
<1>8. /\ x.root = v.root /\ x.parent = v.parent /\ x.mode = store.mode /\ x.slug = SlugOf[i]
      /\ x.version = active
  BY <1>5, <1>6, <1>7 DEF SignedLeaf
<1>9. v = store.issuers[SlugOf[i]].versions[active]
  BY DEF ActiveVersion
<1> HIDE DEF x, v
<1>10. LeafTrusted(x)
  BY <1>2, <1>8, <1>9 DEF LeafTrusted, Settled, Versions
<1> QED BY <1>1, <1>10 DEF x

LEMMA IssuerKeepsLeaves ==
  ASSUME TypesInv, MaterialKept, LeavesTrusted, NEW i \in Issuers, NEW rec, IssuerEffect(i, rec)
  PROVE  LeavesTrusted'
<1>1. UNCHANGED <<now, keys, store>>
  BY IssuerKeepsTypes
<1>2. ASSUME NEW x PROVE LeafTrusted(x)' <=> LeafTrusted(x)
  BY <1>1 DEF LeafTrusted, Settled
<1>3. CASE issued' = issued
  BY <1>1, <1>2, <1>3 DEF LeavesTrusted
<1>4. CASE Returns(i)
  <2> DEFINE x == SignedLeaf(i)
  <2>1. issued' = issued \cup {x} /\ im[i].pc = "append"
    BY <1>4 DEF Returns
  <2>2. x.id = store.id /\ x.exp = im[i].exp
    BY DEF SignedLeaf
  <2>3. store.id <= keys
    <3>1. keys \in Nat /\ store.id \in Nat
      BY DEF TypesInv, EInv, IInv, AuthTypeOK, authorityState
    <3>2. store.id # 0 => store.id \in 1..keys
      BY DEF TypesInv, EInv, NumberedStore, Numbered, Provisioned
    <3> QED BY <3>1, <3>2
  <2>4. im[i].exp <= now + MaximumLeafValidity
    BY DEF MaterialKept
  <2>5. x.current => LeafTrusted(x) /\ x.id # 0
    BY <2>1, <2>2, SignedTrusted DEF Provisioned
  <2> HIDE DEF x
  <2> QED BY <1>1, <1>2, <2>1, <2>2, <2>3, <2>4, <2>5 DEF LeavesTrusted
<1> QED BY <1>3, <1>4 DEF IssuerEffect

LEMMA IssuerKeepsLedger ==
  ASSUME TypesInv, MaterialKept, LedgerComplete, NEW i \in Issuers, NEW rec, IssuerEffect(i, rec)
  PROVE  LedgerComplete'
<1>1. UNCHANGED store
  BY IssuerKeepsTypes
<1>2. CASE UNCHANGED <<authVars, issued>>
  BY <1>2 DEF LedgerComplete, authVars
<1>3. CASE im[i].mode = "None" /\ issued' = issued \cup {SignedLeaf(i)} /\ UNCHANGED authVars
  <2>1. SignedLeaf(i).mode = "None"
    BY <1>3 DEF SignedLeaf
  <2> QED BY <1>3, <2>1 DEF LedgerComplete, authVars
<1>4. CASE /\ AppendAccepts(i) /\ issued' = issued \cup {SignedLeaf(i)}
           /\ ledger' = ledger \cup {SignedRecord(i)}
  <2> DEFINE x == SignedLeaf(i)
             s == SignedRecord(i)
  <2>1. /\ x.slug = s.slug /\ x.version = s.version /\ x.serial = s.serial
        /\ x.exp = s.exp /\ x.signer = s.signer
        /\ s.slug = SlugOf[i] /\ s.version = im[i].version /\ s.serial = im[i].serial
    BY DEF SignedLeaf, SignedRecord
  <2>2. \A r \in ledger : ~(r.slug = s.slug /\ r.version = s.version /\ r.serial = s.serial)
    BY <1>4, <2>1 DEF AppendAccepts, SameSerial
  <2>3. issued' = issued \cup {x} /\ ledger' = ledger \cup {s}
    BY <1>4
  <2> HIDE DEF x, s
  <2>4. ASSUME NEW y \in issued', y.mode = "Ledger", y.id = store'.id, Provisioned(store')
        PROVE  \E r \in ledger' : /\ r.slug = y.slug /\ r.version = y.version
                                  /\ r.serial = y.serial /\ r.exp = y.exp
                                  /\ r.signer = y.signer
    <3>1. CASE y = x
      BY <3>1, <2>1, <2>3
    <3>2. CASE y \in issued
      BY <1>1, <2>3, <2>4, <3>2 DEF LedgerComplete
    <3> QED BY <2>3, <3>1, <3>2
  <2>5. ASSUME NEW r1 \in ledger', NEW r2 \in ledger',
               r1.slug = r2.slug, r1.version = r2.version, r1.serial = r2.serial
        PROVE  r1 = r2
    BY <2>2, <2>3, <2>5 DEF LedgerComplete
  <2> QED BY <2>4, <2>5 DEF LedgerComplete
<1> QED BY <1>2, <1>3, <1>4 DEF IssuerEffect, Returns

LEMMA InitSInv == Init => SInv
<1> SUFFICES ASSUME Init PROVE SInv
  OBVIOUS
<1>1. EInv /\ store = NoAuthority /\ ledger = {} /\ now = 0 /\ keys = 0
  BY InitEInv DEF Init, AuthInit
<1>2. im = [i \in Issuers |-> NoManager] /\ issued = {}
  BY DEF Init
<1>3. TypesInv
  BY <1>1, <1>2, NoManagerType DEF TypesInv
<1>4. MaterialKept
  BY <1>1, <1>2, StateConstants DEF MaterialKept, Loaded, NoManager
<1>5. LeavesTrusted /\ LedgerComplete
  BY <1>1, <1>2 DEF LeavesTrusted, LedgerComplete
<1> QED BY <1>3, <1>4, <1>5 DEF SInv

LEMMA NextSInv == SInv /\ [Next]_vars => SInv'
<1> SUFFICES ASSUME SInv, [Next]_vars PROVE SInv'
  OBVIOUS
<1>1. CASE AuthorityStep \/ UNCHANGED vars
  BY <1>1, AuthorityKeeps DEF AuthorityStep, vars
<1>2. ASSUME NEW i \in Issuers, IssuerStep(i) PROVE SInv'
  <2>1. PICK rec : IssuerEffect(i, rec)
    BY <1>2, IssuerEffects DEF SInv
  <2> QED BY <2>1, IssuerKeepsTypes, IssuerKeepsMaterial, IssuerKeepsLeaves, IssuerKeepsLedger
          DEF SInv
<1> QED BY <1>1, <1>2 DEF Next

-----------------------------------------------------------------------------
(***************************************************************************)
(* The theorems, first those that hold even when a purged store is         *)
(* provisioned again under running IssuerManagers.                         *)
(***************************************************************************)

\* The memory of the managers, the ledger and the leaves always have their
\* types: no leaf or record carries the version or root number of a manager
\* that has loaded nothing.
THEOREM IssuanceTypes == Spec => []TypeOK
<1>1. SInv => TypeOK
  BY DEF SInv, TypesInv, EInv, IInv, TypeOK
<1> QED BY <1>1, InitSInv, NextSInv, PTL DEF Spec

\* A leaf that SignCSR signed with the active key can be verified until it has
\* expired: its root stays in the trust bundle through promotions, pruning,
\* failed writes and restarts, in Ledger mode because of the records.
THEOREM LeavesStayTrusted == Spec => []TrustCoverage
<1>1. SInv => TrustCoverage
  <2> SUFFICES ASSUME SInv, NEW x \in issued, x.id = store.id, x.current,
                      now < x.exp + ClockSkew
               PROVE  /\ x.root \in buildTrustBundle(store, now)
                      /\ store.roots[x.root].kid = x.parent
    BY DEF TrustCoverage
  <2>1. LeafTrusted(x)
    BY DEF SInv, LeavesTrusted
  <2>2. x.exp \in Nat /\ x.root \in Gens /\ now \in Nat /\ ClockSkew \in Nat
    BY StateConstants DEF SInv, TypesInv, EInv, IInv, AuthTypeOK, Leaf
  <2>3. store.roots[x.root].until \in Nat
    BY <2>2 DEF SInv, TypesInv, EInv, IInv, AuthTypeOK, authorityState, rootRecord
  <2> QED BY <2>1, <2>2, <2>3 DEF LeafTrusted, Settled, buildTrustBundle
<1> QED BY <1>1, InitSInv, NextSInv, PTL DEF Spec

\* Every leaf returned in Ledger mode is on record, and no two records of an
\* issuer version share a serial, although a serial is looked up long before it
\* is recorded.
THEOREM LeavesOnRecord == Spec => []LedgerComplete
<1>1. SInv => LedgerComplete
  BY DEF SInv
<1> QED BY <1>1, InitSInv, NextSInv, PTL DEF Spec
-----------------------------------------------------------------------------
(***************************************************************************)
(* What rests on the revision.  A revision identifies a state of one       *)
(* authority; an authority provisioned after a purge counts from the start *)
(* again, so these hold while a purged store is not provisioned again.     *)
(* Then the record has the first identity, all material is Loaded, and     *)
(* every record is of a version that has been active.                      *)
(***************************************************************************)
Records ==
    /\ ~Provisioned(store) => ledger = {}
    /\ store.id \in {0, 1}
    /\ Provisioned(store) /\ store.mode = "Ledger" =>
          \A r \in ledger : r.version <= store.issuers[r.slug].active
    /\ LedgerValid
    /\ LedgerLeavesCurrent

RInv == SInv /\ Records

\* A manager at the stored revision holds the active material.
LEMMA CurrentRevision ==
  ASSUME SInv, store.id \in {0, 1}, Provisioned(store), NEW i \in Issuers,
         im[i].rev = store.revision
  PROVE  /\ im[i].version = store.issuers[SlugOf[i]].active
         /\ im[i].kid = ActiveVersion(store, SlugOf[i]).kid
         /\ im[i].version # 0 /\ im[i].kid # 0 /\ im[i].mode = store.mode
<1>1. /\ im[i].rev # 0 /\ store.id = 1 /\ im[i].kid \in Nat
  BY DEF SInv, TypesInv, EInv, NumberedStore, IssuerManager, Provisioned
<1>2. im[i].kid # 0 /\ im[i].version # 0
  BY <1>1 DEF SInv, MaterialKept
<1>3. Loaded(i)
  BY <1>1, <1>2 DEF Loaded
<1> QED BY <1>2, <1>3 DEF SInv, MaterialKept, MaterialOf, ActiveVersion

LEMMA AuthorityKeepsRecords ==
  ASSUME RInv, ~Reprovision, [AuthNext]_authVars, UNCHANGED issuerVars
  PROVE  Records'
<1>1. EInv /\ issued' = issued /\ ledger \subseteq LedgerRecord /\ keys \in Nat
  BY DEF RInv, SInv, TypesInv, EInv, IInv, AuthTypeOK, issuerVars
<1>2. LedgerLeavesCurrent'
  BY <1>1 DEF RInv, Records, LedgerLeavesCurrent
<1>3. CASE QuietStep
  BY <1>2, <1>3 DEF QuietStep, RInv, Records, LedgerValid
<1>4. CASE PurgeStep
  <2>1. store'.id = 0 /\ ledger' = {}
    BY <1>4, NoneProvisioned DEF PurgeStep, Provisioned
  <2> QED BY <1>2, <2>1 DEF Records, LedgerValid, Provisioned
<1>5. CASE FirstStep
  <2>1. store'.id = 1 /\ ledger' = {}
    BY <1>1, <1>5, FirstFacts DEF FirstStep, RInv, Records
  <2> QED BY <1>2, <2>1 DEF Records, LedgerValid, validateLedgerRecords, Provisioned
<1>6. CASE UpdateStep
  <2>1. ledger' = ledger /\ Provisioned(store) /\ store'.id = store.id /\ store'.mode = store.mode
    BY <1>1, <1>6, UpdateFacts DEF UpdateStep
  <2>2. ASSUME store.mode = "Ledger", NEW r \in ledger
        PROVE  /\ r.version <= store'.issuers[r.slug].active
               /\ r.rev <= store'.revision
               /\ store'.issuers[r.slug].active # 0
               /\ store'.issuers[r.slug].versions[r.version].kid # 0
               /\ store'.issuers[r.slug].versions[r.version].kid = r.signer
    <3>1. r.slug \in Slugs /\ r.version \in Versions /\ r.rev \in Nat
      BY <1>1 DEF LedgerRecord
    <3>2. /\ r.version <= store.issuers[r.slug].active
          /\ r.rev <= store.revision
          /\ store.issuers[r.slug].versions[r.version].kid # 0
          /\ store.issuers[r.slug].versions[r.version].kid = r.signer
      BY <2>1, <2>2 DEF RInv, Records, LedgerValid, validateLedgerRecords
    <3>3. /\ store.issuers[r.slug].active \in 0..MaxVersion
          /\ store'.issuers[r.slug].active \in 0..MaxVersion
          /\ store.issuers[r.slug].active <= store'.issuers[r.slug].active
          /\ store'.issuers[r.slug].versions[r.version].kid
                = store.issuers[r.slug].versions[r.version].kid
          /\ store'.revision = store.revision + 1 /\ store.revision \in Nat
      BY <1>1, <1>6, <3>1, <3>2, UpdateFacts DEF SameVersion
    <3> QED BY <3>1, <3>2, <3>3 DEF Versions
  <2> QED BY <1>2, <2>1, <2>2 DEF RInv, Records, LedgerValid, validateLedgerRecords, Provisioned
<1> QED BY <1>1, <1>3, <1>4, <1>5, <1>6, StepKinds

LEMMA IssuerKeepsRecords ==
  ASSUME RInv, NEW i \in Issuers, NEW rec, IssuerEffect(i, rec)
  PROVE  Records'
<1>1. UNCHANGED store
  BY IssuerKeepsTypes DEF RInv, SInv
<1>2. CASE UNCHANGED <<authVars, issued>>
  BY <1>2 DEF RInv, Records, LedgerValid, LedgerLeavesCurrent, authVars
<1>3. CASE im[i].mode = "None" /\ issued' = issued \cup {SignedLeaf(i)} /\ UNCHANGED authVars
  <2>1. SignedLeaf(i).mode = "None"
    BY <1>3 DEF SignedLeaf
  <2> QED BY <1>3, <2>1 DEF RInv, Records, LedgerValid, LedgerLeavesCurrent, authVars
<1>4. CASE /\ AppendAccepts(i) /\ issued' = issued \cup {SignedLeaf(i)}
           /\ ledger' = ledger \cup {SignedRecord(i)}
  <2> DEFINE s == SignedRecord(i)
  <2>1. /\ s.slug = SlugOf[i] /\ s.version = im[i].version /\ s.rev = im[i].rev
        /\ s.signer = im[i].kid
    BY DEF SignedRecord
  <2>2. /\ Provisioned(store) /\ store.revision = im[i].rev
        /\ store.issuers[SlugOf[i]].active = im[i].version
    BY <1>4, <2>1 DEF AppendAccepts, validateLedgerAuthority
  <2>3. /\ im[i].kid = ActiveVersion(store, SlugOf[i]).kid
        /\ im[i].version # 0 /\ im[i].kid # 0
    BY <2>2, CurrentRevision DEF RInv, Records
  <2>4. SignedLeaf(i).current
    BY <2>2, <2>3, IssuanceConstants DEF SignedLeaf, HasIssuer, Known
  <2>5. ledger' = ledger \cup {s}
    BY <1>4
  <2>6. /\ s.version <= store.issuers[s.slug].active
        /\ s.rev <= store.revision
        /\ store.issuers[s.slug].active # 0
        /\ store.issuers[s.slug].versions[s.version].kid # 0
        /\ store.issuers[s.slug].versions[s.version].kid = s.signer
    <3>1. im[i].version \in Nat /\ im[i].rev \in Nat
      BY DEF RInv, SInv, TypesInv, IssuerManager
    <3> QED BY <2>1, <2>2, <2>3, <3>1 DEF ActiveVersion
  <2> HIDE DEF s
  <2> QED BY <1>1, <1>4, <2>2, <2>4, <2>5, <2>6
          DEF RInv, Records, LedgerValid, validateLedgerRecords, LedgerLeavesCurrent
<1> QED BY <1>2, <1>3, <1>4 DEF IssuerEffect, Returns

LEMMA InitRInv == Init => RInv
<1> SUFFICES ASSUME Init PROVE RInv
  OBVIOUS
<1>1. SInv /\ store = NoAuthority /\ ledger = {} /\ issued = {}
  BY InitSInv DEF Init, AuthInit
<1>2. store.id = 0
  BY <1>1 DEF NoAuthority
<1> QED BY <1>1, <1>2 DEF RInv, Records, LedgerValid, LedgerLeavesCurrent, Provisioned

LEMMA NextRInv ==
  ASSUME ~Reprovision
  PROVE  RInv /\ [Next]_vars => RInv'
<1> SUFFICES ASSUME RInv, [Next]_vars PROVE Records'
  BY NextSInv DEF RInv
<1>1. CASE AuthorityStep \/ UNCHANGED vars
  BY <1>1, AuthorityKeepsRecords DEF AuthorityStep, vars
<1>2. ASSUME NEW i \in Issuers, IssuerStep(i) PROVE Records'
  <2>1. PICK rec : IssuerEffect(i, rec)
    BY <1>2, IssuerEffects DEF RInv, SInv
  <2> QED BY <2>1, IssuerKeepsRecords
<1> QED BY <1>1, <1>2 DEF Next

\* A manager whose revision is the stored one holds the active key: comparing
\* revisions, as SignCSR and appendLedger do, is enough to notice stale
\* material while a purged store is not provisioned again.
THEOREM RevisionSuffices ==
  ASSUME ~Reprovision
  PROVE  Spec => []RevisionIdentifiesMaterial
<1>1. RInv => RevisionIdentifiesMaterial
  BY CurrentRevision DEF RInv, Records, RevisionIdentifiesMaterial
<1> QED BY <1>1, InitRInv, NextRInv, PTL DEF Spec

\* In Ledger mode no leaf is returned under a key that was already retired.
THEOREM RetiredKeysUnused ==
  ASSUME ~Reprovision
  PROVE  Spec => []LedgerLeavesCurrent
<1>1. RInv => LedgerLeavesCurrent
  BY DEF RInv, Records
<1> QED BY <1>1, InitRInv, NextRInv, PTL DEF Spec

\* The stored ledger always passes the check that every update and every
\* signing call makes first, so none of them is ever locked out.
THEOREM LedgerAlwaysValid ==
  ASSUME ~Reprovision
  PROVE  Spec => []LedgerValid
<1>1. RInv => LedgerValid
  BY DEF RInv, Records
<1> QED BY <1>1, InitRInv, NextRInv, PTL DEF Spec
=============================================================================
