----------------------------- MODULE Authority ------------------------------
(***************************************************************************)
(* AuthorityManagers (authority.go, authority_operations.go) over one      *)
(* store.  store.update holds the store's lock from load to write, so the  *)
(* update of an operation is one step; what an operation does before or    *)
(* after its update (reading the state, reading and rewriting the local    *)
(* unlock file, which no lock protects) is a step of its own.  Operations  *)
(* of one manager exclude each other (m.mu) except PruneRoot, which does   *)
(* not take the mutex.  Managers of different processes interleave freely. *)
(*                                                                         *)
(* An operation that returns an error before it has changed anything is a  *)
(* stuttering step: its guard is simply false.                             *)
(***************************************************************************)
EXTENDS AuthorityState

CONSTANTS
    Managers,       \* AuthorityManagers, in one or several processes
    Configurations, \* sets of issuers programs may configure (WithIssuer)
    RotateBefores,  \* rotate-before values used by callers; 0 is "now"
    SecretHandling, \* TRUE if secrets leave their manager and managers stop;
                    \* FALSE: one long-lived process keeps what it generated
    DiskFaults,     \* TRUE if writeState and storeUnlocks may fail
    Reprovision,    \* TRUE if a purged store may be provisioned again
    MaxKeys,        \* bound: key-generating operations
    MaxTime,        \* bound: instants
    MaxRevision     \* bound: revisions (repeated pruning has no other limit)

ASSUME AuthorityConstants ==
    /\ Configurations \subseteq SUBSET Slugs
    /\ RotateBefores \subseteq Nat
    /\ SecretHandling \in BOOLEAN
    /\ DiskFaults \in BOOLEAN
    /\ Reprovision \in BOOLEAN
    /\ MaxKeys \in Nat
    /\ MaxTime \in Nat
    /\ MaxRevision \in Nat

VARIABLES
    now,       \* the wall clock
    keys,      \* number of key-generating operations so far
    store,     \* the persisted authorityState (ca.json)
    ledger,    \* the persisted issuance ledger, a set of LedgerRecord
    unlocks,   \* the local unlock file
    exported,  \* secrets an operator has exported and holds outside
    am         \* the in-memory state of each AuthorityManager

authVars == <<now, keys, store, ledger, unlocks, exported, am>>

\* A secret is the kid of the root key it opens; 0 is the empty secret.
SecretMap == [Gens -> Nat]
NoSecrets == [g \in Gens |-> 0]
NoUnlocks == [present |-> FALSE, secrets |-> NoSecrets]

(***************************************************************************)
(* pc names the next step of the operation that holds m.mu:                *)
(*   "promoted"   PromotePending, update done, state not yet reloaded      *)
(*   "promoted2"  state reloaded (gen: its active root)                    *)
(*   "discarded"  DiscardPending, update done (gen: the discarded root)    *)
(*   "storing"    StoreLocalUnlock, state loaded (gen and pend: the active *)
(*                and the pending root)                                    *)
(*   "rewrite"    an unlock map (values) is about to be written            *)
(*   "purging"    Purge, identity confirmed (secret: the fingerprint)      *)
(***************************************************************************)
ManagerPCs == {"idle", "promoted", "promoted2", "discarded", "storing",
               "rewrite", "purging"}

AuthorityManager == [pc: ManagerPCs, closed: BOOLEAN, configured: SUBSET Slugs,
                     generated: SecretMap, rootUnlock: Nat,
                     secret: Nat, gen: 0..MaxGeneration, pend: 0..MaxGeneration,
                     values: SecretMap, replace: BOOLEAN, after: {"", "forget"}]

\* NewAuthorityManager, with or without WithRootUnlock.
NewManager(u, configured) ==
    [pc |-> "idle", closed |-> FALSE, configured |-> configured,
     generated |-> NoSecrets, rootUnlock |-> u,
     secret |-> 0, gen |-> 0, pend |-> 0,
     values |-> NoSecrets, replace |-> FALSE, after |-> ""]

\* The manager between operations: locals of the last operation are gone.
Idle(rec) == [rec EXCEPT !.pc = "idle", !.secret = 0, !.gen = 0, !.pend = 0,
                         !.values = NoSecrets, !.replace = FALSE, !.after = ""]

AuthInit ==
    /\ now = 0
    /\ keys = 0
    /\ store = NoAuthority
    /\ ledger = {}
    /\ unlocks = NoUnlocks
    /\ exported = {}
    /\ am \in [Managers -> {NewManager(0, c) : c \in Configurations}]

AuthTypeOK ==
    /\ now \in Nat
    /\ keys \in Nat
    /\ store \in authorityState
    /\ ledger \subseteq LedgerRecord
    /\ unlocks \in [present: BOOLEAN, secrets: SecretMap]
    /\ exported \subseteq Nat
    /\ am \in [Managers -> AuthorityManager]

-----------------------------------------------------------------------------
\* store.update and the secrets

\* The outcomes of writeState: written; failed before the rename, so nothing
\* is persisted; renamed, but the directory sync failed, so the caller gets an
\* error for a change that is there.
WriteOutcomes == IF DiskFaults THEN {"ok", "lost", "unsynced"} ELSE {"ok"}

\* Mutant: only staging counts as a new revision.
PersistedStagingOnly(s, w) ==
    IF w = "lost" THEN store
    ELSE IF Provisioned(store) /\ s.pending.kind = "none" THEN s
    ELSE Bump(s)

Persisted(s, w) == IF w = "lost" THEN store ELSE Bump(s)

\* update validates the ledger against the state before it calls mutate.
LedgerReadable ==
    Provisioned(store) /\ store.mode = "Ledger" =>
        validateLedgerRecords(store, ledger)

Ready(m) == am[m].pc = "idle" /\ ~am[m].closed

CanUpdate == LedgerReadable /\ store.revision < MaxRevision

FileSecret(g) == IF unlocks.present THEN unlocks.secrets[g] ELSE 0

\* activeRootSigner: the generated secret first, then the configured one, then
\* the local unlock file; only the right secret opens the key.
activeRootSecret(m) ==
    LET g == store.activeRoot IN
    IF am[m].generated[g] # 0 THEN am[m].generated[g]
    ELSE IF am[m].rootUnlock # 0 THEN am[m].rootUnlock
    ELSE FileSecret(g)

activeRootSigner(m) == activeRootSecret(m) = store.roots[store.activeRoot].kid

\* The secret PromotePending uses: the option, the generated one, the file's.
pendingRootSecret(m, option) ==
    LET g == store.pending.root IN
    IF option # 0 THEN option
    ELSE IF am[m].generated[g] # 0 THEN am[m].generated[g]
    ELSE FileSecret(g)

\* PromotePending remembers the option or the generated secret, not the file's.
promotedSecret(m, option) ==
    IF ~PendingRoot(store) THEN 0
    ELSE IF option # 0 THEN option
    ELSE am[m].generated[store.pending.root]

-----------------------------------------------------------------------------
\* Ensure

\* An empty store: provision the first root and the configured issuers, in the
\* manager's issuance mode (assertSpec later refuses a manager set to another
\* one).  The secret is in the manager whether or not the write succeeds.
EnsureProvision(m) ==
    /\ Ready(m)
    /\ ~Provisioned(store)
    /\ keys < MaxKeys
    /\ keys = 0 \/ Reprovision
    /\ \E mode \in IssuanceModes, w \in WriteOutcomes :
         store' = Persisted(provision(keys + 1, now, am[m].configured, mode), w)
    /\ keys' = keys + 1
    /\ am' = [am EXCEPT ![m].generated[1] = keys + 1]
    /\ UNCHANGED <<now, ledger, unlocks, exported>>

\* The conditions Ensure checks on an existing authority, and the state after
\* the configured issuers that were missing have been added.
EnsureReconciles(m) ==
    /\ Ready(m)
    /\ CanUpdate
    /\ keys < MaxKeys
    /\ Provisioned(store)
    /\ store.pending.kind = "none"
    /\ activeRootSigner(m)
    /\ am[m].configured \subseteq Known(store)
         \/ IssuerFits(store.roots[store.activeRoot], now)

Reconciled(m) == addIssuers(store, am[m].configured, keys + 1, now)

\* What is staged in the same call has keys of its own.
StagingKey(m) == IF am[m].configured \subseteq Known(store) THEN keys + 1 ELSE keys + 2

\* The root is due, or the caller wants it rotated now.
EnsureStageRoot(m, before) ==
    /\ EnsureReconciles(m)
    /\ rootDue(store, before, now)
    /\ VersionsLeft(Reconciled(m), Known(Reconciled(m)))
    /\ \E g \in Gens :
         /\ FreeGeneration(store, g)
         /\ \E w \in WriteOutcomes :
              store' = Persisted(prepareRoot(Reconciled(m), g, StagingKey(m), now), w)
         /\ am' = [am EXCEPT ![m].generated[g] = StagingKey(m)]
    /\ keys' = StagingKey(m)
    /\ UNCHANGED <<now, ledger, unlocks, exported>>

\* The root is not due; stage the issuers that are.  makeIssuer refuses when a
\* new issuer would outlive the active root.
EnsureStageIssuers(m, before, issuerBefore) ==
    /\ EnsureReconciles(m)
    /\ ~rootDue(store, before, now)
    /\ LET s == Reconciled(m)
           due == issuersDue(s, issuerBefore, now)
       IN /\ due # {}
          /\ VersionsLeft(s, due)
          /\ IssuerFits(store.roots[store.activeRoot], now)
          /\ \E w \in WriteOutcomes :
               store' = Persisted(prepareIssuers(s, due, StagingKey(m), now), w)
    /\ keys' = StagingKey(m)
    /\ UNCHANGED <<now, ledger, unlocks, exported, am>>

\* Nothing is due but a configured issuer was missing.
EnsureAddIssuers(m, before, issuerBefore) ==
    /\ EnsureReconciles(m)
    /\ ~rootDue(store, before, now)
    /\ issuersDue(Reconciled(m), issuerBefore, now) = {}
    /\ ~(am[m].configured \subseteq Known(store))
    /\ \E w \in WriteOutcomes : store' = Persisted(Reconciled(m), w)
    /\ keys' = keys + 1
    /\ UNCHANGED <<now, ledger, unlocks, exported, am>>

Ensure(m) ==
    \/ EnsureProvision(m)
    \/ \E before \in RotateBefores :
         \/ EnsureStageRoot(m, before)
         \/ \E issuerBefore \in [Slugs -> RotateBefores] :
              \/ EnsureStageIssuers(m, before, issuerBefore)
              \/ EnsureAddIssuers(m, before, issuerBefore)

-----------------------------------------------------------------------------
\* PromotePending

\* The update.  When writeState reports an error the operation ends here.
PromotePending(m) ==
    /\ Ready(m)
    /\ CanUpdate
    /\ Provisioned(store)
    /\ store.pending.kind # "none"
    /\ \E option \in exported \cup {0} :
         /\ PendingRoot(store) =>
              pendingRootSecret(m, option) = store.roots[store.pending.root].kid
         /\ \E w \in WriteOutcomes :
              /\ \E d \in 0..MaxTime + MaximumLeafValidity + ClockSkew :
                   /\ IsTrustDeadline(store, ledger, now, d)
                   /\ store' = Persisted(promote(store, d), w)
              /\ am' = IF w = "ok"
                       THEN [am EXCEPT ![m].pc = "promoted",
                                       ![m].secret = promotedSecret(m, option)]
                       ELSE am
    /\ UNCHANGED <<now, keys, ledger, unlocks, exported>>

\* After the update the state is loaded again; another manager may have
\* promoted a further root, or purged the authority, in between.
PromoteReload(m) ==
    /\ am[m].pc = "promoted"
    /\ am' = [am EXCEPT ![m] =
                IF Provisioned(store)
                THEN [@ EXCEPT !.pc = "promoted2", !.gen = store.activeRoot]
                ELSE Idle(@)]
    /\ UNCHANGED <<now, keys, store, ledger, unlocks, exported>>

\* Mutant: the condition is the wrong way round.
ForgetPromoted(rec, g) ==
    [rec EXCEPT !.generated = [h \in Gens |-> IF h # g THEN rec.generated[h] ELSE 0]]

\* Forget every generated secret but the one of generation g.
Forget(rec, g) ==
    [rec EXCEPT !.generated = [h \in Gens |-> IF h = g THEN rec.generated[h] ELSE 0]]

\* The secret to keep for the active root: the promoted one before the
\* generated one before what the file has.
KeptSecret(m) ==
    IF am[m].secret # 0 THEN am[m].secret
    ELSE IF am[m].generated[am[m].gen] # 0 THEN am[m].generated[am[m].gen]
    ELSE FileSecret(am[m].gen)

PromoteReadUnlocks(m) ==
    /\ am[m].pc = "promoted2"
    /\ am' = [am EXCEPT ![m] =
                IF unlocks.present /\ KeptSecret(m) # 0
                THEN [@ EXCEPT !.pc = "rewrite", !.replace = TRUE,
                               !.after = "forget",
                               !.values = [NoSecrets EXCEPT ![am[m].gen] = KeptSecret(m)]]
                ELSE Idle(Forget(@, am[m].gen))]
    /\ UNCHANGED <<now, keys, store, ledger, unlocks, exported>>

-----------------------------------------------------------------------------
\* DiscardPending

DiscardPending(m) ==
    /\ Ready(m)
    /\ CanUpdate
    /\ Provisioned(store)
    /\ store.pending.kind # "none"
    /\ \E w \in WriteOutcomes :
         /\ store' = Persisted(discard(store), w)
         /\ am' = IF w = "ok"
                  THEN [am EXCEPT ![m].pc = "discarded",
                                  ![m].gen = store.pending.root,
                                  ![m].generated =
                                      [g \in Gens |-> IF g = store.pending.root THEN 0
                                                      ELSE am[m].generated[g]]]
                  ELSE am
    /\ UNCHANGED <<now, keys, ledger, unlocks, exported>>

\* Mutant: the file is emptied instead of losing the discarded root's entry.
DiscardEmptiesUnlocks(m) ==
    /\ am[m].pc = "discarded"
    /\ am' = [am EXCEPT ![m] =
                IF unlocks.present
                THEN [@ EXCEPT !.pc = "rewrite", !.replace = TRUE, !.values = NoSecrets]
                ELSE Idle(@)]
    /\ UNCHANGED <<now, keys, store, ledger, unlocks, exported>>

DiscardReadUnlocks(m) ==
    /\ am[m].pc = "discarded"
    /\ am' = [am EXCEPT ![m] =
                IF unlocks.present
                THEN [@ EXCEPT !.pc = "rewrite", !.replace = TRUE,
                               !.values = [g \in Gens |-> IF g = am[m].gen THEN 0
                                                          ELSE unlocks.secrets[g]]]
                ELSE Idle(@)]
    /\ UNCHANGED <<now, keys, store, ledger, unlocks, exported>>

-----------------------------------------------------------------------------
\* StoreLocalUnlock and ExportGeneratedUnlock

StoreLocalUnlock(m) ==
    /\ SecretHandling
    /\ Ready(m)
    /\ Provisioned(store)
    /\ \E replace \in BOOLEAN :
         am' = [am EXCEPT ![m].pc = "storing",
                          ![m].gen = store.activeRoot,
                          ![m].pend = store.pending.root,
                          ![m].replace = replace]
    /\ UNCHANGED <<now, keys, store, ledger, unlocks, exported>>

Required(m) == {am[m].gen, am[m].pend} \ {0}

\* The map StoreLocalUnlock writes: generated secrets over the file's entries,
\* and the configured secret for the active root when there is no other.
StoredValues(m) ==
    [g \in Gens |->
        IF g \in Required(m) /\ am[m].generated[g] # 0 THEN am[m].generated[g]
        ELSE IF FileSecret(g) = 0 /\ g = am[m].gen THEN am[m].rootUnlock
        ELSE FileSecret(g)]

StoreReadUnlocks(m) ==
    /\ am[m].pc = "storing"
    /\ am' = [am EXCEPT ![m] =
                IF \A g \in Required(m) : StoredValues(m)[g] # 0
                THEN [@ EXCEPT !.pc = "rewrite", !.values = StoredValues(m)]
                ELSE Idle(@)]
    /\ UNCHANGED <<now, keys, store, ledger, unlocks, exported>>

\* storeUnlocks, the last step of all three operations.  It fails when the file
\* is there and may not be replaced, or when the disk does; PromotePending then
\* returns before it has forgotten the other generated secrets.
StoreUnlocks(m) ==
    /\ am[m].pc = "rewrite"
    /\ \/ /\ am[m].replace \/ ~unlocks.present
          /\ unlocks' = [present |-> TRUE, secrets |-> am[m].values]
          /\ am' = [am EXCEPT ![m] = Idle(IF am[m].after = "forget"
                                          THEN Forget(@, am[m].gen) ELSE @)]
       \/ /\ DiskFaults \/ (~am[m].replace /\ unlocks.present)
          /\ am' = [am EXCEPT ![m] = Idle(@)]
          /\ UNCHANGED unlocks
    /\ UNCHANGED <<now, keys, store, ledger, exported>>

\* The pending root's generated secret if there is a pending root, else the
\* active root's.
ExportGeneratedUnlock(m) ==
    /\ SecretHandling
    /\ Ready(m)
    /\ Provisioned(store)
    /\ LET g == IF PendingRoot(store) THEN store.pending.root ELSE store.activeRoot
       IN /\ am[m].generated[g] # 0
          /\ exported' = exported \cup {am[m].generated[g]}
    /\ UNCHANGED <<now, keys, store, ledger, unlocks, am>>

-----------------------------------------------------------------------------
\* PruneRoot (no mutex, not even after Close), Purge, Close, restart, time

PruneRoot(m) ==
    /\ CanUpdate
    /\ Provisioned(store)
    /\ \E g \in Gens :
         /\ Prunable(store, g, now)
         /\ \E w \in WriteOutcomes : store' = Persisted(prune(store, g), w)
    /\ UNCHANGED <<now, keys, ledger, unlocks, exported, am>>

\* Purge compares the expected ID and fingerprint with the state it loads; it
\* does not ask whether the manager is closed.
Purge(m) ==
    /\ am[m].pc = "idle"
    /\ Provisioned(store)
    /\ am' = [am EXCEPT ![m].pc = "purging",
                        ![m].secret = store.roots[store.activeRoot].kid]
    /\ UNCHANGED <<now, keys, store, ledger, unlocks, exported>>

\* store.purge takes the lock and removes whatever is there by then.
PurgeStore(m) ==
    /\ am[m].pc = "purging"
    /\ store' = NoAuthority
    /\ ledger' = {}
    /\ unlocks' = NoUnlocks
    /\ am' = [am EXCEPT ![m] = [Idle(@) EXCEPT !.generated = NoSecrets,
                                               !.closed = TRUE]]
    /\ UNCHANGED <<now, keys, exported>>

Close(m) ==
    /\ SecretHandling
    /\ Ready(m)
    /\ am' = [am EXCEPT ![m].generated = NoSecrets,
                        ![m].rootUnlock = 0,
                        ![m].closed = TRUE]
    /\ UNCHANGED <<now, keys, store, ledger, unlocks, exported>>

\* The process dies at any point of an operation, or is stopped, and a new
\* manager is made, possibly with a secret that had been exported and by a
\* program that configures other issuers.
Restart(m) ==
    /\ SecretHandling
    /\ \E u \in exported \cup {0}, c \in Configurations :
         am' = [am EXCEPT ![m] = NewManager(u, c)]
    /\ UNCHANGED <<now, keys, store, ledger, unlocks, exported>>

Tick ==
    /\ now < MaxTime
    /\ now' = now + 1
    /\ UNCHANGED <<keys, store, ledger, unlocks, exported, am>>

ManagerStep(m) ==
    \/ Ensure(m)
    \/ PromotePending(m) \/ PromoteReload(m) \/ PromoteReadUnlocks(m)
    \/ DiscardPending(m) \/ DiscardReadUnlocks(m)
    \/ StoreLocalUnlock(m) \/ StoreReadUnlocks(m) \/ StoreUnlocks(m)
    \/ ExportGeneratedUnlock(m)
    \/ PruneRoot(m)
    \/ Purge(m) \/ PurgeStore(m)
    \/ Close(m)
    \/ Restart(m)

AuthNext == Tick \/ \E m \in Managers : ManagerStep(m)

AuthSpec == AuthInit /\ [][AuthNext]_authVars

-----------------------------------------------------------------------------
\* Properties

\* Every state an operation persists passes validateState, in whatever order
\* the managers' operations, restarts and failed writes fall: private keys
\* exist exactly for active and pending material, every issuer version is
\* signed by a root that is kept, active issuers are under the active root and
\* a pending root has a successor for every issuer.  (A state that fails the
\* check can never be loaded again, so the check before the write in
\* store.update is left out of the model: it never refuses a mutation.)
ValidStore == Provisioned(store) => validateState(store)

\* A root becomes active only after it was in the trust bundle as the pending
\* root, so that callers could distribute it first (doc.go), unless the store
\* was empty.
PublishedBeforeActive ==
    [][Provisioned(store) /\ Provisioned(store') =>
         \E g \in buildTrustBundle(store, now) :
            store.roots[g].kid = store'.roots[store'.activeRoot].kid]_store

\* Roots whose private key the store still has: active or pending.
LiveRoot(s, k) == \E g \in Gens : s.roots[g].key /\ s.roots[g].kid = k

\* A generated secret of a root that is still active or pending stays in its
\* manager until Close, Purge or the end of the process (README: "A generated
\* unlock secret stays in its manager until ..."), whatever other managers do.
GeneratedSecretStays ==
    [][\A m \in Managers : \A g \in Gens :
         LET k == am[m].generated[g] IN
         k # 0 /\ LiveRoot(store', k) =>
            \/ am'[m].generated[g] = k
            \/ am'[m].closed
            \/ am'[m] = NewManager(am'[m].rootUnlock, am'[m].configured)]_<<am, store>>

\* A right secret in the local unlock file for a root that stays active or
\* pending is not removed or overwritten by any operation.
StoredSecretStays ==
    [][\A g \in Gens :
         /\ unlocks.present
         /\ store.roots[g].key
         /\ unlocks.secrets[g] = store.roots[g].kid
         /\ store'.roots[g] = store.roots[g]
         => unlocks'.present /\ unlocks'.secrets[g] = unlocks.secrets[g]]_<<unlocks, store>>

\* Neither in memory nor in the file is the secret of a root in use lost.
SecretsStay == GeneratedSecretStays /\ StoredSecretStays

\* The same for the active root only: losing this secret means that the
\* authority can never again rotate anything.
ActiveSecretStays ==
    [][LET g == store.activeRoot IN
         /\ Provisioned(store)
         /\ unlocks.present
         /\ unlocks.secrets[g] = store.roots[g].kid
         /\ Provisioned(store')
         /\ store'.activeRoot = g
         => unlocks'.present /\ unlocks'.secrets[g] = unlocks.secrets[g]]_<<unlocks, store>>
=============================================================================
