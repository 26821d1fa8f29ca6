------------------------------ MODULE Issuance ------------------------------
(***************************************************************************)
(* IssuerManagers (issuer.go) signing CSRs while AuthorityManagers rotate, *)
(* prune and purge the authority they sign for.                            *)
(*                                                                         *)
(* SignCSR reads the store several times and holds no store lock between   *)
(* the reads, so each read is a step.  appendLedger holds the authority    *)
(* lock shared and the ledger lock exclusively while it loads the state,   *)
(* checks the record and appends it (file_store.go), so it is one step.    *)
(* Policy checks of a request (subject, names, profile) refuse it before   *)
(* anything changes and are left out.                                      *)
(***************************************************************************)
EXTENDS Authority, FiniteSets

CONSTANTS
    Issuers,      \* IssuerManagers, in one or several processes
    SlugOf,       \* SlugOf[i]: the issuer that manager i signs for
    Serials,      \* serial numbers randomSerial may return
    MaxAttempts,  \* attempts of SignCSR's loop (8 in the code)
    MaxLeaves     \* bound: leaves issued

ASSUME IssuanceConstants ==
    /\ SlugOf \in [Issuers -> Slugs]
    /\ Serials \subseteq Nat
    /\ MaxAttempts \in Nat
    /\ MaxLeaves \in Nat

VARIABLES
    im,      \* the in-memory state of each IssuerManager
    issued   \* history: every leaf SignCSR has returned to a caller

issuerVars == <<im, issued>>
vars == <<authVars, issuerVars>>

Lifetimes == 1..MaximumLeafValidity

(***************************************************************************)
(* rev = 0: no manager, or a closed one.  The material read by reload is   *)
(* rev, version, kid (m.signer), parent and root (m.rootCert), notAfter    *)
(* and mode.                                                               *)
(* pc names the next step of SignCSR:                                      *)
(*   "reload"    the loaded revision was not the manager's                 *)
(*   "list"      validateLedger, against the state loaded first (snap)     *)
(*   "check"     the leaf's lifetime is compared with the issuer's         *)
(*   "attempt"   top of the loop: a serial is drawn and looked up          *)
(*   "append"    the leaf is signed and about to be recorded               *)
(*   "conflict"  appendLedger returned a ConflictError                     *)
(*   "reload2"   the revision had changed, reload and try again            *)
(***************************************************************************)
IssuerPCs == {"idle", "reload", "list", "check", "attempt", "append",
              "conflict", "reload2"}

IssuerManager == [pc: IssuerPCs, rev: Nat, version: 0..MaxVersion, kid: Nat,
                  parent: Nat, root: 0..MaxGeneration, notAfter: Nat,
                  mode: {"None", "Ledger"}, snap: authorityState, exp: Nat, serial: Nat, attempts: Nat]

NoManager == [pc |-> "idle", rev |-> 0, version |-> 0, kid |-> 0, parent |-> 0,
              root |-> 0, notAfter |-> 0, mode |-> "None",
              snap |-> NoAuthority, exp |-> 0, serial |-> 0, attempts |-> 0]

Leaf == [id: Nat, slug: Slugs, version: Versions, serial: Nat, exp: Nat,
         signer: Nat, root: Gens, parent: Nat, mode: {"None", "Ledger"},
         current: BOOLEAN]

Init ==
    /\ AuthInit
    /\ im = [i \in Issuers |-> NoManager]
    /\ issued = {}

\* Every variable has its type.
TypeOK ==
    /\ AuthTypeOK
    /\ im \in [Issuers -> IssuerManager]
    /\ issued \subseteq Leaf

-----------------------------------------------------------------------------
\* reload

\* The return from SignCSR, with or without a certificate.
Return(rec) == [rec EXCEPT !.pc = "idle", !.snap = NoAuthority, !.exp = 0,
                           !.serial = 0, !.attempts = 0]

HasIssuer(i) == Provisioned(store) /\ SlugOf[i] \in Known(store)

\* Mutant: a changed version is noticed, but the signer loaded first is kept.
reloadKeepsSigner(i, rec) ==
    LET v == ActiveVersion(store, SlugOf[i]) IN
    [rec EXCEPT !.rev = store.revision,
                !.version = store.issuers[SlugOf[i]].active,
                !.kid = IF @ = 0 THEN v.kid ELSE @,
                !.parent = v.parent, !.root = v.root, !.notAfter = v.notAfter,
                !.mode = store.mode]

\* What reload copies from the store into the manager.
reload(i, rec) ==
    LET v == ActiveVersion(store, SlugOf[i]) IN
    [rec EXCEPT !.rev = store.revision,
                !.version = store.issuers[SlugOf[i]].active,
                !.kid = v.kid, !.parent = v.parent, !.root = v.root,
                !.notAfter = v.notAfter, !.mode = store.mode]

NewIssuerManager(i) ==
    /\ im[i].rev = 0
    /\ HasIssuer(i)
    /\ im' = [im EXCEPT ![i] = reload(i, NoManager)]
    /\ UNCHANGED <<authVars, issued>>

Reload(i) ==
    /\ im[i].rev # 0
    /\ im[i].pc = "idle"
    /\ HasIssuer(i)
    /\ im' = [im EXCEPT ![i] = reload(i, @)]
    /\ UNCHANGED <<authVars, issued>>

\* Close, or the end of the process at any point of SignCSR.
Stop(i) ==
    /\ im[i].rev # 0
    /\ im' = [im EXCEPT ![i] = NoManager]
    /\ UNCHANGED <<authVars, issued>>

-----------------------------------------------------------------------------
\* SignCSR

\* In Ledger mode the state is loaded first; in None mode the manager signs
\* with whatever material it has.
SignStart(i) ==
    /\ im[i].rev # 0
    /\ im[i].pc = "idle"
    /\ Cardinality(issued) < MaxLeaves
    /\ \/ /\ im[i].mode = "None"
          /\ im' = [im EXCEPT ![i].pc = "check"]
       \/ /\ im[i].mode = "Ledger"
          /\ Provisioned(store)
          /\ im' = [im EXCEPT ![i].snap = store,
                              ![i].pc = IF store.revision # im[i].rev
                                        THEN "reload" ELSE "list"]
    /\ UNCHANGED <<authVars, issued>>

SignReload(i) ==
    /\ im[i].pc = "reload"
    /\ im' = [im EXCEPT ![i] = IF HasIssuer(i)
                               THEN [reload(i, @) EXCEPT !.pc = "list"]
                               ELSE Return(@)]
    /\ UNCHANGED <<authVars, issued>>

\* validateLedger: the ledger as it is now against the state loaded at the
\* start.  A purged ledger cannot be listed.
SignList(i) ==
    /\ im[i].pc = "list"
    /\ im' = [im EXCEPT ![i] =
                IF Provisioned(store) /\ validateLedgerRecords(im[i].snap, ledger)
                THEN [@ EXCEPT !.pc = "check", !.snap = NoAuthority]
                ELSE Return(@)]
    /\ UNCHANGED <<authVars, issued>>

LeafFits(exp, notAfter) == exp <= notAfter - ClockSkew

SignCheck(i) ==
    /\ im[i].pc = "check"
    /\ \E lifetime \in Lifetimes :
         im' = [im EXCEPT ![i] =
                  IF LeafFits(now + lifetime, im[i].notAfter)
                  THEN [@ EXCEPT !.pc = "attempt", !.exp = now + lifetime]
                  ELSE Return(@)]
    /\ UNCHANGED <<authVars, issued>>

SameSerial(r, i, serial) ==
    /\ r.slug = SlugOf[i]
    /\ r.version = im[i].version
    /\ r.serial = serial

\* lookupLedger: a serial that is already recorded costs an attempt.
Recorded(i, serial) ==
    im[i].mode = "Ledger" /\ \E r \in ledger : SameSerial(r, i, serial)

\* Mutant: a recorded serial is drawn again without using up an attempt.
SignAttemptUncounted(i) ==
    /\ im[i].pc = "attempt"
    /\ \/ /\ im[i].attempts = MaxAttempts
          /\ im' = [im EXCEPT ![i] = Return(@)]
       \/ /\ im[i].attempts < MaxAttempts
          /\ \E serial \in Serials :
               im' = [im EXCEPT ![i] =
                        IF Recorded(i, serial) THEN @
                        ELSE [@ EXCEPT !.pc = "append", !.serial = serial]]
    /\ UNCHANGED <<authVars, issued>>

SignAttempt(i) ==
    /\ im[i].pc = "attempt"
    /\ \/ /\ im[i].attempts = MaxAttempts
          /\ im' = [im EXCEPT ![i] = Return(@)]
       \/ /\ im[i].attempts < MaxAttempts
          /\ \E serial \in Serials :
               im' = [im EXCEPT ![i] =
                        IF Recorded(i, serial)
                        THEN [@ EXCEPT !.attempts = im[i].attempts + 1]
                        ELSE [@ EXCEPT !.pc = "append", !.serial = serial]]
    /\ UNCHANGED <<authVars, issued>>

\* The leaf manager i has signed.  "current" notes, for the properties only,
\* whether the signing key was the active one when the leaf was returned.
SignedLeaf(i) ==
    [id |-> store.id, slug |-> SlugOf[i], version |-> im[i].version,
     serial |-> im[i].serial, exp |-> im[i].exp, signer |-> im[i].kid,
     root |-> im[i].root, parent |-> im[i].parent, mode |-> im[i].mode,
     current |-> HasIssuer(i) /\ im[i].kid = ActiveVersion(store, SlugOf[i]).kid]

SignedRecord(i) ==
    [rev |-> im[i].rev, slug |-> SlugOf[i], version |-> im[i].version,
     serial |-> im[i].serial, exp |-> im[i].exp, signer |-> im[i].kid]

\* None mode: the leaf is returned and nothing is recorded.
SignUnrecorded(i) ==
    /\ im[i].pc = "append"
    /\ im[i].mode = "None"
    /\ issued' = issued \cup {SignedLeaf(i)}
    /\ im' = [im EXCEPT ![i] = Return(@)]
    /\ UNCHANGED authVars

\* Mutant: the append trusts the lookup made before the leaf was signed.
AppendAcceptsDuplicate(i) ==
    /\ Provisioned(store)
    /\ validateLedgerAuthority(store, SignedRecord(i))

\* appendLedger, with its checks under the locks.
AppendAccepts(i) ==
    /\ Provisioned(store)
    /\ validateLedgerAuthority(store, SignedRecord(i))
    /\ \A r \in ledger : ~SameSerial(r, i, im[i].serial)

SignAppend(i) ==
    /\ im[i].pc = "append"
    /\ im[i].mode = "Ledger"
    /\ AppendAccepts(i)
    /\ ledger' = ledger \cup {SignedRecord(i)}
    /\ issued' = issued \cup {SignedLeaf(i)}
    /\ im' = [im EXCEPT ![i] = Return(@)]
    /\ UNCHANGED <<now, keys, store, unlocks, exported, am>>

SignRefused(i) ==
    /\ im[i].pc = "append"
    /\ im[i].mode = "Ledger"
    /\ ~AppendAccepts(i)
    /\ im' = [im EXCEPT ![i] = IF Provisioned(store)
                               THEN [@ EXCEPT !.pc = "conflict"]
                               ELSE Return(@)]
    /\ UNCHANGED <<authVars, issued>>

\* After a conflict the state is loaded; only a changed revision makes the
\* manager reload.  Either way the attempt is used up.
SignConflict(i) ==
    /\ im[i].pc = "conflict"
    /\ im' = [im EXCEPT ![i] =
                IF ~Provisioned(store) THEN Return(@)
                ELSE IF store.revision # im[i].rev
                THEN [@ EXCEPT !.pc = "reload2"]
                ELSE [@ EXCEPT !.pc = "attempt", !.attempts = im[i].attempts + 1]]
    /\ UNCHANGED <<authVars, issued>>

\* The expiry fixed earlier must fit the reloaded issuer as well.
SignReloadAgain(i) ==
    /\ im[i].pc = "reload2"
    /\ im' = [im EXCEPT ![i] =
                IF HasIssuer(i) /\ LeafFits(im[i].exp, ActiveVersion(store, SlugOf[i]).notAfter)
                THEN [reload(i, @) EXCEPT !.pc = "attempt", !.attempts = im[i].attempts + 1]
                ELSE IF HasIssuer(i) THEN Return(reload(i, @))
                ELSE Return(@)]
    /\ UNCHANGED <<authVars, issued>>

\* The steps that follow SignStart until SignCSR returns.
SignContinue(i) ==
    \/ SignReload(i) \/ SignList(i) \/ SignCheck(i) \/ SignAttempt(i)
    \/ SignUnrecorded(i) \/ SignAppend(i) \/ SignRefused(i)
    \/ SignConflict(i) \/ SignReloadAgain(i)

IssuerStep(i) ==
    \/ NewIssuerManager(i) \/ Reload(i) \/ Stop(i)
    \/ SignStart(i) \/ SignContinue(i)

-----------------------------------------------------------------------------

AuthorityStep == AuthNext /\ UNCHANGED issuerVars

Next == AuthorityStep \/ \E i \in Issuers : IssuerStep(i)

Spec == Init /\ [][Next]_vars

\* A signing call that has started keeps running: the store's locks are held
\* for one bounded file operation each and are retried until they are free.
FairSpec == Spec /\ \A i \in Issuers : WF_vars(SignContinue(i))

-----------------------------------------------------------------------------
\* Properties

\* A leaf returned by SignCSR and signed by the key that was active then can
\* be verified until it expires, with the clock skew granted: its root stays
\* in the trust bundle, through later promotions, pruning and failed writes.
\* In Ledger mode the retired root's deadline comes from the ledger, in None
\* mode from the longest lifetime of a leaf.
TrustCoverage ==
    \A x \in issued :
        /\ x.id = store.id
        /\ x.current
        /\ now < x.exp + ClockSkew
        => /\ x.root \in buildTrustBundle(store, now)
           /\ store.roots[x.root].kid = x.parent

\* In Ledger mode a leaf is never returned under a key that was already
\* retired, although SignCSR signs with material it loaded earlier: the
\* append refuses every record of another revision.
LedgerLeavesCurrent ==
    \A x \in issued : x.mode = "Ledger" => x.current

\* In Ledger mode every leaf returned is on record, so revocation and the trust
\* deadline see it, and no serial is used twice for one issuer version although
\* managers look a serial up long before they record it.
LedgerComplete ==
    /\ \A x \in issued :
          x.mode = "Ledger" /\ x.id = store.id /\ Provisioned(store) =>
              \E r \in ledger : /\ r.slug = x.slug /\ r.version = x.version
                                /\ r.serial = x.serial /\ r.exp = x.exp
                                /\ r.signer = x.signer
    /\ \A r1, r2 \in ledger :
          r1.slug = r2.slug /\ r1.version = r2.version /\ r1.serial = r2.serial
            => r1 = r2

\* The revision is enough to notice stale material: a manager whose revision
\* is the stored one holds the active key of its issuer.
RevisionIdentifiesMaterial ==
    \A i \in Issuers :
        im[i].rev = store.revision /\ Provisioned(store) =>
            /\ im[i].version = store.issuers[SlugOf[i]].active
            /\ im[i].kid = ActiveVersion(store, SlugOf[i]).kid

\* The stored ledger always passes validateLedgerRecords against the stored
\* state; if it did not, every later update and signing call would fail.
LedgerValid ==
    Provisioned(store) /\ store.mode = "Ledger" =>
        validateLedgerRecords(store, ledger)

\* A signing call always returns, however often its serials collide and the
\* authority changes under it.
SignTerminates == \A i \in Issuers : im[i].pc # "idle" ~> im[i].pc = "idle"
=============================================================================
