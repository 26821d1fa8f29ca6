------------------------------ MODULE Rotation ------------------------------
(***************************************************************************)
(* A periodic authority controller as README.md describes it, over the     *)
(* Authority: in every period it calls Ensure, which provisions or stages  *)
(* what is due, and promotes what is pending, at once or, to distribute    *)
(* the new root first, in the period after.  No call fails for reasons     *)
(* outside the package and none is left out, so whatever goes wrong here   *)
(* is in what Ensure decides.  One process does all this and its issuers   *)
(* stay the ones it was first configured with.                             *)
(***************************************************************************)
EXTENDS Authority

CONSTANT
    Befores   \* pairs of the root's and the issuers' rotate-before

BeforesAreNat == Befores \subseteq [root: Nat \ {0}, issuer: Nat \ {0}]

\* A controller that works and whose periods are short enough: an issuer is valid
\* for four of them and renewed two before its end, and what has just been made
\* is not due.
InTime ==
    /\ ~DiskFaults
    /\ \A c, d \in Configurations : c = d
    /\ IssuerValidity >= 4
    /\ \A b \in Befores : b.issuer \in 2..IssuerValidity - 1 /\ b.root < RootValidity

VARIABLES
    before,  \* the pair this controller uses
    turn,    \* what the controller does next
    fresh    \* the pending transaction was staged in this period

controller == <<before, turn, fresh>>
vars == <<authVars, controller>>

IssuerBefore == [slug \in Slugs |-> before.issuer]

Init ==
    /\ AuthInit
    /\ before \in Befores
    /\ turn = "ensure"
    /\ fresh = FALSE

Due == \/ rootDue(store, before.root, now)
       \/ issuersDue(store, IssuerBefore, now) # {}

\* Ensure answers a ConflictError while something is pending.
EnsurePending(m) ==
    /\ Ready(m)
    /\ store.pending.kind # "none"
    /\ UNCHANGED authVars

\* Nothing to do: errNoMutation.
EnsureNothing(m) ==
    /\ EnsureReconciles(m)
    /\ ~Due
    /\ UNCHANGED authVars

\* makeIssuer refuses a successor that would outlive the active root, and with
\* it the whole call.
EnsureRefused(m) ==
    /\ Ready(m)
    /\ Provisioned(store)
    /\ store.pending.kind = "none"
    /\ ~rootDue(store, before.root, now)
    /\ issuersDue(store, IssuerBefore, now) # {}
    /\ ~IssuerFits(store.roots[store.activeRoot], now)
    /\ UNCHANGED authVars

\* Mutant: the successor of an issuer may outlive the root.
EnsureStageUnfit(m) ==
    \/ EnsureProvision(m)
    \/ EnsureStageRoot(m, before.root)
    \/ EnsurePending(m) \/ EnsureNothing(m)
    \/ /\ EnsureReconciles(m)
       /\ ~rootDue(store, before.root, now)
       /\ issuersDue(store, IssuerBefore, now) # {}
       /\ store' = Bump(prepareIssuers(store, issuersDue(store, IssuerBefore, now),
                                       keys + 1, now))
       /\ keys' = keys + 1
       /\ UNCHANGED <<now, ledger, unlocks, exported, am>>

\* Mutant: the loop over the issuers ends at the first that is due.
EnsureFirstDue(m) ==
    \/ EnsureProvision(m)
    \/ EnsureStageRoot(m, before.root)
    \/ EnsurePending(m) \/ EnsureNothing(m) \/ EnsureRefused(m)
    \/ /\ EnsureReconciles(m)
       /\ ~rootDue(store, before.root, now)
       /\ IssuerFits(store.roots[store.activeRoot], now)
       /\ \E slug \in issuersDue(store, IssuerBefore, now) :
            store' = Bump(prepareIssuers(store, {slug}, keys + 1, now))
       /\ keys' = keys + 1
       /\ UNCHANGED <<now, ledger, unlocks, exported, am>>

\* Mutant: the root is compared with the issuers' rotate-before.
EnsureOneBefore(m) ==
    \/ EnsureProvision(m)
    \/ EnsureStageRoot(m, before.issuer)
    \/ EnsureStageIssuers(m, before.issuer, IssuerBefore)
    \/ EnsurePending(m)
    \/ /\ EnsureReconciles(m)
       /\ ~rootDue(store, before.issuer, now)
       /\ issuersDue(store, IssuerBefore, now) = {}
             \/ ~IssuerFits(store.roots[store.activeRoot], now)
       /\ UNCHANGED authVars

\* One call of Ensure, with all its answers.
EnsureCall(m) ==
    \/ EnsureProvision(m)
    \/ EnsureStageRoot(m, before.root)
    \/ EnsureStageIssuers(m, before.root, IssuerBefore)
    \/ EnsurePending(m) \/ EnsureNothing(m) \/ EnsureRefused(m)

EnsureTurn(m) ==
    /\ turn = "ensure"
    /\ EnsureCall(m)
    /\ fresh' = (store.pending.kind = "none" /\ store'.pending.kind # "none")
    /\ turn' = "promote"
    /\ UNCHANGED before

\* PromotePending, whose last steps put the new secret away.
PromoteTurn(m) ==
    /\ turn = "promote"
    /\ \/ PromotePending(m)
       \/ PromoteReload(m) \/ PromoteReadUnlocks(m)
    /\ UNCHANGED controller

PeriodEnds(m) ==
    /\ turn = "promote"
    /\ Ready(m)
    /\ store.pending.kind # "none" => fresh
    /\ Tick
    /\ turn' = "ensure"
    /\ UNCHANGED <<before, fresh>>

\* The bound on time is reached.
Ended == now = MaxTime /\ turn = "promote" /\ UNCHANGED vars

Next ==
    \/ \E m \in Managers : EnsureTurn(m) \/ PromoteTurn(m) \/ PeriodEnds(m)
    \/ Ended

Spec == Init /\ [][Next]_vars

-----------------------------------------------------------------------------
\* Properties

\* Every variable has its type, and a stored authority is a valid one.
TypeOK ==
    /\ AuthTypeOK /\ ValidStore
    /\ before \in Befores
    /\ turn \in {"ensure", "promote"}
    /\ fresh \in BOOLEAN

\* README.md: "Ensure provisions missing material or stages due rotations."
\* After the call nothing is due any more that is not pending.
\* (The code departs from this: "Departures observed" in the README.)
DueIsStaged ==
    [][turn = "ensure" /\ turn' = "promote" =>
         Provisioned(store') /\ (store'.pending.kind # "none" \/ ~Due')]_vars

\* The root's rotate-before is at least the validity of an issuer and the skew.
RootsEarly == before.root >= IssuerValidity + ClockSkew

\* What DueIsStaged says, for controllers that rotate roots early enough.
DueIsStagedEarly ==
    [][turn = "ensure" /\ turn' = "promote" /\ RootsEarly =>
         Provisioned(store') /\ (store'.pending.kind # "none" \/ ~Due')]_vars

\* With such a controller, that misses no period, the active root and every
\* active issuer are valid at any time, so that leaves can be signed and
\* verified: successors are staged and promoted in time, one rotation after
\* the other, and the controller is never stuck.
NeverExpires ==
    Provisioned(store) /\ RootsEarly =>
        /\ now < store.roots[store.activeRoot].notAfter
        /\ \A slug \in Known(store) : now < ActiveVersion(store, slug).notAfter
=============================================================================
