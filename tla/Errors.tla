------------------------------- MODULE Errors -------------------------------
(***************************************************************************)
(* The two walks over error trees, KindOf and KindsOf (inspect.go).        *)
(*                                                                         *)
(* Only pointers are remembered by markSeen, so the same value error may   *)
(* be visited twice and a pointer only once; a pointer to an error of a    *)
(* domain package may even be made to wrap itself.                         *)
(***************************************************************************)
EXTENDS ErrorTrees, SequencesExt

-----------------------------------------------------------------------------
\* Inspection

Classifies(e) == Valid(errs[e].kind) /\ errs[e].kind # "Unknown"

isSeen(e, seen) == errs[e].ptr /\ e \in seen

markSeen(e, seen) == IF errs[e].ptr THEN seen \cup {e} ELSE seen

Nothing(seen) == [kind |-> "Unknown", ok |-> FALSE, seen |-> seen]

\* A classified branch after classified ones: they must have the same kind.
agree(sofar, child) ==
    IF child.kind = sofar.kind THEN [sofar EXCEPT !.seen = child.seen]
                               ELSE Nothing(child.seen)

RECURSIVE kindOf(_, _)
RECURSIVE kindOfJoined(_, _)

\* Mutant: an error is marked as seen when a join looks at its branches.
kindOfMarked(e, seen) ==
    LET now == markSeen(e, seen) \cup {errs[e].children[i] : i \in DOMAIN errs[e].children}
    IN IF isSeen(e, seen) THEN Nothing(seen)
       ELSE IF Classifies(e) THEN [kind |-> errs[e].kind, ok |-> TRUE, seen |-> now]
       ELSE kindOfJoined(errs[e].children, Nothing(now))

\* Mutant: causes are asked before the error itself.
kindOfInner(e, seen) ==
    LET now == markSeen(e, seen)
        inner == kindOfJoined(errs[e].children, Nothing(now))
    IN IF isSeen(e, seen) THEN Nothing(seen)
       ELSE IF Classifies(e) /\ ~inner.ok
            THEN [kind |-> errs[e].kind, ok |-> TRUE, seen |-> now]
       ELSE inner

\* An unwrapped cause is a join of one branch: its result is passed on.
kindOf(e, seen) ==
    LET now == markSeen(e, seen)
    IN IF isSeen(e, seen) THEN Nothing(seen)
       ELSE IF Classifies(e) THEN [kind |-> errs[e].kind, ok |-> TRUE, seen |-> now]
       ELSE kindOfJoined(errs[e].children, Nothing(now))

\* The loop over the branches, which ends at the first disagreement.
kindOfJoined(rest, sofar) ==
    IF rest = <<>> THEN sofar
    ELSE LET child == kindOf(Head(rest), sofar.seen)
             next == IF ~child.ok THEN [sofar EXCEPT !.seen = child.seen]
                     ELSE IF ~sofar.ok THEN child
                     ELSE agree(sofar, child)
         IN IF child.ok /\ sofar.ok /\ ~next.ok THEN next
            ELSE kindOfJoined(Tail(rest), next)

KindOf(e) == LET r == kindOf(e, {}) IN [kind |-> r.kind, ok |-> r.ok]

RECURSIVE walk(_, _)

\* Mutant: a classified error hides its causes.
walkOuter(rest, w) ==
    IF rest = <<>> THEN w
    ELSE LET e == Head(rest)
             more == IF Classifies(e) THEN <<>> ELSE errs[e].children
         IN IF isSeen(e, w.seen) THEN walk(Tail(rest), w)
            ELSE walk(more \o Tail(rest),
                      [seen |-> markSeen(e, w.seen),
                       kinds |-> IF Classifies(e) /\ ~Contains(w.kinds, errs[e].kind)
                                 THEN Append(w.kinds, errs[e].kind) ELSE w.kinds])

\* The walk of KindsOf, depth first: rest is what is still to be visited.
walk(rest, w) ==
    IF rest = <<>> THEN w
    ELSE LET e == Head(rest)
         IN IF isSeen(e, w.seen) THEN walk(Tail(rest), w)
            ELSE walk(errs[e].children \o Tail(rest),
                      [seen |-> markSeen(e, w.seen),
                       kinds |-> IF Classifies(e) /\ ~Contains(w.kinds, errs[e].kind)
                                 THEN Append(w.kinds, errs[e].kind) ELSE w.kinds])

KindsOf(e) == walk(<<e>>, [seen |-> {}, kinds |-> <<>>]).kinds

-----------------------------------------------------------------------------
\* What the walks should find, without a notion of visiting order

RECURSIVE Beyond(_, _)

\* Everything reached from the errors in S, without going beyond those in stop.
Beyond(S, stop) ==
    LET more == S \cup UNION {Causes(e) : e \in S \ stop}
    IN IF more = S THEN S ELSE Beyond(more, stop)

Classified == {e \in Known : Classifies(e)}
KindsIn(S) == {errs[e].kind : e \in S \cap Classified}
NearestKinds(e) == KindsIn(Beyond({e}, Classified))
AllKinds(e) == KindsIn(Beyond({e}, {}))

\* An effective kind is one of the nearest classifications: KindOf never
\* reports a kind that an outer error has reclassified.
EffectiveIsNearest ==
    \A e \in Known : LET found == KindOf(e) IN found.ok => found.kind \in NearestKinds(e)

\* When all nearest classifications agree KindOf finds them, however errors
\* are shared between branches and whatever cycles there are (a visited error
\* counts as unclassified when it is met again, which must not hide a kind).
UnanimityDecides ==
    \A e \in Known :
        LET nearest == NearestKinds(e)
        IN \A k \in Kinds : nearest = {k} => KindOf(e) = [kind |-> k, ok |-> TRUE]

\* KindsOf returns every kind in the tree, each of them once, even where
\* KindOf ends early.
KindsComplete ==
    \A e \in Known : LET found == KindsOf(e)
                      IN ToSet(found) = AllKinds(e) /\ IsInjective(found)

\* What doc.go says of joined errors: "all classified branches must agree
\* before it has one effective kind".
\* (The code departs from this: "Departures observed" in the README.)
BranchesAgree ==
    \A e \in Known : KindOf(e).ok => NearestKinds(e) = {KindOf(e).kind}
=============================================================================
