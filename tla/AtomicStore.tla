---------------------------- MODULE AtomicStore -----------------------------
(***************************************************************************)
(* What the managers expect of a store (the backend interface of           *)
(* store.go): an update reads the authority document and the ledger and    *)
(* replaces the document in one step, a record is appended in one step     *)
(* while the document is the one it was signed under, and a purge removes  *)
(* both in one step.  Authority and Issuance take these steps as theirs;   *)
(* FileStore is shown to implement them while nobody purges.               *)
(*                                                                         *)
(* A document is the authority's identity, its revision and the set of     *)
(* ledger records its last mutation was computed from: the deadline that   *)
(* PromotePending gives to a retired root is a function of that set.       *)
(***************************************************************************)
EXTENDS Integers

VARIABLES
    state,    \* the authority document
    records   \* the ledger

NoState == [id |-> 0, rev |-> 0, seen |-> {}]

Init == state = NoState /\ records = {}

\* backend.update on an empty store.
Provision(id) ==
    /\ state = NoState
    /\ state' = [id |-> id, rev |-> 1, seen |-> {}]
    /\ records' = {}

\* backend.update on an authority.
Update ==
    /\ state # NoState
    /\ state' = [state EXCEPT !.rev = @ + 1, !.seen = records]
    /\ UNCHANGED records

\* backend.appendLedger.
AppendLedger(r) ==
    /\ state # NoState
    /\ r.rev = state.rev
    /\ r \notin records
    /\ records' = records \cup {r}
    /\ UNCHANGED state

Purge ==
    /\ state # NoState
    /\ state' = NoState
    /\ records' = {}

Next ==
    \/ state = NoState /\ Provision(state'.id)
    \/ Update
    \/ \E r \in records' : AppendLedger(r)
    \/ Purge

Spec == Init /\ [][Next]_<<state, records>>
=============================================================================
