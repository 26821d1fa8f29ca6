----------------------------- MODULE ErrorTrees -----------------------------
(***************************************************************************)
(* The error trees of the errx package: how they are made.  Errors has the *)
(* walks over them.                                                        *)
(*                                                                         *)
(* An error is a number, and errs holds what it is made of: the kind it    *)
(* reports, the errors Unwrap returns, whether it is a join, and whether   *)
(* it is a pointer.                                                        *)
(***************************************************************************)
EXTENDS Naturals, Sequences

CONSTANTS
    Kinds,      \* declared kinds other than Unknown
    DomainKinds,\* what error types of domain packages report
    MaxErrors,  \* bound: errors in existence
    MaxJoined   \* bound: errors joined by one join

ErrorConstants ==
    /\ {"Unknown", "undeclared"} \cap Kinds = {}
    /\ DomainKinds \subseteq Kinds \cup {"Unknown", "undeclared"}
    /\ MaxErrors \in Nat
    /\ MaxJoined \in Nat

VARIABLE errs

Known == 1..Len(errs)

-----------------------------------------------------------------------------
\* Construction

Classes == {"errx", "domain", "join"}

\* Mutant: a missing cause is unwrapped too.
UnwrappedNil(cause) == <<cause>>

Unwrapped(cause) == IF cause = 0 THEN <<>> ELSE <<cause>>

\* errx.New: kinds are declared ones, WithoutUnwrap hides the cause.
New(kind, cause, unwrap) ==
    /\ Len(errs) < MaxErrors
    /\ errs' = Append(errs, [class |-> "errx", kind |-> kind, ptr |-> TRUE,
                             children |-> IF unwrap THEN Unwrapped(cause) ELSE <<>>])

\* An error type of a domain package, by pointer or by value.
Domain(kind, cause, ptr) ==
    /\ Len(errs) < MaxErrors
    /\ errs' = Append(errs, [class |-> "domain", kind |-> kind, ptr |-> ptr,
                             children |-> Unwrapped(cause)])

\* errors.Join: a pointer without a kind of its own.
Join(children) ==
    /\ Len(errs) < MaxErrors
    /\ errs' = Append(errs, [class |-> "join", kind |-> "Unknown", ptr |-> TRUE,
                             children |-> children])

\* The cause of a pointer error is replaced, which may close a cycle.
Retarget(e, cause) ==
    /\ errs[e].class = "domain" /\ errs[e].ptr
    /\ errs' = [errs EXCEPT ![e].children = <<cause>>]

Init == errs = <<>>

Next ==
    \/ \E kind \in Kinds \cup {"Unknown"}, cause \in {0} \cup Known, u \in BOOLEAN :
           New(kind, cause, u)
    \/ \E kind \in DomainKinds, cause \in {0} \cup Known, ptr \in BOOLEAN :
           Domain(kind, cause, ptr)
    \/ \E n \in 1..MaxJoined : \E children \in [1..n -> Known] : Join(children)
    \/ \E e \in Known, cause \in Known : Retarget(e, cause)

Spec == Init /\ [][Next]_errs

-----------------------------------------------------------------------------
Valid(kind) == kind \in Kinds \cup {"Unknown"}

Causes(e) == {errs[e].children[i] : i \in DOMAIN errs[e].children}

\* Errors are made of errors that exist.
TypeOK ==
    \A e \in Known : /\ errs[e].class \in Classes
                     /\ Valid(errs[e].kind) \/ errs[e].class = "domain"
                     /\ errs[e].ptr \in BOOLEAN
                     /\ Causes(e) \subseteq Known
=============================================================================
