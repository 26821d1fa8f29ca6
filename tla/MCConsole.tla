----------------------------- MODULE MCConsole ------------------------------
(***************************************************************************)
(* Programs for the printers of Console, and what KindOf and KindsOf find  *)
(* in its errors.                                                          *)
(***************************************************************************)
EXTENDS Console

CONSTANTS
    p, q  \* goroutines that print

\* Two goroutines that print several messages; one that derives printers and
\* handlers.
MCPrograms == {[goroutines |-> {p, q}, messages |-> 2, indent |-> 0],
               [goroutines |-> {p}, messages |-> 1, indent |-> 1]}

Errx == INSTANCE Errors WITH Kinds <- ErrorKinds

-----------------------------------------------------------------------------
\* The effective kind that KindOf finds is one of the nearest classifications,
\* and it finds one when they all agree, however errors are shared between
\* branches and whatever cycles there are; KindsOf returns every kind once.
ErrorKindsFound ==
    Errx!EffectiveIsNearest /\ Errx!UnanimityDecides /\ Errx!KindsComplete
=============================================================================
