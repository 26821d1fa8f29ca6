---------------------------- MODULE MCIssuance ------------------------------
(***************************************************************************)
(* Small instances of Issuance for TLC.                                    *)
(***************************************************************************)
EXTENDS Issuance, TLC

CONSTANTS i1, m1, m2, s1, s2

MCConfigurations == {Slugs}
MCSlugOf == [i \in Issuers |-> i1]
=============================================================================
