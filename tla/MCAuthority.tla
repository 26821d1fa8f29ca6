---------------------------- MODULE MCAuthority -----------------------------
(***************************************************************************)
(* Small instances of Authority for TLC.                                   *)
(***************************************************************************)
EXTENDS Authority, TLC

CONSTANTS i1, m1, m2

\* A program without issuers, or one that wants all of them.
MCConfigurations == {{}, Slugs}
=============================================================================
