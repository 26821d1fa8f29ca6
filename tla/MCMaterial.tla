----------------------------- MODULE MCMaterial -----------------------------
(***************************************************************************)
(* The life of certificates: the definitions and requests they are made    *)
(* from (Requests), options (Options), certificates and keys put together  *)
(* (Bundle), the files they are saved in (BundleFiles), and the controller *)
(* that renews an authority's in time (Rotation).  A behaviour is one of   *)
(* one part, and the variables of the others stay as they are.             *)
(***************************************************************************)
EXTENDS MCRequests, Bundle, BundleFiles

CONSTANTS
    Arguments, Unusable, MaxOptions,  \* see Options
    complete, partial, request,       \* savers
    i1, i2, m1                        \* issuers and the manager of a controller

-----------------------------------------------------------------------------
\* A small public key infrastructure with the relations that make chains
\* ambiguous.

CA(subject, issuer, key, by, usage) ==
    [subject |-> subject, issuer |-> issuer, key |-> key, by |-> by, ca |-> TRUE, usage |-> usage]

EndEntity(subject, issuer, key, by) ==
    [subject |-> subject, issuer |-> issuer, key |-> key, by |-> by, ca |-> FALSE, usage |-> "other"]

MCCert == <<
    CA("R", "R", "r", "r", "sign"),    \* 1 a root
    CA("I", "R", "i", "r", "sign"),    \* 2 its intermediate
    EndEntity("L", "I", "l", "i"),     \* 3 a leaf
    EndEntity("L", "I", "l", "i"),     \* 4 the same leaf renewed with its key
    EndEntity("M", "I", "m", "i"),     \* 5 another leaf
    CA("R", "R", "r", "r", "sign"),    \* 6 the root renewed with its key
    CA("R", "R", "s", "s", "sign"),    \* 7 a foreign root of the same name
    CA("I", "R", "i", "s", "sign"),    \* 8 the intermediate cross-signed by it
    CA("W", "R", "w", "r", "none"),    \* 9 an intermediate without key usage
    EndEntity("N", "W", "l", "w"),     \* 10 its leaf
    CA("X", "Y", "x", "y", "sign"),    \* 11 two CAs
    CA("Y", "X", "y", "x", "sign") >>  \* 12 that sign each other

MCKeyFiles == {[key |-> "l", pass |-> ""], [key |-> "l", pass |-> "p"],
               [key |-> "m", pass |-> "p"]}

Bundled(certs, end, intermediates, root, key, pass) ==
    [certs |-> certs, leaf |-> end, intermediates |-> intermediates, root |-> root,
     key |-> key, pass |-> pass]

\* A complete bundle with an encrypted key, one whose root is missing, and a
\* request.
MCHeld == [s \in {complete, partial, request} |->
    CASE s = complete -> Bundled(<<3, 2, 1>>, 3, <<2>>, 1, "l", "p")
      [] s = partial  -> Bundled(<<5, 2>>, 5, <<2>>, 0, "m", "")
      [] s = request  -> Bundled(<<>>, 0, <<>>, 0, "n", "p")]
MCRequesters == {request}

\* Two savers are at work: with the request one of the bundles, or both bundles.
MCEarlier == {{request}, {complete}}

-----------------------------------------------------------------------------
VARIABLES
    part,  \* "requests", "options", "bundle", "files" or "rotation"
    scope, options, parsed,                                               \* Options
    now, keys, persisted, ledger, unlocks, exported, am, before, turn, fresh  \* Rotation

Options == INSTANCE Options WITH given <- options

ASSUME Options!OptionsConstants

optionsVars == <<scope, options, parsed>>

\* A successor of an issuer fits whenever the root is not due if the root's
\* rotate-before is at least the issuers' validity and the clock skew, which is
\* 6 here; the package's defaults are the same 20 days for both, as 2 and 2 are.
Befores == [root: {2, 6, 7}, issuer: {2, 3}]

Rotation == INSTANCE Rotation WITH
    Slugs <- {i1, i2}, Managers <- {m1}, Configurations <- {{i1, i2}},
    IssuanceModes <- {"None", "Ledger"}, RotateBefores <- {1},
    RootValidity <- 12, IssuerValidity <- 5, MaximumLeafValidity <- 2, ClockSkew <- 1,
    SecretHandling <- FALSE, DiskFaults <- FALSE, Reprovision <- FALSE,
    MaxGeneration <- 4, MaxVersion <- 10, MaxKeys <- 20, MaxTime <- 16, MaxRevision <- 40,
    store <- persisted

ASSUME Rotation!BeforesAreNat /\ Rotation!InTime

rotationVars == <<now, keys, persisted, ledger, unlocks, exported, am, before, turn, fresh>>

MCInit ==
    /\ part \in {"requests", "options", "bundle", "files", "rotation"}
    /\ Init /\ Options!Init /\ BundleInit /\ FilesInit /\ Rotation!Init
    /\ part # "options" => scope = "Save"
    /\ part # "files" => job[request].at = "saved" /\ \A f \in Files : dir[f] = Absent
    /\ part # "rotation" => before = [root |-> 2, issuer |-> 2]

\* A leaf is issued or refused, or a list of options has ended.
Answered == answer # "none" /\ UNCHANGED vars
Parsed == (parsed.err \/ Len(options) = MaxOptions) /\ UNCHANGED optionsVars

MCNext ==
    /\ \/ /\ part = "requests" /\ (Next \/ Answered)
          /\ UNCHANGED <<optionsVars, bundleVars, filesVars, rotationVars>>
       \/ /\ part = "options" /\ (Options!Next \/ Parsed)
          /\ UNCHANGED <<vars, bundleVars, filesVars, rotationVars>>
       \/ /\ part = "bundle" /\ BundleNext
          /\ UNCHANGED <<vars, optionsVars, filesVars, rotationVars>>
       \/ /\ part = "files" /\ FilesNext
          /\ UNCHANGED <<vars, optionsVars, bundleVars, rotationVars>>
       \/ /\ part = "rotation" /\ Rotation!Next
          /\ UNCHANGED <<vars, optionsVars, bundleVars, filesVars>>
    /\ UNCHANGED part

\* The fairness of BundleFiles.
MCSpec ==
    /\ MCInit /\ [][MCNext]_<<part, vars, optionsVars, bundleVars, filesVars, rotationVars>>
    /\ \A s \in Savers :
         /\ WF_filesVars(part = "files" /\ (\/ SaveCheck(s) \/ SaveWrite(s)
                                            \/ SaveRecheck(s) \/ SaveRename(s)))
         /\ SF_filesVars(part = "files" /\ Begin(s, TRUE))

-----------------------------------------------------------------------------
\* Every variable of the five modules has its type; a stored authority is a
\* valid one.
TypesOK ==
    /\ TypeOK /\ BundleTypeOK /\ FilesTypeOK /\ Rotation!TypeOK
    /\ part = "options" => Options!TypeOK

\* Whatever the spelling of names: nothing outside the declared policy is
\* certified; the record of every leaf can be read again, and what passes the
\* policy is corrupt only for a URI of the options that X.509 does not give back
\* as it was; the package's own requests are honoured as they were made; and what
\* NewAuthorityManager accepts can be provisioned when the identity has no common
\* name.
PolicyExact ==
    WithinPolicy /\ RecordReadable /\ OwnRequestHonoured /\ ProvisionsAccepted

\* No option silently undoes another one of an accepted list, and whether
\* parseOptions accepts a list, and with which values, does not depend on the
\* order the caller wrote it in.
OptionsIndependent ==
    part = "options" => Options!NothingOverwritten /\ Options!OrderIrrelevant

\* Exactly the single lines of certificates make a bundle, in whatever order
\* they are given and added; the key fits the leaf, an encrypted key stays
\* encrypted, trusted roots have one order, and nothing is lost by an addition.
BundlesFit ==
    /\ [](AcceptsOneLine /\ BundleFits /\ EncryptionKept /\ TrustCanonical)
    /\ OnlyGrows

\* However savers overlap, fail and die: files are whole, a bundle that loads
\* has a key for its leaf, an undisturbed Save leaves all of its files, only
\* deaths leave temporary ones, and without WithReplace nothing is replaced that
\* was there when the new content was written.
FilesWhole ==
    /\ [](WholeFiles /\ LoadedFits /\ SavedWhole /\ NoLitter)
    /\ NoReplaceKeeps

\* Retrying with WithReplace succeeds in the end, wherever attempts stopped.
FilesRetrySucceeds == part = "files" => RetrySucceeds

\* With a controller that rotates roots early enough and misses no period, the
\* active root and every active issuer are valid at any time, and Ensure leaves
\* nothing that is due and not pending.
RotationInTime == []Rotation!NeverExpires /\ Rotation!DueIsStagedEarly
=============================================================================
