# Verification of compage-go

TLA+ models, TLC runs and TLAPS proofs for compage-go: `certs`, `service`,
`account`, `config`, `console` and `errx`. `PROJECT.json` maps every definition
to the lines it models and lists runs, findings, hazards and theorems.

## The system

compage-go is a library for programs that run as services: they keep a
configuration, manage a local certificate authority, install themselves as an
operating-system service under an account of their own, and talk to an operator
through a logger and a printer.

| component | state it keeps | operations | who else touches the state |
|---|---|---|---|
| certs `AuthorityManager` | the authority record in the store; local unlock file; generated secrets and `rootUnlock` in memory | `Ensure`, `PromotePending`, `DiscardPending`, `PruneRoot`, `Purge`, `StoreLocalUnlock`, `ExportGeneratedUnlock`, `Close` | managers of other processes, issuers |
| certs `IssuerManager` | signing material copied from the record, its revision | `NewIssuerManager`, `Reload`, `SignCSR`, `Close` | authority managers change what it copied |
| certs `FileStore` | `ca.json`, `ca.lock`, `localunlock`, `ledger/` | `load`, `update`, `purge`, `appendLedger`, `lookupLedger`, `listLedger` | every process that opened the directory |
| certs `SQLiteStore` | authority database (document and tables), ledger database and its directory | the same, and `NewSQLiteStore`, `Close` | every process that opened the database |
| certs bundles | certificates, key and passphrase in memory; `certificates.pem`, `chain.pem`, `fullchain.pem`, `key.pem`, `request.pem` | `LoadBundle`, `AddCert`, `AddKey`, `AddTrust`, `Save` | other savers and readers of the directory |
| certs requests and options | issuer definitions, requests, policy; the values of an option list | `NewAuthorityManager`, `NewCSR`, `SignCSR`, `parseOptions` | the client that wrote the request; later readers of the ledger |
| `service` | definition file, managed directories, what systemd or launchd has read and runs | `Ensure`, `Start`, `Restart`, `Stop`, `Uninstall`, `Purge` | the service manager |
| `account` | group, account, home, on Linux and on macOS | `Ensure` (`Check` and `Lookup` only read) | other callers, administrators |
| `config` | schema, layers, snapshot, the file, a buffer of log records | `New`, `Load`, `Set`, `Save`, `FlushLogs` | goroutines of the program, whoever edits the file |
| `console` logger | queued records, derived loggers, one level, sinks | `PreLogger`, `New`, `Flush`, `With`, `For`, `SetLevel`, logging | derived loggers share the level; a sink may break |
| `console` printer | streams, level, one write lock | printing, tables, `WithIndent`, the slog handler with its hints | goroutines that share it |
| `errx` | graphs of wrapped and joined errors | constructors, `KindOf`, `KindsOf` | error types of other packages |

Managers call the store through the `backend` interface (`store.go`): a mutation
runs inside `update`, which loads, checks, mutates, validates and writes under
one lock. Issuers read the record without a lock and append to the ledger under
a lock that excludes updates. `service.Ensure` calls `account.Ensure` first and
then reconciles directories and the definition.

What is hard here: managers of several processes over one store, with no lock
around the unlock file; signing that reads the store several times and must
notice that the authority has changed; a process that dies between two file
operations; two databases without a common transaction; external commands that
fail half way while the caller retries; values and names that several layers
rewrite by rules of their own; buffers and locks shared by goroutines. The
hazards in `PROJECT.json` name the lines.

What makes each part correct:

* authority: what is persisted can be loaded again; a root is published before
  it signs; secrets still needed are not lost; a purge removes what was
  confirmed; what is due is renewed before it expires.
* issuance: every leaf can be verified for as long as it is valid; every leaf is
  on record, none twice; none is signed by retired material; signing ends.
* requests: nothing outside the policy is certified; what one function accepts
  the next one does not refuse; every record can be read again.
* bundles: acceptance does not depend on the order of the material; files on
  disk are whole; a failed save can be repeated.
* stores: updates and appends look atomic; damage stops at the damage;
  provisioning can be repeated.
* service: a successful operation means what it says, whatever failed before.
* account: retrying converges; results tell the truth; `Verify` changes nothing.
* config: snapshots are valid; set values stay; what is saved reads back exactly
  or is refused; no key is ambiguous or ignored; no diagnostics vanish uncounted.
* console, errx: records and messages arrive whole, once, in order and where
  they belong; the effective kind of an error does not depend on its shape.

## Modules

**`AuthorityState`** is the persisted record and the pure functions on it:
`provision`, `prepareRoot`, `prepareIssuers`, `promote`, `discard`, `prune`, the
checks of `validate.go` and the trust bundle. A certificate or key is the number
of the operation that made it, a signature is the number of the signing key, an
instant is a natural number. Nil map entries are records with number 0.

**`Authority`** has one variable for each piece of persisted state (`store`,
`ledger`, `unlocks`), the secrets an operator holds (`exported`), the clock and
the managers (`am`). An update is one step, because the store holds its lock
from load to write; what an operation reads before or does afterwards (reload,
read and rewrite the unlock file, purge after the comparison) is a step of its
own, so other managers come in between. Writes fail before or after the rename
(`WriteOutcomes`), and managers stop and start.

**`Issuance`** adds the issuer managers. `SignCSR` is cut where it reads the
store: load, reload, list and validate the ledger, check, draw a serial and look
it up, append, and the paths after a conflict. `issued` is a history variable
for properties about leaves in the field.

**`AtomicStore`** is what the managers expect of a store: provision, update,
append and purge in one step each. **`FileStore`** is the detailed one: opening
and locking `ca.lock` (an inode, which may lose its name), the steps of an
update, the ledger that is made and then given its mode, the steps of an append
with a line that is unfinished while it is written, the steps of a purge, and
the death of a process anywhere. `AtomicSpec` (`INSTANCE AtomicStore`, with the
ledger of an empty store mapped to the empty set) is checked as a property. It
is what entitles `Authority` and `Issuance` to take updates and appends as
single steps.

**`SQLiteStore`** has the transactions of `sqlite_store.go` over SQLite's locks:
SHARED from the first read, RESERVED from the first write, a commit only without
other readers, SQLITE_BUSY otherwise. SQLite itself is external and modelled by
these rules.

**`Rotation`** is a controller over `Authority` that calls `Ensure` and
`PromotePending` in every period, through more than one root lifetime. Its
subject is what `Ensure` decides about due material; nothing else fails. `InTime`
names the periods under which the controller comes in time.

**`Requests`** follows a name through the places that normalise it: the issuer
definition, `NewCSR`, the request as `SignCSR` parses it, its options, the
certificate (X.509) and the ledger record (JSON). A DNS name is a sequence of
labels with its case, trailing dot and surrounding space, an address a network
and a host in 4 or 16 bytes, a URI a sequence of chunks of which the first is its
scheme, with its case: each function keeps the control it has over such names.
What X.509 and JSON read back is external: URIs with their scheme in lower case,
or none at all when a host does not fit. **`Options`** is `parseOptions`: the fold over a
list of options with its four ways to refuse.

**`CertChain`** has the pure functions `normalizeBundle` and
`normalizeTrustCertificates` over certificates that are numbers with the fields
the code looks at. **`Bundle`** grows bundles with them, **`BundleFiles`** saves
and loads them file by file with `atomicSave`'s steps (look, write a temporary
file, look again, rename). A write that fails removes its temporary file, a
process that dies leaves it; `deaths` counts the second.

**`SQLiteFiles`** is the SQLite store as files: what `NewSQLiteStore`, the first
update, `purge` and `Close` make, check, give a mode and remove, step by step.
Files just made are "raw" until their mode is set. A transaction is one step
here, and is taken apart in `SQLiteStore`.

**`Service`** models both platforms. A definition is the number of the
specification it was rendered from. systemd and launchd are external: systemd
reads definitions on daemon-reload, enable and disable and runs what it read
last; launchd reads on bootstrap and forgets on bootout. Commands may fail, and
queries of what is enabled or loaded may fail on their own. Directories are paths
(sequences), so that nesting and sharing come from the code's own rules.

**`Account`** models the Linux backend. An account is described by which
attributes agree with the specification. The shadow-utils commands are external;
they may fail with their work done or not. A lookup may fail too, and like the
code the model then takes the account to be absent. Callers run as root and retry
after errors; administrators change things between calls.

**`AccountDarwin`** models the macOS backend. A record has UID, GID and
attributes that separate commands set; each command may fail with or without its
effect; identifiers are listed before they are taken; `os/user` (external) may
or may not find a record that is half made, and may fail for one that is whole.

**`Config`** resolves fields from the layers default, initial, file, env, flag
and set. A value is abstract; those in `Invalid` do not convert or fail a
validator, and `Allowed` is the cross-field rule. What `Config` abstracts from
is in three more modules. **`Codec`**: a value on its way through coercion, the
encoder of a format, its decoder and coercion again; numbers are counted in
halves, an int has `Bits` bits, a float holds the numbers in `Floats` and rounds
the others to the nearest, and floats from `Plain` on are formatted with an
exponent, which an integer field refuses. TOML has no integers beyond int. **`Schema`**: which structs `makeRegistry`
accepts, and how `putNested` and `flatten` build and read documents; names are
sequences of characters in byte order, and `Sorted` puts each field at the place that
the number of keys below its own gives it. **`LogBuffer`**: the bounded buffer of
records, with `FlushLogs` delivering outside the lock.

**`Logging`** is a program that starts as the README of the logger shows: it
queues records in a `PreLogger`, makes a logger over stderr and a file, flushes,
counts errors, derives loggers and logs while the level changes and the file
breaks. **`Printer`** has goroutines that print through derived printers and
handlers sharing a lock; indentations, of printers and in hints, are integers, and
a message reaches its stream in parts. **`ErrorTrees`**
builds every graph of wrapped, joined, shared and cyclic errors, and **`Errors`**
adds the two walks of `inspect.go` as recursive operators (for TLC only).
**`Console`** puts logger, printer and error trees side by side.

Where a run is about several kinds of deployment, the module takes the set of
them as a constant (`Deployments`, `Setups`, `Programs`), or as a definition
(`Policies`), and a variable that no action changes holds the one at hand. The
issuance mode is part of the persisted record, as in the code, and `provision`
chooses it.

`MC*` modules give constants that a configuration file cannot express, and put
together the parts that one run is about: `MCStores`, `MCHost`, `MCConfig`,
`MCMaterial` and `Console`, which `MCConsole` completes, have a variable (`view` or
`part`) that chooses one module for the whole behaviour, while the variables of the
others stay at one initial value. Such a run checks each of its modules as a run of its own would.
Properties of such a run are conjunctions of properties of its modules; a part is
cited with its module, as in `SQLite!NoLostUpdate`.

Operators whose comment begins with "Mutant" are deliberately wrong variants of
the definition below them, used to see that a property can fail; no
specification uses them. Formulas whose comment says that the code departs from
them are statements of the documentation that do not hold; see "Departures
observed".

## Runs

Passing runs. Each property is described at its definition. Where a name is
followed by a colon, the property the run checks is the conjunction of the parts
after it (and of the parts other rows give it); the parts are defined, each with
its comment, in the module the row is about.

| run | instance | what it shows |
|---|---|---|
| `controller` | one manager, three generations and versions, failing writes, restarts (also with another set of configured issuers), purge and new provision | the record always loads (`AuthTypeOK`, `ValidStore`), roots are published first (`PublishedBeforeActive`), secrets stay (`SecretsStay`: `StoredSecretStays`, `GeneratedSecretStays`) |
| `ledger` | a controller and a signer, with a ledger or without, time | leaves stay verifiable (`TrustCoverage`), a revision identifies material (`RevisionIdentifiesMaterial`) |
| `signers` | two signers that draw the same serial while the authority changes, fairness | `LedgerComplete`, `LedgerValid`, `LedgerLeavesCurrent`, `SignTerminates` |
| `stores`, file store | two processes with deaths and failing writes, or one that also purges | it implements `AtomicStore` (`AtomicSpec`); `LedgersSound`: `WholeUnderLock`, `LedgerBelongs`; `DamageStops`: `NothingAfterTorn` |
| `stores`, transactions | three processes over SQLite's locks | `SQLiteSerial`: `NoLostUpdate`, `AppendsCurrent`, `MissesOnlyCurrent` |
| `stores`, files | two owners and a signer, or one owner that purges, two faults, fairness | `LedgersSound`: `Usable`, `LedgerBelongs`; `DamageStops`: `ForeignLedgerStops`; `FilesProvisionsOrLeft` |
| `host`, service | five installations: systemd and launchd, system and user scope, a reliable and an unreliable service manager | `DirsReconciled`; `ManagerFollows`: `RestartTold`, `RestartApplies`, `StopStops`; `RemovesOnlyAsked` |
| `host`, Linux accounts | two callers, every policy, three faults, two drifts, fairness | `AccountsTruthful`: `SuccessAgrees`, `OnlyCompleted`, `VerifyKeeps`; `AccountsConverge`: `Converges` |
| `host`, macOS accounts | two accounts, four identifiers, nine combinations of the policies, one fault, fairness | `AccountsTruthful`: `SuccessAgrees`, `OnlyCompleted`, `IDsDistinct`; `AccountsConverge`: `ConvergesOrRefused` |
| `config`, snapshots | two goroutines, three fields, edits, restarts, failing writes | `SnapshotAccepted`, `SetStays`; `SavedReadsBack`: `RoundTrip`, `SensitivePrivate` |
| `config`, values | every kind of value, type and format, two-bit integers, floats that round | `ValuesExact`: `Exact`; `SavedReadsBack`: `SavedReloads` |
| `config`, schemas | up to three fields over the names `a` and `a_a`, edited files of two leaves that may also use `a.a` | `ValuesExact`: `Unambiguous`, `Strict`; `SavedReadsBack`: `SavedLoads` |
| `config`, log buffer | room for two of six records, two goroutines that flush | `LogAccounted`: `Conserved`, `AtMostOnce`, `NewestKept` |
| `console`, logger | two queued records, three derived loggers | `RecordsArrive`: `IDsOnce`, `HintsFiltered`, `NeverMute`, `ReplayedInOrder`, `OneLevel` |
| `console`, printer | two goroutines with two messages, or one that derives printers and handlers with positive and negative indentation; every redirection | `MessagesWhole`: `StreamClean`, `WholeMessages`, `IndentsAdd` |
| `console`, errors | every graph of up to four errors | `ErrorKindsFound`: `EffectiveIsNearest`, `UnanimityDecides`, `KindsComplete` |
| `material`, requests | names in every spelling, several definitions and options | `PolicyExact`: `WithinPolicy`, `RecordReadable`, `OwnRequestHonoured`, `ProvisionsAccepted` |
| `material`, options | every list of two options for every operation | `OptionsIndependent`: `NothingOverwritten`, `OrderIrrelevant` |
| `material`, bundles | twelve certificates: a renewed root, a cross-signed issuer, a foreign root of the same name, two CAs that sign each other | `BundlesFit`: `AcceptsOneLine`, `BundleFits`, `EncryptionKept`, `TrustCanonical`, `OnlyGrows` |
| `material`, files | a complete bundle and one without a root, or the latter and a request, saved into one directory at the same time; a fault or death, fairness | `FilesWhole`: `WholeFiles`, `LoadedFits`, `SavedWhole`, `NoLitter`, `NoReplaceKeeps`; `FilesRetrySucceeds` |
| `material`, rotation | two issuers, 16 periods, several rotate-befores | `RotationInTime`: `NeverExpires`, `DueIsStagedEarly` |

Each module also has its type invariant; where a run has several modules they are
one property, `TypesOK`.

Runs that find a violation. Each one belongs to a finding, which quotes what the
repository says and tells how the code departs from it.

| run | property | what happens |
|---|---|---|
| `unlockfile` | `ActiveSecretStays` | two managers: the unlock file is rewritten from a stale copy |
| `filepurge` | `NoLostUpdate` | three processes: `ca.lock` is removed while others have it open, and an update that had read the document brings a purged authority back |
| `sqlitedeadline` | `SQLiteSeenComplete` | a leaf is recorded between the listing of the ledger and the commit |
| `systemdreload` | `RestartToldAfterFailure` | a failed daemon-reload is forgotten by the retry |

`controller` scales the leaf validity to 0 instants, so that a retired root's
trust deadline passes within its two instants and `PruneRoot` is reached;
`ledger`, whose `TrustCoverage` depends on leaf lifetimes, gives leaves a
positive validity.

What a passing run shows is conditional where the code is:

* `StoredSecretStays` is about one manager at a time (`unlockfile` shows the
  other case); `LedgerValid` is about an authority that is not purged and
  provisioned again.
* `AtomicSpec` is about purges that overlap with nothing and are not
  interrupted; `FilesProvisionsOrLeft` excepts attempts that died between making
  a file and setting its mode. `MissesOnlyCurrent` is what remains of
  `SQLiteSeenComplete`: rows a mutation has not seen were signed under the very
  revision it replaces, so no older leaf is ever overlooked.
* `RestartTold` and `RestartApplies` are about systemd while systemctl works,
  `StopStops` about a service manager that does what it is asked;
  `DirsReconciled` and `RemovesOnlyAsked` leave out shared and nested
  directories.
* `IDsDistinct` is about calls that do not overlap;
  `ConvergesOrRefused` excepts records that lookup refuses. `OnlyCompleted` of
  `AccountDarwin` takes "groups", reported by a call that found no account, to
  mean the groups it was added to.
* `SetStays` says that a field stays set, not to which of the values given.
* `Exact` is about integers; of a float field it says that the value is the
  nearest float. `IndentsAdd` is about hints that do not sum to less than nothing.
* The schemas of `config` have no hyphens in their names, and `SavedReloads`
  leaves a nil list in JSON out. Strings are taken to be valid UTF-8.
* `RecordReadable` excepts URIs of the options that X.509 does not give back as
  they were, and `OwnRequestHonoured` allows the leaf to say once what a request
  says in two spellings.
* `ProvisionsAccepted` is about identities without a common name;
  `RotationInTime` is about a root's
  rotate-before of at least an issuer's validity and the clock skew.
* `NoReplaceKeeps` is about files that were there when the new content was
  written, `NoLitter` allows one temporary file for each process that died,
  `SavedWhole` about a Save that nobody disturbed.

### Departures observed

Places where the code does less than its documentation, comments or tests
suggest. The models contain the steps. Where a formula is named it is stated in
the module, and TLC finds a short counterexample when it is checked there; the
other entries are the conditions above, and dropping the condition gives the
counterexample.

certs:

* `authority_operations.go:362`: `Purge` compares ID and root fingerprint with a
  state it loaded, and `store.purge` then removes whatever is there; a promotion
  in between makes it remove a root that nobody confirmed.
* `authority.go:392` (`Rotation!DueIsStaged`): an issuer may fall due in the last
  issuer-validity period of a root that is not yet due itself. `makeIssuer`
  refuses the successor and `Ensure` fails until the root is due (`README.md:9-10`:
  "stages due rotations"); the same rotate-before for both, as the defaults are,
  is enough.
* `validate.go:192`: revisions and versions start again after a purge. An issuer
  manager of the old authority passes both comparisons, and its record makes
  every later ledger check fail.
* `validate.go:59` (`Requests!Provisions`): an identity with a common name is
  accepted by `NewAuthorityManager`, and every `Ensure` with it ends with a
  `DriftError` about the root it has just made (`README.md:9`: "`Ensure`
  provisions missing material").
* `issuer.go:307` and `validate.go:176` (`Requests!NamesNeverCorrupt`): a URI of
  `WithSANs` or `WithAdditionalSANs` whose scheme has upper-case letters, or whose
  host X.509 does not have, passes `normalizeSANs` and the policy; the certificate
  reads back differently or not at all, and `SignCSR` answers with corruption
  instead of refusing the request. `NewCSR` likewise takes two spellings of one
  URI for two names (`models.go:176`), which the request then has twice.
* `issuer.go:239`: the ledger read now is validated against the state loaded
  before; a rotation and a signature in between are reported as "ledger record
  has a future authority revision".
* `file_store.go:261`: a purge that stops after `ca.json` leaves its ledger to
  the next authority, which then fails its own ledger check.
* `file_store.go:376` (`FileStore!ProvisionResumes`): a ledger directory that was
  made but not yet given its mode and owner is refused by every later attempt to
  provision.
* `file_store.go:549` (`FileStore!SignersUndisturbed`): `lookupLedger` takes no
  lock and can meet the unfinished line of a running append ("incomplete final
  ledger record"), which fails the signature; `concurrency_test.go:67-69` wants
  all of them to succeed.
* `sqlite_store.go:103` (`SQLiteFiles!Provisions`): a process that dies between
  making a database and setting its mode leaves a file that every later
  `NewSQLiteStore` refuses.
* `sqlite_store.go:248` (`SQLiteStore!LoadsAgree`): document and tables are read
  by statements of their own; an update in between is reported as drift of an
  intact database.
* `sqlite_store.go:307` (`SQLiteStore!RacesAnswered`): the second of two
  concurrent updates gets SQLITE_BUSY, not the `ConflictError` of
  `README.md:20-23`.
* `sqlite_store.go:800`: `purge` closes the shared handle; what other managers
  that share the store then meet is not modelled.
* `save.go:113`: without `WithReplace` the target is looked at before the rename,
  not during it; a file another saver puts there in between is replaced.
* `bundle.go:473`: `fullchain.pem` of an earlier bundle stays when the new one
  has no root.

service and account:

* `backend_linux_impl.go:77`: a `systemctl show` that fails after daemon-reload
  counts as a service that is not loaded: `Ensure` succeeds without
  `RestartRequired`, and a later one, which finds the definition in place, does not
  ask for a restart either.
* `backend_linux_impl.go:110`: `uninstall` ignores a failed stop and removes the
  definition; the service runs on and `stop` then does nothing.
* `backend_darwin_impl.go:114`: `kickstart -k` restarts a loaded service from the
  definition read at bootstrap, so the restart that `RestartRequired` asks for
  does not apply the change.
* `operation.go:196`: in user scope the runtime directory lies below the config
  directory and is removed with it, although it was not selected.
* `backend_darwin_impl.go:26`: in system scope config and state are one path,
  which gets 0750 and then 0770.
* `account/backend_darwin_impl.go:31` (`AccountDarwin!VerifyKeeps`): every lookup
  error counts as a missing account, so a lookup that fails for another reason
  makes `Ensure` create an account that exists; `create` then gives it a new UID
  and rewrites its attributes, under `Verify` too (`README.md:23-24`: "returns a
  typed drift error instead of changing a present account"). On Linux
  (`backend_linux_impl.go:34`) `useradd` refuses, but `groupmod` may have changed
  the GID of the group by then.
* `account/backend_linux_impl.go:228` (`Account!HomeReconciled`): when chown or
  chmod of a new home fails, the retry only asks whether the home exists.
* `account/backend_linux_impl.go:82`: a group whose creation is reported as
  failed but was done, a changed GID and a home that could not be owned are
  missing from `Changed` (`README.md:18`: "retains completed work on failure").
* `account/backend_darwin_impl.go:64` (`AccountDarwin!Converges`): a failure half
  way leaves a record that lookup answers with an error other than
  `NotFoundError`, and every later `Ensure` stops there (`README.md:3-4`:
  "idempotently reconciles").
* `account/backend_darwin_impl.go:108` (`AccountDarwin!CompletedRetained`): `create`
  and `modify` record their changes only after their last command, and
  `ensureGroup` never reports the identifier or the hidden flag it sets.
* `account/backend_darwin_impl.go:290`: identifiers are chosen from a listing and
  taken later; calls that overlap can take the same.

config, console and errx:

* `config/file.go:94`: `Save` releases its lock before it writes; the older of
  two snapshots may be written last.
* `config/decode.go:29` (`Codec!SetPersists`): an empty list that was `Set` is
  saved as `null` in JSON, which the next `Load` refuses (`README.md:22-23`: "To
  persist an externally supplied value, call `Set` first").
* `config/registry.go:160` (`Schema!CollisionsRefused`, with a name that has a
  hyphen): keys are compared with their neighbours in string order, and `-` sorts
  before `.`; with `a`, `a-b` and `a.c` the collision of scalar and namespace is
  not seen (`README.md:62-65`: "scalar/namespace collisions fail loading").
* `console/logger/prelogger.go:57` (`Logging!ErrorsStop`): the bootstrap example
  (`README.md:50-51`) flushes and then counts errors, but `Count` is 0 after
  `Flush`; the program starts although errors were recorded.
* `console/logger/logger.go:96` (`Logging!DegradationTold`): the warning about a
  log file that cannot be opened goes through the logger's own level
  (`logger.go:44-45` promises it).
* `console/printer/handler.go:70` (`Printer!IndentIsDelta`): hints that sum to
  less than nothing are ignored, so `WithIndent(2)` with `console.indent` -1 prints
  two levels (`console/hints.go:12`: "an integer indent delta").
* `console/printer/handler.go:103` (`Printer!SuccessAsGiven`): `console.success`
  given with `With` counts as true whatever its value is (`README.md:107`).
* `errx/inspect.go:29` (`Errors!BranchesAgree`): a branch that is itself an
  ambiguous join counts as unclassified, so `Join(Join(NotFound, Conflict),
  Invalid)` is `Invalid` (`doc.go:5-7`: "all classified branches must agree").

### Bounds

The authority's interesting cases need an active, a pending and a retired root
(three generations), an issuer version for each, and time enough for a validity
to end; revisions are bounded because pruning can repeat, and `MaxLeaves` bounds
what is issued because issuance without a ledger can repeat too. Two managers
are enough for every interference between a read and a write of the unlock file,
two signers for a race for one serial. `Rotation` runs over more than one root
lifetime (16 periods, a root lives 12), with enough versions and keys that no
bound stops it.

`FileStore` needs two processes for races of locks and three (purger, waiter,
newcomer) for the unlinked lock file; `SQLiteFiles` two owners that race to
provision and a reader, and two faults, so that a retry may fail too. A
`Service` needs two specifications, so that one differs from what is installed.
`Account` allows three faults and two drifts: an attempt may fail at any step,
and its retries too; `AccountDarwin` one fault, anywhere, in two accounts that
share the identifiers. Its policies are home (left, required, ensured), existing,
and whether GID and shell are specified; nine of the 24 combinations are run, in
which each value of one meets each value of another at least once, except that a
required home is run under `Reconcile` with a shell and without a GID.
`BundleFiles` has one fault or death, anywhere in two overlapping saves.

Two bits give every overflow, sign and fraction that the conversions of `Codec`
distinguish, and floats with gaps every rounding and both notations. A URI is
accepted, in upper case, without a scheme or unfit for X.509. Indentation goes from
-1 to 1. Three fields are what a scalar, a namespace and a name between them
take. The log buffer holds two records and sees six, so that it overflows between
flushes more than once. Four errors are what a join over an ambiguous join and a
shared leaf takes. Two options are what a conflict takes; the fold looks at one
at a time. `MaxAttempts` is 8 in the code and 2 in the runs; the loop is the
same. Where a bound ends a behaviour the configuration switches the deadlock
check off; it is on for `host`, `config`, `console` and `material`.

### Fairness

* `Issuance!FairSpec`: a signing call that is under way takes its next step (the
  goroutine is scheduled and flock is polled until it is free); nothing is
  assumed about managers, time or purges.
* `Account!FairSpec`, `AccountDarwin!FairSpec`: a call goes on until it has
  returned, and a caller calls again after an error; faults and drifts are
  finite.
* `BundleFiles`: a Save that is under way goes on (weak), and a caller whose Save
  failed calls again with `WithReplace`, also when others keep coming in between
  (strong): a caller that retries is the assumption, not something the code does.
* `SQLiteFiles!FairSpec`: the same for owners that open and provision.

The `MC` modules state these for the part that is chosen.

## Proofs

Eight modules hold theorems. Each extends the module it is about and is checked by
TLAPS for every value of the constants that satisfies the named assumptions: any
number of managers, processes, goroutines, issuers, generations, versions, fields,
certificates, records or installations. Invariants that carry a proof were checked with
TLC on small instances before they were proved. `AuthSpec`, `Spec` and `ConsoleSpec` are
the specifications of the modules, `MCSpec` is that of a run with several parts: such a
theorem states the very property that the run checks.

| module | theorem | states |
|---|---|---|
| `AuthorityProofs` | `AuthorityTypes` | `AuthSpec => []AuthTypeOK` |
| | `StoreAlwaysValid` | `AuthSpec => []ValidStore`: `load` never refuses what the library itself has written |
| | `RootPublishedFirst` | `AuthSpec => PublishedBeforeActive` |
| | `GeneratedSecretsAreKept` | `AuthSpec => GeneratedSecretStays`, any number of managers |
| | `SecretsAreKept` | `AuthSpec => SecretsStay`, one manager |
| `RotationProofs` | `RotationTypes` | `Spec => []TypeOK`, in time |
| | `NothingExpires` | `Spec => []NeverExpires`, in time |
| | `DueIsPending` | `Spec => DueIsStagedEarly`, in time |
| `IssuanceProofs` | `IssuanceTypes` | `Spec => []TypeOK` |
| | `LeavesStayTrusted` | `Spec => []TrustCoverage` |
| | `LeavesOnRecord` | `Spec => []LedgerComplete` |
| | `RevisionSuffices` | `Spec => []RevisionIdentifiesMaterial`, without reprovisioning |
| | `RetiredKeysUnused` | `Spec => []LedgerLeavesCurrent`, without reprovisioning |
| | `LedgerAlwaysValid` | `Spec => []LedgerValid`, without reprovisioning |
| `StoresProofs` | `FileStoreIsAtomic` | `Spec => AtomicSpec`: the refinement, if purges are alone |
| | `FileStoreTypes`, `LedgerReadWhole`, `DamageIsFinal` | types, `[](WholeUnderLock /\ LedgerBelongs)` and `NothingAfterTorn` of the file store, if purges are alone |
| | `SQLiteTypes`, `SQLiteIsSerial` | types and `SQLiteSerial` of the transactions |
| | `FilesTypes`, `FilesUsable`, `FilesForeignStops` | types, `[](Usable /\ LedgerBelongs)` and `ForeignLedgerStops` of the SQLite files, if purges are alone |
| | `StoresTypes`, `StoresLedgers`, `StoresStop`, `StoresSerial`, `StoresAtomic` | `TypesOK`, `LedgersSound`, `DamageStops`, `SQLiteSerial` and `AtomicSpec` of run `stores`, if purges are alone |
| `HostProofs` | `ServiceTypes` | `Spec => []TypeOK` |
| | `EnsureReconciles` | `Spec => []DirsReconciled` |
| | `ManagerIsFollowed` | `Spec => []ManagerFollows` |
| | `OnlyAskedRemoved` | `Spec => RemovesOnlyAsked` |
| | `LinuxTypes`, `LinuxSuccessAgrees`, `LinuxReportsTruly` | types, `[]SuccessAgrees` and `OnlyCompleted /\ VerifyKeeps` of `Account` |
| | `DarwinTypes`, `DarwinSuccessAgrees`, `DarwinIDsDistinct`, `DarwinReportsTruly` | types, `[]SuccessAgrees`, `[]IDsDistinct` and `OnlyCompleted` of `AccountDarwin` |
| | `HostTypes`, `HostTruthful` | `TypesOK` and `AccountsTruthful` of run `host` |
| `ConfigProofs` | `ConfigTypes`, `PublishedAccepted`, `SetValuesStay`, `SavedIsKept` | types, `[]SnapshotAccepted`, `SetStays` and `[](RoundTrip /\ SensitivePrivate)` of `Config` |
| | `ValuesKept` | types, `Exact` and `SavedReloads` of `Codec` |
| | `LogIsAccounted` | `MCSpec => []LogAccounted` |
| | `PartsTypes` | `MCSpec => []TypesOK` |
| | `SavedIsLoaded` | `MCSpec => []SavedReadsBack` |
| | `ValuesAreExact` | `MCSpec => ValuesExact` |
| `ConsoleProofs` | `PrintedWhole` | `ConsoleSpec => MessagesWhole` |
| | `RecordsDoArrive` | `ConsoleSpec => RecordsArrive` |
| | `ConsoleTypes` | `ConsoleSpec => []TypesOK` |
| `MaterialProofs` | `FilesAreWhole` | `MCSpec => FilesWhole` |
| | `PolicyIsExact` | `MCSpec => []PolicyExact` |
| | `OptionsAreIndependent` | `MCSpec => []OptionsIndependent` |
| | `BundlesDoFit` | `MCSpec => BundlesFit` |
| | `RotatedInTime` | `MCSpec => RotationInTime` |
| | `MaterialTypes` | `MCSpec => []TypesOK` |

### The arguments

**The record is valid.** `validateState` is not inductive. A record may pass it whose
pending manifest names the active root, or whose pending root has signed a version
that is not pending; promoting or discarding that would break it. The inductive
invariant is `Consistent(s) == validateState(s) /\ PendingIsNew(s) /\
PendingRootUnused(s)`: the manifest names new material only, signed by the root under
which it will be active, and nothing else is signed by a pending root. Each operator of
`AuthorityState` keeps types and consistency (a lemma each), and each action of
`Authority` keeps the store or replaces it by the result of such an operator.

**How the record evolves.** The second part of `AuthorityProofs` adds that keys are
numbered (`NumberedStore`: no material has a number that was not drawn yet) and
describes one update by `Evolves`: versions that are active or older stay as they are,
roots keep their key and are retired with a trust deadline only, and the next active
root is the present or the pending one. `RootPublishedFirst` is the last part; the
others are what `IssuanceProofs` needs.

**Rotation.** That nothing has expired is not inductive: how many periods must be left
depends on where the controller is (`Margin`). Something that is due is staged two
periods before its end, waits one period in which `Ensure` only answers that something
is pending, and is then promoted. All issuers have the same end (`Together`), because
they are made and renewed together; an issuer that became due while another was pending
would come too late. `InTime` asks for what this needs: no disk errors, one set of
configured issuers, issuers valid for four periods and renewed two before their end, and
nothing due that has just been made. One period less in either place and TLC finds an
expired issuer. `MaterialProofs` instantiates the module for the controllers of run
`material`.

**Leaves.** What an IssuerManager holds was read from some earlier record, and the
version it read is still there unchanged (`MaterialKept`); the root of every leaf in the
field is settled, and active or trusted until the leaf has expired (`LeafTrusted`). In
Ledger mode the second follows because the leaf's record still finds its version, so
that the next trust deadline is late enough. These two hold even when the authority is
purged and provisioned again under a running manager, since old material is recognised
by its key. What compares revisions only (`RevisionIdentifiesMaterial`,
`LedgerLeavesCurrent`, `LedgerValid`) needs `~Reprovision`: the new authority starts
again with revision 1.

**Secrets.** Roots and secrets carry the number of the operation that generated
them. `GInv` says that a secret opens at most the root of its own generation, and that
a manager between the update of `PromotePending` and its end opens no other root in use
than the one it is going to remember: it cannot stage one meanwhile (`m.mu`), and
what others stage has other secrets. That is enough for any number of managers. The
unlock file needs `Managers = {m0}`: no lock protects it, and run `unlockfile` shows two
managers losing a secret. With one manager, an unlock map that is about to be written
has every right secret that the file has (`RewriteKeeps`), also when the process died
and another took over, or `PruneRoot`, which takes no mutex, came in between.

**Files and flocks.** The hypothesis `PurgesAlone` says that where an authority is
purged one process uses the store and nothing fails; run `filepurge` shows what happens
otherwise. Then `ca.lock` always has its name, so every open descriptor is the same
inode (`LockOK`), and what a process knows under its locks is what the files say
(`SignOK`, `UpdateOK`, `PurgeOK`). The refinement follows step by step: the rename
that puts `ca.json` in place, the end of an appended line and the removal of `ca.json`
are the steps of `AtomicStore`, all others stutter.

**Transactions.** Who is SHARED in the authority database has read the document that
is stored, at most one connection is RESERVED (`ConnOK`, `OneWriter`), and no row is
newer than the document (`RowsNotNewer`). A mutation that listed the ledger before
others appended to it misses rows of the present revision only.

**SQLite files.** At most one process at a time provisions (`OneProvides`), and each of
its steps knows that what it has made or accepted on the way has the right mode
(`OpenerKnows`); processes that share the store remove nothing, so they do not disturb
this for each other (`FilesGrow`). A committed authority therefore goes with a database
and a ledger that open (`Settled`), and only a purge that was interrupted leaves rows
without their authority (`RowsOwned`). The hypothesis `FilesPurgedAlone` excludes a purge
among other processes.

**Services.** `DirInv` follows `Ensure` through the directories, in the order of
`reconcileDirectories`: what was reconciled stays so until `Ensure` returns, because
the paths of an installation differ and nothing else runs in between. `ManagerInv`
relates the definition on disk, the one systemd has read and the one that runs, while
systemctl does what it is asked (`PathsDiffer` and the reliability of the service manager
are conditions within the properties, not hypotheses).

**Accounts.** On Linux no step of a caller takes back what is there or agrees
(`Advances`), so what another caller has found or recorded stays true (`CallerSound`);
an administrator changes things only between calls. On macOS the commands that are
still to run, together with the attributes that are already set, always cover what the
specification asks for (`Setting`, `InAgreement`), wherever an earlier attempt stopped;
where a lookup failed and the account existed, it may be in more groups than it was
added to, so that a call that took it to be absent knows of the added ones only.
Identifiers stay distinct while calls do not overlap: one that was chosen is nobody
else's until it is set, whichever command fails in between (`Apart`).

**Snapshots.** Everything in memory is what `resolve` made of two layers, and a Load
that has read the file holds `opMu` (`LoadOK`), so the set layer it copied is still
the set layer when it publishes. `SavedIsKept` rests on the lemma that resolving a
saved document finds, for each saved field, the value the snapshot had: a value that
came from another layer is found in that layer again, and only one that was set is
hidden, by the environment or a flag.

**Values.** `CodecInv` names the values that a field of each type can hold (`Holdable`)
and what the encoder of each format makes of them (`Written`); that coercion of these
gives the value back is a case for each type and format. There is a nearest float
because a set of distances has a least one, and of a float it is the float itself
(`Rounded`), so a second conversion changes nothing.

**Schemas.** `Less` is a strict total order on keys, so the numbers of keys below each
key are 0 up to one less than their number, and every place of `Sorted` has its field.
Among names without a hyphen, what lies between a key and the keys below it as a
namespace is in that namespace itself, so that comparing neighbours finds a collision if
there is one. Joining a path with dots is injective on names without dots. The fold
of `putNested` over leaves of which none extends another is the set of these leaves,
which `flatten` reads back key by key.

**The log buffer.** A record is in one place: the buffer, the hands of one goroutine or
delivered (`OnePlace`), and the buffer holds the newest ones in order (`Newest`).
`Conserved` is a sum over all goroutines; a lemma shows what changing one summand does
to it.

**The printer.** The holder of the mutex has written as much of its message as the
stream shows, and every other message is whole (`HolderOK`); that both streams may be
one writer is a case of the same lemma. Indentation as the caller means it and as the
handler computes it agree in every derived printer (`PrintingOK`).

**The logger.** `LoggingInv` describes the handlers that can be derived (`HandlerOK`) and
the records that can arrive (`OnceOK`). How often an identifier occurs in a record is
counted (`Times`), and the lemmas say what appending and filtering do to that number.

**Error trees.** An error is made of errors that exist, also when a cause was replaced
and a cycle closed (`TreesInv`).

**Bundle files.** A saver's list of files is determined by its bundle (`ItemOf`,
`MaterialOK`); a file that is in place has the contents some saver gave it, because a
rename puts the whole of it there. `Litter` counts temporary files against savers that
are between writing and renaming and against deaths, `Seen` is what a saver without `WithReplace` knows of
the file it is about to put in place.

**Bundles.** `normalizeBundle` follows issuers from the leaf. If it succeeds the
certificates form one line; and if they can be put in one line, the walk takes each of
them once, by a pigeonhole argument on the certificates that are left. The order in
which they were given does not occur in the result. A trust bundle is the sorted
sequence of a set, and a set has one such sequence.

**Policy.** `RequestsInv` carries what the checks have established from one call to the
next: `Settled` names are those that normalisation leaves alone and that come back from
X.509 and JSON as they went in; a URI that does not is stopped at the record, or was
not among the options. Removing duplicates is a fold; `Differ` and `Kept`
say what is in its result.

**Options.** `parseOptions` accepts a list exactly if every option may be given to the
operation and no two of them conflict (`Acceptable`, `Conflict`), and its result is
described by the set of arguments given for each field (`ParsedTo`). Neither mentions an
order, which is why permutations do not matter.

**Folds and numbers.** The library's induction theorems take an operator as parameter,
which the installed provers cannot instantiate. The proofs use the least element instead:
`LeastNatural` (from `WFMin` and `NatLessThanWellFounded`), and `EveryNatural` and
`EverySequence`, which follow from it for a property that is given as a set. A fold of the
community modules is handled through its turns: that the recursion it is defined by has a
solution, that the solution is unique, and what each turn adds.

### Assumptions

The assumptions on constants are what the code guarantees: bounds are natural numbers
(`MaxRevision` of `FileStore` at least 1, as the first revision is 1), validities are
such that a new root has room for its issuers, the marker `Unset` of `Config` is neither
a value nor a thread, certificates, definitions and requests have the fields of their Go
types, and what a saver holds is a bundle that `normalizeBundle` has accepted. Each is
named in the module that declares the constant (`StateConstants`, `AuthorityConstants`,
`IssuanceConstants`, `FileStoreConstants`, `ServiceConstants`, `ConfigConstants`,
`LoggingConstants`, `ChainConstants`, `BundleConstants`, `FilesConstants`,
`RequestsConstants`), or repeated where a module is instantiated (`StoresConstants`,
`HostConstants`, `PartsConstants`, `PrintersConstants`, `TreesConstants`), so that TLC
evaluates it. `NamesHaveNoHyphens` restricts the schemas; with a hyphen the code departs
from its documentation (see above).

Hypotheses of single theorems (`~Reprovision`, `PurgesAlone`, `FilesPurgedAlone`, one
manager, `BeforesAreNat` and `InTime`) are named in the table or in the arguments; each
excludes a case in which a run finds a violation or whose failure is described above, or,
as `InTime` does, says what is asked of the caller. The runs satisfy them.

The proofs changed the model in these places. One was an error: a call of `Ensure` that
adds configured issuers and stages in the same call draws separate keys, which
`Authority` had numbered alike; `NumberedStore` was then not inductive, and `StagingKey`
now gives the staged material a number of its own. The others say the same in a form
that can be reasoned about: `SignAnswer` lists its answers in the order of the code's
checks, `Logging` filters with `Kept`, `CertChain` and `Schema` say what a sorted
sequence is (`Canonical`, `Sorted`) without the library's sorting operators, and
`ErrorTrees` was separated from the recursive walks of `Errors`.

### Only model-checked

* Liveness, which the prover does not handle: `SignTerminates`, `AccountsConverge`,
  `FilesRetrySucceeds`, `FilesProvisionsOrLeft`.
* `ErrorKindsFound`: the walks of `inspect.go` are recursive operators over graphs of
  errors, and what they compute would need induction over that graph.

## Not modelled

* Cryptography (`certs/crypto.go`) and the parsers of PEM, X.509, JSON, YAML and
  TOML: libraries, or data without control. Two keys are different, and a
  signature verifies under its key only; what a decoder makes of a value is in
  `Codec` and `Requests`.
* File ownership, symbolic links and permissions, except the modes and owners
  that code sets in several steps (ledgers, databases, managed directories,
  homes).
* Loss of written data in a power failure: the code syncs files and directories;
  a process may die, the file system does not forget.
* The text of definitions, log lines, tables and messages; `style`, `term` and
  `text`, which are pure functions on text.
* The prompter, which reads one line and keeps no state; `configpflag`, an
  adapter to one layer of `config`; `host`, which only inspects; `Check`,
  `Lookup` and `Status`, which only read.
* Managers that share one SQLite store after its purge.

## Plan

The plan is carried out: every component that keeps state is modelled, and of the 40
properties that the runs check 35 are proved. What a continuation would take up:

1. the walks of `Errors`: a measure on error graphs (their size) and a formulation of
   `kindOf` and `walk` as recursive functions would bring `ErrorKindsFound` within
   reach of the prover;
2. `SQLiteStore` with one handle that several managers share, and what they meet after
   a purge has closed it;
3. the liveness properties, should the prover learn to reason about fairness.
