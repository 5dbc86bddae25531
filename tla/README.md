# A verification of tersa in TLA+

tersa is a terminal mail client: a vault holds a root key, an encrypted
database per account holds a bounded recent mailbox, and short commands sign in,
sync, read and remove. This directory models the parts of it whose correctness
depends on the order of steps or on the shape of untrusted data, checks them with
TLC and proves the central results with TLAPS. The code is the reference; every
definition names the lines it stands for in `PROJECT.json`.

## 1. Inventory

| Component | State | Operations | Interacts with |
|---|---|---|---|
| Identity gate, gated sync (`adapters/sync-runtime/src/gate.rs`, `crates/application/src/identity.rs`) | the identity hash recorded for the slot; the attempt count | read, decide, compare-and-set, then sync under a fence | store (transactions), coordinator |
| Recent-sync coordinator (`crates/application/src/sync.rs`) | active accounts; collected envelopes, continuations, counts | list pages, reconcile, fetch and cache bodies | remote mailbox and store ports |
| Mailbox store (`adapters/store-sqlcipher/src/lib.rs`) | rows, bodies, read marks, identity, binding, lifecycle markers | reconcile, cache if present, mark read, purge, identity and marker writes; listings, threads, search | file system, SQLCipher |
| Store opening and recovery (same file) | main file, WAL, SHM, recovery stage | claim fresh, migrate, validate | file system |
| Token broker (`adapters/token-broker-core/src/broker.rs`, `permits.rs`) | subject permits; stored credential (port) | complete, refresh, revoke, delete | Google, credential store, sessions |
| Pending sessions (`registry.rs`, `handle.rs`, `crates/application/src/oauth.rs`) | live sessions by handle; expiry | insert with reaping, claim, finish | broker, loopback |
| Token answers (`crates/application/src/token.rs`) | none | classify scopes, subject, freshness | broker, adapter |
| Account flows, installation (`flows.rs`, `installation.rs`, store `registry.rs`, `apps/tersa/src/commands.rs`) | registry, account directories, installation lock | add, sync, remove | all of the above |
| Loopback receiver, session (`loopback.rs`, `session.rs`) | a listener and its deadline; a session's account | wait for the callback; list, fetch | browser, flows, adapter |
| Gmail adapter (`adapters/gmail-rest`) | none | list, get, exchange, refresh, revoke | HTTP |
| Vault and keys (`adapters/vault`, `crates/keys`, `commands.rs`) | root key in a keyring or file; the lock | create, unlock, derive | keyring, file system, registry |
| Terminal app (`apps/tersa`) | none durable | parse, configure, choose an account, run, exit | flows, vault, presentation |
| Presentation (`crates/presentation`, `dates.rs`) | none | text of a message, single lines, dates | terminal app |
| Tooling (`xtask`) | none | checks over the repository | - |

What makes each correct:

- *Gate and store*: mail of two accounts never coexists in a slot, and no mail is
  there without an identity, although cycles may overlap; the gate gives up only
  when others really changed the identity under it; cached mail and read marks
  survive a sync; each call of the store takes effect whole or not at all.
- *Coordinator*: one sync per account, a snapshot that admits when it is
  incomplete, counts that add up whether it reports or fails, a bounded listing.
- *Broker, token answers*: one mutation per subject, no leaked permit, results
  that say the truth about what is stored and what Google still honours; a
  session is of the account it is recorded under; a failed sign-in revokes the grant
  it knows that nobody needs, and no other.
- *Gmail adapter*: what is returned is what was asked for, and all of it.
- *Flows*: whatever a crash interrupts, the registry and the directories agree,
  and a removal leaves nothing.
- *Sessions and loopback*: a session judges one callback, its own; live sessions
  are not displaced; the wait ends.
- *Store opening*: whatever a crash, a failing call or another caller leaves, the
  next open either succeeds or refuses for a reason outside of it; a store that was
  finished is never removed; a wrong key changes nothing.
- *Vault and keys*: what is encrypted stays readable, no key is made over data that
  needs another, no two derivations yield one key.
- *Terminal, presentation*: the command that runs is the one named, on the account
  named; success means that all was done; a sender's text cannot fake a line.

The behaviours that are hard here: futures dropped at an await; two processes
or calls between each other's transactions; a crash between two durable steps in
different databases; a remote that answers anything; Google's revocation, which
ends every credential of an account. `PROJECT.json` lists them as hazards, each
at its line with the properties that cover it.

## 2. Modules

- `MailboxOwnership` - the abstract promise of the gate and the fence: a slot
  belongs to one identity, and passes on only with all mail gone.
- `GatedSync` - `gated_sync`. One action per store read or transaction:
  `LoadIdentity`, `RecordIdentity` (the compare-and-set with its clear),
  `LoseRace`, `Reconcile`, `CacheBody`, `SkipBody`, `Fenced`, `Finish`, `Fail`;
  `MarkRead` and `Purge` are the store's other writers. A network await is one
  with the transaction that applies its answer, because it reads nothing local:
  what matters, that time passes before it, is the interleaving with others.
  `INSTANCE MailboxOwnership` under the identity mapping of
  `recorded`, `owner`, `body` is the refinement `RefinesOwnership`.
- `MailboxContract` - what the ports of the mailbox promise: each call one step,
  whole or not at all, its effect stated by what the tables hold afterwards.
- `MailboxStore` - the same calls as SQL: `Begins` opens a transaction, and each
  statement of it is a step; any statement may fail, the process may die between
  two, and other connections read what is committed. The listings are `OrderBy` and
  `Limited`, the `ORDER BY` and `LIMIT` of their SQL, over the rows, search and threads what is built on them. It implements
  the contract (`KeepsContract`, `INSTANCE MailboxContract`).
- `SyncCoordinator` - `sync_recent`: the single-flight set, the listing loop with
  its five exits, the reconcile, the body loop, the report.
- `TokenBroker` - the four calls that change a credential. Each await and each
  access to the store is a `pc` value; `Leave` is the return, the error and the
  drop of the future at once, with the permit's `Drop`. Google is the set of
  credentials it honours (`alive`), minted by `Mint` and ended account-wide by
  `Revoke`.
- `PendingSessions` - the registry of pending sessions behind its mutex
  (`Refuse`, `Insert`, `Undrawn`, `Panic`, `Drain`), the loopback listener
  (`Listen`, `Stray`, `Receive`, `TimeOut`, `GiveUp`) and the completion up to the
  grant (`Claim`, `Unknown`, `Finish`); `Repeat` is a caller that completes again.
  Time is what is left of each session and each wait, and `Tick` takes from all of
  them. It may pass between any two steps, also while the browser's opener is
  waited for.
- `TokenAnswers` - operators: what the transport, the token layer and the session
  make of each answer of Google's token and revocation endpoints.
- `BrokerAnswers` - operators over those: how a broker call ends, given the answer
  and what the credential store did, and what is stored then.
- `GmailRest` - the state machine over both: `Ask`, `ReceiveAnswer`, `ReadClock`,
  `AskAgain`, `Conclude` is a broker call, with what the store did in `storeFault`; `OpenSession` makes a session of a
  refresh; `StartList` to `FinishPage` and `StartFetch` to `ReceiveRaw` are the calls
  of the mailbox, one step for each answer, with `Delete` between them.
- `AccountLifecycle` - `add_account`, `sync_account`, `remove_account` step by
  durable step under the installation lock, with crashes. The broker's calls
  appear by their durable effect; `TokenBroker` has their inside. The gated sync
  appears as "the mailbox holds the subject's mail"; `GatedSync` has its inside.
- `AccountStore` - what an open promises, without files: a store made under one key,
  taken back only while nobody was given it, then there for good and given to its key.
- `StoreOpen` - `SqlCipherMailboxStore::open` on the four entries of a database and
  its recovery stages. `Begin` is the snapshot of `LeafGuard::open`; `RefuseShape`,
  `Inspect`, `InspectFails`, `NeedStage` are `preflight_existing`; `CreateStage` to
  `Unstage` the private copy of a WAL without its index; `Claim` and `Own` the
  exclusive create and its mode; `Open` to `Finish` the connection, with SQLite's own
  file operations (`StartJournal`, `WriteHeader`, `CreateWal`, `CreateShm`) as steps;
  `Sweep` is one step of the cleanup. `Fault*` are the error paths of each stretch,
  `Crash` ends every call and connection, `LoseShm` and `LosePair` are what a power
  loss can take, and `Write`, `StartCheckpoint`, `EndCheckpoint`, `Close` a live store.
  `INSTANCE AccountStore` is the refinement `RefinesStore`: the content by what was
  accepted and whether its schema is there (`Content`), the key of the pages, and the
  keys of the live connections (`Held`).
- `KeyDerivation` - the info strings of HKDF, byte by byte with their length
  frames.
- `RootKeyVault` - a command from its lock to its end: `OpenVault` chooses the slot,
  `Plan` looks at it and at the data, `Generate` to `ReadBack` are `Vault::create` (the
  file slot as a temporary and a rename), `UnlockPlain` and `Unlock` the passphrase
  loop, `OpenInstallation` and `OpenRegistry` the first use of the key.
  `KeyringComesOrGoes` is the session's keyring; `Cancel` is the user's end, `Fail` that
  of a failing call and of a crash.
- `MessageDisplay` - `display_text_from_rfc5322` and
  `from_message_with_body` as operators on token sequences, and the civil
  date, which the module follows day by day beside a calendar.
- `ClientSetup` - operators: the OAuth client from file and environment, and each
  place that validates it on its way - the program, `Runtime::new`, `BrokerCore::new`,
  the authorization and token configurations, the redirect of the listener.
- `TerminalApp` - one run of the program: `Main` parses, `Load` merges the
  configuration, then one action for each command and its refusals; `OpenForAdd` and
  `Add` are apart because a client is validated on both sides of the unlocking.
- `GatedSyncProofs`, `BrokerProofs` (of `TokenBroker` and `PendingSessions`),
  `MailboxStoreProofs`, `SyncCoordinatorProofs`, `AccountLifecycleProofs`,
  `StoreOpenProofs`, `CommandProofs`, `GmailRestProofs` - the theorems (section 5).
- `MCAccountLifecycle`, `MCStoreOpen`, `MCRootKeyVault`, `MCGmailRest`,
  `MCMailboxStore`, `MCTerminalApp` - symmetries and data for TLC. The other runs
  check their module itself; those with liveness use no symmetry.

Each module keeps, beside a definition, the mutants of it that show each
property can fail; they are marked `(mutant of ...)` and nothing uses them.

How they compose: `GatedSync` takes the store's transactions as steps, and
`MailboxStore` shows that each of them is one. `AccountLifecycle` takes the broker
and the gated sync by their durable effect. `TokenBroker` takes an answer as one of
its outcomes and interleaves the calls; `GmailRest` follows one call through every
answer. `RootKeyVault` takes `StoreOpen`'s `ForeignUntouched` for the registry: with
another key it is refused, and unchanged.


## 3. Runs

| Run | Shows | Bounds |
|---|---|---|
| `gated_sync` | overlapping cycles keep the bounded mailbox, its cached mail and its read marks; giving up needs races; it implements `MailboxOwnership`; every cycle ends | 2 cycles, 2 identities, 2 messages, keep 1, 1 body, 3 attempts |
| `sync` | one sync of an account, a report that admits every omission, counts that add up in reports and failures | 2 calls, 1 account, 3 ids in 2 versions, 2 pages of 2, keep 2, 1 body |
| `mailbox` | the SQL of the store implements the contract of its ports, with failing statements and crashes | 2 messages received together, 3 envelopes, 2 threads, 2 identities, limits up to 2, times on both sides of the epoch |
| `broker` | one mutation per subject; what a call reports is stored, or revoked; the permit comes back | 2 calls, 2 accounts, 2 credentials each, 2 permits |
| `sessions` | an attempt is judged once, for its own grant; live sessions are kept; the wait ends | 2 calls, 2 handles, 1 pending, lifetime 2, deadline 1, 2 connections |
| `gmail` | sessions and stored credentials are of their account, errors say what is stored, a stranded grant is revoked and no other, results are whole | 2 Google accounts, 2 slots, a clock of 5 seconds with skew 1, 3 messages, pages of 2 |
| `account` | registry and directories agree after any crash; what is removed is gone | 2 processes, 2 Google accounts, 3 ids, 2 registered at most |
| `store_open` | whatever an interruption leaves opens again; stages are given back, what is handed out is private; it implements `AccountStore`: nothing finished is lost, or given to another key | 2 callers, 2 keys, 2 stages, any umask, 2 crashes, 2 faults, 1 loss |
| `vault` | data stays readable, no key is made over data, no two derivations meet | 2 commands, 1 directory, 3 keys, 2 passphrases, texts of up to 2 bytes |
| `terminal` | the command named runs and succeeds whole; an unusable client is refused before there is a key; text and dates are shown right | 4 words, 2 accounts with names beginning alike, 2 envelopes, 2 levels of parts, a boundary that begins like the other or occurs in the text, days of 136 years |
| `removal_retry` (violated) | an interrupted removal cannot be repeated | 1 process, 1 Google account |
| `vault_shared` (violated) | two first runs replace each other's key | 2 commands, 2 directories |

Why the bounds are enough. The races of the gate need two cycles and two identities;
two messages with room for one let a prune displace a row whose body is still to
come; three attempts tell the last from the others. Two calls of the broker overlap
in every way, and two credentials are the stored and the minted one; what a third
call could add is covered by the theorems for any number. A session registry of one
is full at once, and two units of lifetime tell live from old. Two pages of two with
three ids pass, meet and stay below the limit. Two messages received together make
the id decide the order. Answers of the token endpoint are every combination of
kinds with few identities, and every identity with one kind, because the code judges
them one after the other; five seconds hold every order of issue, expiry, now, skew
and the last second, where sums saturate. Three account ids serve two registrations
with one to spare. Two crashes are a crash and one during the recovery; a second
fault is one that fails the cleanup; two stages are one left and one in use, or none
free; a loss takes the index. Three keys are two first runs that fail and one more.
Four words are a command, an option, its value and one too many. The years have leap
years, 2000 and 2100. The theorems hold for every bound.

Two disagreements have a run. `removal_retry`: a removal interrupted after the
directory is gone stays registered, `subject_of` recreates an empty database and
reports an unknown account, and the retry the documentation promises is never
reached. `vault_shared`: two first runs with different data directories share the
keyring entry and no lock, so the second replaces the key of the first, though
`Vault::create` is documented to refuse when a key exists.

Smaller ones, met while reading:

- `preflight_existing` reads the main file with `immutable=1`, without its WAL; a
  crash in the middle of a checkpoint can make it report `Corrupted` for a store
  SQLite would recover (`lib.rs:2222`). `CorruptedMeansDamage` counts such a cut as
  damage.
- `Revocation::Confirmed` says that Google confirmed (`flows.rs:128`); when no
  credential is stored nothing was asked (`flows.rs:257`).
- `snapshot_truncated` (`sync.rs:152`) is also set at the page limit (`sync.rs:350`).
- `Vault::reprotect` is documented to confirm the key and does not; nothing calls it.
- Under the automatic choice a key left in the other slot by an interrupted first run
  hides the right one: the open fails, nothing is lost.
- A token answer with a malformed `id_token` is dropped without revoking the grant.
- `revoke` takes `invalid_token` with any status but 200 for confirmation; its
  documentation says 400.
- Adding a connected account again, when the answer brings no refresh token, says
  that access is revoked (`flows.rs:92-94`) although the stored credential works.
- `presentation/mailbox.rs:126-127` promises best-effort text of base64 parts and of
  messages in HTML only. A base64 part is never decoded and shown empty, and so is a single
  message in HTML; a multipart without a plain part shows its source.
- There also: a base64 body with padding before the end of a line, and text with "=20",
  are taken for quoted-printable; a `Content-Transfer-Encoding` before the `Content-Type`
  of a part is not seen; text after a nested multipart runs past the inner boundary, and
  a line that has the text of the boundary, or another boundary that begins with it,
  ends the part. `ShowsFirstPart` claims no text of base64 or of HTML alone, and leaves
  out the encodings the code cannot tell (`Understood`).
- `refresh_access_token` retains a rotation so that no grant is without a handle
  (`broker.rs:466-472`); an answer with an empty access token, or with a lifetime beyond
  the clock, is dropped before, with the rotation it holds (`ErrorsSayWhatIsStored`).

## 4. Fairness

`FairSpec` in `GatedSync` and `TokenBroker` says that a call that
is polled goes on: HTTP has timeouts (`gmail-rest/src/lib.rs`), SQLite a busy
timeout, and `commands.rs` blocks on the future. It is weak fairness of all steps of
one call together, so it does not favour success: the mutants refute the liveness
properties by looping. Nothing obliges anybody to begin, read, purge, revoke or
crash. In `SessionsFairSpec` only `Tick` and the timer that is due are fair
(`tokio::time::timeout`, `loopback.rs`). `AccountLifecycle` and `RootKeyVault` have no
liveness because they wait for a person; `StoreOpen` and `MailboxStore` neither loop
nor wait, and `Reopens` is what recovery promises, as an invariant. A run of
`TerminalApp` ends, so `terminal` does not check for deadlock.

## 5. Proofs

The theorems hold for all constants under the assumptions named in the modules:
limits are positive, the values that mean "none" differ from the others, ids are
finite where they are counted, and no option of the command line is a number or
begins an account id, which is `acct_` and hexadecimal digits. Each module proves one inductive invariant, then
reads the properties off it.

- *Gated sync*: `TypeOK`, `OneOwner` and `LocalInv` carry the compare-and-set argument:
  what a fenced call believes is what is recorded, or its fence fails. `RaceInv` ties
  attempts to changes by others. `RetentionHolds` and `OnlyRetentionLosesMail` rest on
  one lemma about `KeepNewest`: the rank of a row, the rows before it, injects the kept
  rows into `0..KeepLimit-1`, and a dropped row outranks every kept one. `Refinement`
  maps `RecordIdentity` to `Adopt`, `Purge` to `Forget` and the writes to `Deliver`.
- *Broker*: `OneMutationPerSubject` and `StoredIsOwn` with `CallInv`, what a call knows at
  each await; `Frame` says what a step of another subject leaves.
- *Pending sessions*: where a session may be, and that a used one is gone (`PlaceInv`,
  `UsedInv`); the bound by cardinality. `BusyIsFull`: only `Refuse` makes a call busy,
  and what it counts after reaping is live.
- *Mailbox store*: `KeepsContract`, the refinement, for any envelopes, batches and
  limits. What `ORDER BY` and `LIMIT` compute is a lemma about any strict total order
  (`OrderByLists`, `LimitedLists`): the sequence exists, has each row once, and its cut
  is the rows with fewer than the limit before them. From it follow what the listings,
  the search and the prune promise (`InboxLists`, `ThreadLists`, `SearchLists`,
  `PruneKeepsNewest`). `MergedOneMore`: a statement for each envelope, one after the
  other, ends with what the contract says of the batch at once. The inductive invariant
  says of each kind of transaction (`Upserting`, `Reconciling`, `Putting`, `Caching`,
  `Recording`, `Purging`), at each statement, that its image is what the call promises
  so far of the tables on disk. A commit or a refusal is then one step of the contract,
  a failure is its `Fail` or `Die`, and every other statement stutters.
- *Coordinator*: `SingleFlight` from `Local`; `WholeCorrect` needs that a listing call
  kept all it was offered, and that a cut page ends the listing and sets the mark in
  the same step. `CountsCorrect`: the counts are cardinalities (`TruncationSize`), and a
  failure leaves with the progress reached, a refused page counted and its envelopes up
  to the one refused. That the listing ends is its page bound; a remote that never
  answers is the transport's timeout.
- *Account flows*: the lock makes a command alone, `Local` describes the disk between
  durable steps, and a crash drops only what is local. `RemovedCorrect` adds that an id
  is not drawn twice.
- *Store opening*: who is alone, what grows only, what each call leaves to others
  (`CallInv`, `OthersKept`), the order of removals (`NoOrphans`) and the key of the
  header (`KeyInv`). On top of it `WhyInv` follows what a call may be excused by: its
  snapshot tells it of a foreign key, a journal, a mode, full stages (`Told`, `Shape`,
  `Still`), and whoever comes meanwhile is an excuse of its own (`Company`). A call with
  none finds at each step what the one before left (`Orderly`), which gives `Reopens`;
  that the copy is of one moment (`Copied`) gives `CorruptedMeansDamage`.
  `OpenImplementsStore` adds to the invariant that a call past the first page has the
  key of the pages (`KeyKnown`): `WriteHeader` is `Make`, `Accept` is `Keep`, `Finish` is
  `HandOut`, the removal of the main file is `Discard`, `Close` and `Crash` are
  `Release`, and every other step is unseen. That the content of an accepted store is
  never lost (`AcceptedStays`) is part of it. Among the causes that excuse a refusal
  in `Reopens` are full stages and a mode that is off: that only a crash or a failing
  system call leaves a stage behind, and that no call hands such a mode out, is
  `StagesHeld` and `ReadyIsPrivate` (`StagesReturned`, `HandedOutPrivate`).
- *Vault*: `Apart` and `Local` give `NoKeyOverData` for any number of directories;
  `ReadableCorrect` assumes one directory, which is what `vault_shared` shows to be
  needed; `KeysSeparate` is a chain of lemmas on framed sequences.
- *Gmail*: what each answer may become (`SuccessFacts`, the `Proceeds` and `Settled`
  states), pages as an increasing selection of the listing (`Upto`), freshness where
  the sum saturates. `StrandedRevokedCorrect` goes through each way a completion ends:
  the answer of a sign-in is of a known account (`GrantedToKnown`) exactly where the
  code has a subject to look in the store for. `TypeOK` is proved here, and for the
  mailbox store, and not run; so is `OneLineEach` of the terminal (`OneLineOfEach`).

- *Terminal*: `RunInv` says, for each verb, what was done to the accounts when the
  command ends: a sync has covered its targets together with what is left of it, a
  removal or a listing works on an account its name singles out, and a client that
  went on has an id, which is all the later validations ask for. What a command names
  is read off its words by `Named`, what it acts on is parsed word by word: `Knows`
  says that the two agree after each word of `inbox`.
- *Recursion over data*: the two recursive functions, the words of `inbox` and the line
  of a text, exist by `Recursion` and are followed by `Induct`, a least counterexample
  from the well-foundedness of the naturals.
- *Dates*: `Place` gives a day its 400 years, century, four years, year and day;
  `DateOfPlace` computes `civil_from_days` from it, `NextPlace` moves one day on, and
  `DateOfNext` compares the result with the calendar, for every day without end.

Only model-checked: the liveness properties, which the prover does not reach, and
`ShowsFirstPart`: its messages are one finite set, built and decoded by nested
recursion, and `terminal` goes through all of it.

## 6. Abstractions

- A subject stands for its salted hash and its dedup tag. Texts, tokens and URLs are
  atoms except where they are displayed or framed.
- `GatedSync` takes a transaction (`BEGIN IMMEDIATE`) as a step; `MailboxStore` has the
  inside. It orders messages by id. In `AccountLifecycle` a directory is there or not.
- `StoreOpen`: a key stands for key and account, which `validate_identity` treats alike;
  the identity of directory entries is left out; contents are none, header, torn or
  schema, and a cut is one SQLite notices without the WAL. Calls on an unfinished
  store follow one another, because of `InstallationLock::acquire` and the allocation
  mutex of `account_for_subject_or_register`; later ones overlap freely. A mode that
  is off, or a journal left behind, is refused by every later open and counted among
  the causes of `Reopens`. `Inspect` is the read of the main file alone and the one
  through its WAL in one step: either refuses as it would apart.
- `MailboxStore`: the subject and credential of a binding are one flag; a search hit
  belongs to a row.
- `RootKeyVault`: the random source never repeats, HKDF is injective, a power loss that
  undoes a rename is left out.
- `GmailRest`: decoding of HTTP, JSON, base64 and JWT is a choice of its outcome, and
  Google is truthful. A subject with a space inside is accepted by the token layer and
  refused by the broker.
- `TerminalApp`: what a command does is success or failure; words are strings. In
  `ClientSetup` a text is absent, blank or set, and the system gives a listener that
  asks for any port one from 1024 on.

## 7. What is left

The hazard of `broker.rs:402` has no property: the code gives up on purpose, and says so.

Not modelled: the open of `open_read_only` readers, `Vault::reprotect` and `destroy`,
which nothing calls; the view models of `presentation/mailbox.rs`, which no command
builds; replacement of files by other programs; cryptography, HTTP and JSON, layout of
text; `xtask`, checks over the repository.
