# A TLA+ model of git-storage

git-storage keeps files, encrypted and deduplicated, in a fixed set of git
repositories: an *index* repository whose ref `refs/heads/log` is a chain of
transactions, and *volumes* whose refs `refs/segments/<id>` hold the chunks.  Every
command is a process of its own; processes share nothing but the repositories, two
small files (the keyfile and `config.json`), and the only synchronisation is a
compare-and-swap on the log ref.  What can go wrong is therefore a matter of the order
in which several processes, and the crashes of each, touch the log, the volumes and
the files, and that order is what these modules model.

Paths below are relative to the repository root's `src/` (`src/src/engine.rs` is the
engine).

## The system

| Part | Source | State | Operations | Modelled by |
|---|---|---|---|---|
| Store state, byte accounting | `engine.rs`, `manifest.rs` | namespace, segment-size index | liveness, volume choice, candidates, effect of a transaction | `StoreState` |
| Write path | `engine.rs` `put`, `remove` | log tip; the command's locals | put, rm | `Engine` |
| Compaction, sweep | `engine.rs` `compact` ... `sweep_orphans` | segment refs of each volume, the volumes' repositories | compact | `Engine` |
| Log and checkpoints | `engine.rs` `load_full_state`, `Txn` | the commit chain | load at a commit, commit | `TxnLog` |
| Reads | `engine.rs` `get`, `backend.rs` `read_blob_at` | pinned commit, local object cache | get, tip | `Reader` |
| Mirror | `engine.rs` `mirror`, `backend.rs` `mirror_to` | the target repositories | mirror | `Mirror` |
| Opening a store | `engine.rs` `open`, `load_or_init_config`, `main.rs` `open_engine` | `config.json`, the keyfile, which repositories exist | open, init | `Setup`, `Engine` |
| Local git backend | `gitrepo.rs` | refs | set, cas, read, list, delete, destroy, recreate | the steps of `Engine` that use it |
| Remote git backend | `backend.rs` | remote refs, local cache | the same over the wire, with retries | `Wire`, `RefStore`; its promise in `Engine`, `Reader`, `Mirror` |
| Chunker | `chunker.rs` | the window of a stream | cut, stream | `Chunker` |
| Crypto, keyfile | `crypto.rs` | key file | load or create, seal, open | `Setup` (the keyfile; which key opens what) |
| Provisioning | `backend/provision.rs`, `main.rs` `init` | repositories on a host | probe, create | `Setup` |
| Command line | `main.rs` | none | one engine operation per process | partly |

How they interact: `put` reads the log (state), chunks its input, pushes one segment
to a volume (phase 1), then builds a transaction on the tip it reads and swaps the
log ref (phase 2), rebasing up to `MAX_CAS_RETRIES` times.  `rm` is phase 2 only.
`compact` reads the log once, rewrites the live chunks of each candidate volume to
another (phase 1), commits the new placements (phase 2), then destroys the old
repository or deletes its refs (phase 3); at the end it sweeps segments that nothing
references.  `get` reads a state at a commit, then the chunks.  `mirror` pushes every
volume and then the index to other repositories.  Before all that, `init` provisions the
declared repositories, writes `config.json` and then the keyfile, while a first `put`
without `init` writes the keyfile and then `config.json`.  Every write to a remote
repository is a `git push`, run again while it looks rate-limited.

The hard parts, each listed with its line in `PROJECT.json` under `hazards`:

* data read before a step and used after it: known placements, the chosen volume, the
  state of a compaction, the sweep's list of referenced segments, a reader's manifest;
* a crash at every boundary: between push and commit, rewrite and commit, commit and
  removal, destroy and recreate, half way through deleting refs;
* a push that landed and lost its answer, which the command retries on top of itself;
* the order data, log, removal, on which every guarantee rests;
* accounting kept in the log, apart from what the volumes hold;
* files that are looked for, then written in two system calls, by processes that do not
  wait for one another;
* a request to a server that may be carried out after its sender gave up, or twice;
* cuts of a stream that must not depend on how it was read.

## The modules

| Module | What it is |
|---|---|
| `StoreState` | Constants with their assumptions; chunks, manifests, the state; the engine's pure functions on it. |
| `Engine` | put, rm, compact, sweep, crash, lost answers, opening: the core.  All other process modules extend it. |
| `FileStore` | The abstract store: a map from names to contents and the calls on it. |
| `TxnLog` | The commit chain with checkpoints, against the history of all transactions. |
| `Reader` | `Engine` with reading processes that pin a commit. |
| `Mirror` | `Engine` with a process that mirrors the store. |
| `Wire` | The calls of `RemoteBackend` that write a ref, over a network that loses, delays and repeats. |
| `RefStore` | What those calls promise (the trait `Backend`): the abstract specification of `Wire`. |
| `Setup` | `init` and the opening of a store: keyfile, configuration, provisioning. |
| `Chunker` | FastCDC on a stream that is read in pieces. |
| `MCEngine`, `MCHalfway`, `MCTxnLog`, `MCReader`, `MCMirror`, `MCWire`, `MCSetup`, `MCChunker` | Values for the constants. |
| `StateProofs` | What the pure functions of `StoreState` compute: types, sums of bytes, volume choice, transactions. |
| `EngineProofs` | Types, steps and snapshots for any constants; `Engine` implements `FileStore`. |
| `DataProofs` | No file dangles, everything is accounted for, the budget, what compaction frees: any number of writers; one process with everything. |
| `BystanderProofs` | What readers and mirrors can count on in those two cases. |
| `TxnLogProofs` | Checkpoints change nothing that a reader sees; how long a tail gets. |
| `WireProofs` | `Wire` implements `RefStore`; one swap wins. |
| `SetupProofs` | A log has one key; declared repositories exist; what is committed stays within reach. |
| `ChunkerProofs` | Cuts depend on content alone; chunks tile the stream; the buffer is bounded; edits stay local. |

`TxnLog` says why `Engine` may keep only the newest state of the log: a reader of the
chain at any commit gets the state the transactions up to it made.  `Wire` says why
`Engine` may take a push for one step that succeeds, is refused, or takes effect without
its answer, however often git ran; see below for what `Wire` allows and `Engine` does not.

### State and actions against the code

`StoreState`.  A chunk is its id and its ciphertext length; a manifest is the set of
its chunk references (id, volume, segment).  The namespace maps names to manifests,
the index is a set of records (volume, segment, bytes) used as the map it is.  Names
are numbers because two functions depend on the order of a `BTreeMap`: `Known` (the
last holder of a chunk wins) and `live_bytes` (the first does).  `Volumes` are
numbered in the order they are declared; the last is the spare when there are at least
`SPARE_SLOT_MIN_VOLUMES`.  A random segment id is the number of the command that drew
it; a compaction's is the record of what it is the hash of.

`Engine`.  `log` is the tip, the state there, and whether the chain holds a Compact
commit (the interval gate asks).  `refs[v]` are the segments of volume v, `repo[v]`
is what there is of its repository: all of it (`up`), nothing (`gone`), or what a removal
left that stopped half way (`headless`, `torn`).  `pc`, `job`, `seen` are a command's position, its
locals and what it read of the log to build its transaction.  The steps are cut where
another process can matter:

| Steps | Code |
|---|---|
| `PutStart` / `PutPush` / `PutLoad` / `PutCas` | `put` up to phase 1 / the push / load and rebase check / build and swap |
| `RemoveStart` / `RemoveLoad` / `RemoveCas` | `remove`: fail-fast check / load / swap |
| `CompactStart`, `NextCandidate` | gates, candidates, and the loop over them with the one state loaded for all |
| `CompactRewrite` / `CompactLoad` / `CompactCas` | rewrite, reused when its segment is there / rebuild on the newest state, abort or find it done / swap |
| `CompactReclaim`, `CompactRecreate`, `CompactDelete` | phase 3: destroy and recreate, or list the refs and delete each |
| `RemovalStops` | destroy, killed or failing half way through the files of a repository |
| `SweepLoad` / `SweepList` / `SweepDelete` | list what is referenced / list the orphans of one volume after the other / delete each, by name, if it is old at that moment (on a remote, as far as the local copy of its commit knows) |
| `CasRejected`, `CasAnswerLost` | the swap that fails, and the one that lands and is reported as failed |
| `Open`, `Age`, `Crash` | a command that only opens the store; time; a death or an error at any step |

A compare-and-swap is a *rejection* when the tip moved; on a remote it may also fail
in transit, and locally it may find the ref locked.  `backend.rs:459-466` treats every
"failed to push" as a lost race, so a lost answer becomes a retry on top of the
process's own commit: that is `CasAnswerLost`.  `FileStore` therefore lets a call take effect more than once
where answers get lost (`MayRepeat`); what that can cost is said below.

`Transport` is where volumes live: `"local"` (bare repositories in the store's
directory, recreated by opening it, a reliable swap), `"file"` (`file://` remotes,
destroyed and recreated by compaction), `"hosted"` (https or ssh, which refuse to be
destroyed).

Half removals.  `destroy` is `remove_dir_all`, which takes away one file after the other in
the order in which a directory lists them.  Where it stops, git 2.39 sees one of these: no HEAD
(`headless`), which `Bare::open` repairs by `git init`; HEAD without, say, `objects/` (`torn`), which
`Bare::open` takes for whole and git for no repository; or a repository in which some refs have lost
objects (*hollow* segments), which `rev-parse --verify` and `for-each-ref` name all the same.  A
segment that has lost some chunks is taken to have lost all.  If it is the commit itself that is
missing, a `file://` remote does not advertise the ref, which is the case where the segment is
gone, and a local sweep fails at it, which is a `Crash`.  The constant `HalfRemovals` says whether this may happen.

Time.  The min-interval gate is open or shut by a free choice once a Compact commit
exists.  A segment becomes old (`Age`) only while no command runs: the window (one hour by
default) is taken to be longer than the commands that overlap its push.  The sweep race
below does not depend on that; without it there would be more of them.

Caches.  A remote volume is read through a local object cache.  It matters in two
places: a compaction may succeed in reading a chunk its volume no longer has (the
guard of `CompactRewrite` asks for the chunk only locally), and `Reader` has it as a
variable.

`Reader`.  `Pin` reads the tip (for a `get`, or by `tip` for a later `get --at`);
`GetStart` takes a manifest at the pinned commit; `ReadCached`, `ReadRemote` read one
chunk, the latter bringing one blob or the whole segment into the cache, as the server
allows; `GetFails` is any error.

`Mirror`.  `MirrorStart`, `MirrorVolume` (in volume order; forced, never deleting), `MirrorIndex`,
`MirrorStop`.  At a hollow segment git does one of three things, according to its version and to what the
target has: it fails, which is a `MirrorStop`; it leaves the ref out with a message and succeeds; or it
finds the target's ref at the same commit and succeeds.  In the last two the push brings nothing for that
segment (`Copies`), and the mirror goes on.  `named` is a history variable, what the log has named
without a break since the mirror began: clients' steps are `Meanwhile`, which takes out what they remove.

`TxnLog`.  `chain` is what the commits hold; `made` is a history variable.  A commit is
one step here, its compare-and-swap being the subject of `Engine`.  The volume choice
and the gates are left open (any volume, any retirement), which only adds chains.

`Wire`.  One ref of one repository: the log's, which is only swapped, or a segment's,
which is set and deleted (a compaction's segment has a name derived from its content,
so that it can come back after a sweep deleted it).  `remote` is where the ref is,
`requests` are updates on their way, `call`, `tries`, `pc` are a client's call, `attempt`
and place; `issued`, `landed`, `result` are what `RefStore` sees.  A commit is named after
the call that publishes it: a transaction is sealed with a random nonce, so no two calls
publish the same one.  Two rewrites with the same content can make equal commits within one
second; the second push then finds its ref up to date and changes nothing.

| Steps | Code |
|---|---|
| `Invoke` | the caller's read of the tip, and the call of `cas_ref`, `set_ref` or `delete_ref` |
| `Send` | one run of `git push`: up to date, refused on the client's side (lease, no fast-forward), or sent with the value the server advertised |
| `Land`, `Refuse` | the server moves the ref if it is still at that value, or does not, or never hears of it |
| `HangUp` | the connection breaks; git reports a failure |
| `RateLimited`, `Fail`, `Again` | `net_git_retrying`: back off and run git again, or report; any failure may be taken for a rate limit, because the test for "429" reads a text with the URL, the ref and the commit in it |
| `Succeed`, `Crash` | the call returns; the process dies |

`Setup`.  `keyfile[f]` and `config` are files that are absent, empty (truncated and not
yet filled), whole or, for `config`, garbled: `fs::write` truncates and then writes, and
the longer of two overlapping texts sticks out (`Overlaid`, by their `Length`).  `repo[u]` are the declared
repositories: absent, empty, with foreign data, or with data of which the host reports a size of 0 (`unreported`),
which `get_repo` takes for empty.  `log[p]` are
the transactions of the local and of the declared index, each with the key that sealed
it and the chunk size it was made with.

| Steps | Code |
|---|---|
| `Begin` | a command; `put` asks `store_exists` at once and keeps the answer |
| `Provision`, `EnsureRepo`, `Create` | `provision_volume`, `ensure_repo` with `get_repo`, `create_repo` and its answer |
| `InitConfig` | `init_config_with_volumes` up to its check |
| `KeyLook`, `KeyOpen`, `KeyWrite` | `keyfile::load_or_create` |
| `ConfigLook`, `ConfigOpen`, `ConfigWrite` | `load_or_init_config`, and the write that `init` does |
| `Load`, `Commit` | the `put`, as far as keys, tips and the pinned size go |

`Chunker`.  A stream is a sequence; the buffer is what has been `read` of it and not left
at the `front`.  `Fill` reads a piece of any size, `Emit` cuts a chunk off, `Done` and `Fail` end the
loop.  `cut` is the function of the code on a window of the stream: the rolling hash
(`Rolling`), the lengths at which it hits the mask (`Hits`), the first of these or the limit.

## What is checked

Runs that pass:

| Run | Instance | Shows |
|---|---|---|
| `local` | 1 client, 2 local volumes, all commands, 6 of them, removals that stop half way | `OnlyHollowDangle`, `LiveWithinTotal` whatever crashes came before (and `TypeOK`); `PutFindsVolume`: opening repairs what a crash between destroy and recreate, or within destroy, left without HEAD; `BudgetWall` without spare or race |
| `reader` | 1 client, `hosted`, all commands, 4 of them, and 1 reader | `NoDangling`, `Accounted`, `ReclaimsGarbage`, `CompactionFrees` with lost answers and with retired volumes that lose their refs one by one; `MissingMeansOvertaken`: a get fails for a missing chunk only behind the tip |
| `writers` | 2 clients, put and rm, `hosted`, and 1 reader | `NoDangling`, `Accounted` under concurrency, retries, lost answers; `OverrunBounded`: two puts that chose the same room overfill a volume by one segment at most; `PinnedReadable`: writers take nothing from a pinned reader |
| `shared` | 2 clients, all commands, `hosted`, with fairness | `SnapshotFresh`; `ImplementsFileStore`: every put and rm is one atomic effect, repeated at most by its own retries, even in the interleavings that lose data; `CommandsEnd` |
| `txnlog` | every chain of 6 commits, interval 3 | `ReadersSeeWhatWasMade`, `ExcessIsCompactions` |
| `mirror` | 1 client, 4 commands, removals that stop half way, and a mirror | `MirrorServes`: what the log names all through the mirror, the target serves as the primary does, whatever is committed, moved and deleted meanwhile; `InterruptionHarmless` (and `MirrorTypeOK`) |
| `wire` | 2 clients, 3 calls, 1 retry each, with fairness | `OneWinner`: no commit is built on a tip that another replaced; `ImplementsRefStore`: retries, breaks and late requests are invisible to callers; `CallsEnd` (and `TypeOK`) |
| `setup` | 2 processes, 3 commands, 2 keyfiles, 2 sizes, 2 repositories | `OneKey`; `DataInReach`, `ChunkSizePinned` unless first commands overlapped; `DeclaredAreProvisioned` (and `TypeOK`) |
| `chunker` | 1395 streams of up to 39 bytes, average 4 | `ContentDecides`, `ChunksTile`, `EditsAreLocal`, `BufferBounded`, `StreamEnds` (and `TypeOK`) |

Runs that end in a counterexample, each against a sentence of the repository (quoted in
`PROJECT.json` under `findings`):

| Run | Property | What happens |
|---|---|---|
| `sweeping` | `NoDangling` | a put reuses a chunk of an *old* segment that a removal has just made unreferenced, and commits after the sweep listed what is referenced |
| `halfway` | `NoDangling` | a removal killed half way leaves a ref without its objects; a later compaction of the same chunks finds the ref, takes it for its own rewrite, commits to it and removes the chunks' only copy; no concurrency needed |
| `keyrace` | `KeyKept` | a first put that found neither configuration nor keyfile goes on to write the keyfile after another first put has committed with the one it overwrites |

Met while modelling, and left without a run of their own:

* A put keeps the placements it read first (`engine.rs:435`) and the volume it pushed to, and does not
  look again whether a compaction has retired that volume since; `compact_one` destroys it
  (`engine.rs:936`) without another look at the log.  What such a put commits dangles, so that
  `NoDangling` fails for two clients also without the sweep.  DESIGN.md 853-854 and
  `engine.rs:908-909`, 922-923 exclude it; DESIGN.md section 18, problem 8, concedes it for a
  segment in flight, and the ignored test `tests/compaction.rs:865` shows it.
* Two puts at once choose the same volume from the same accounting (`engine.rs:508`), and the commit loop
  does not look at its room again, against DESIGN.md 656-657.  `OverrunBounded` is what holds.
* `compact` asks the state it loaded first for every candidate's destination (`engine.rs:810`), so
  that later candidates do not see what earlier ones wrote: with the default gate, four volumes of five bytes and
  three candidates that have two bytes alive each, the spare is overfilled, against `engine.rs:849-850`,
  with no concurrency at all.
* A chunk that two puts at once place on two volumes counts as alive on one of them only
  (`engine.rs:354`), while each volume is rewritten in full: the other volume is a candidate although
  nothing on it is dead, its compaction frees nothing, and the next finds it a candidate again, against
  DESIGN.md 858 and `engine.rs:348-349`.  `CompactionFrees` fails for two clients
  and the contents {a}, {b} and {a, b}.
* A put whose swap landed without its answer commits again, over what another process
  did to the file in between (`backend.rs:466` takes the lost answer for a lost race), against DESIGN.md
  907-910.  This is what `MayRepeat` stands for.
* What is committed while a mirror runs is in the mirrored log and its segment perhaps in no mirrored volume,
  against `engine.rs:411-414`.  `MirrorServes` is what holds.
* Two first puts that found no configuration commit with the chunk size each asked for, or garble the
  configuration, against `chunker.rs:36-37`.  This is why `ChunkSizePinned` and `DataInReach` exclude
  first commands that overlap.
* A crash between destroy and recreate of a `file://` volume (`engine.rs:937`) leaves no repository,
  and `RemoteBackend::open` does not make one: every later put placed there fails.  For
  local volumes `PutFindsVolume` shows that opening repairs it.
* A removal that is killed half way can leave a local volume with HEAD and without a repository,
  which opening does not repair: every later put placed there fails.  A put, an rm and a compact
  get there.  `PutFindsVolume` therefore promises a HEAD and no more.
* What interrupted puts left in a volume is counted nowhere until the sweep
  (`engine.rs:1398`), so a volume can hold more than its threshold while the log
  charges it with less.
* The spare is always the last volume declared (`engine.rs:1342`), keeps what compactions
  write to it, and is never a candidate.  Full, it leaves a later candidate without a
  destination, though DESIGN.md 1143 speaks of a guarantee and 1060 of a rotation.
* `commit_compaction` never writes a checkpoint, so the tail a reader replays can exceed
  the interval (DESIGN.md 575).  `ExcessIsCompactions` is the bound that holds.
* A pinned commit loses its data to compaction: `PinnedReadable` fails as soon as
  `writers` may compact.  DESIGN.md section 18, problem 7, says so.
* The buffer of `stream_chunks` holds up to `max_size` plus one read less a byte, not "at most
  `max_size` bytes" (`chunker.rs:179`).  `BufferBounded` is the bound that holds.
* After an edit, chunks agree with the earlier ones from the first chunk end the two have in
  common (`EditsAreLocal`); nothing makes them have one, where the rolling hash does not cut.
* An `init` that dies between `config.json` and the keyfile, or inside either write, leaves a store
  that every command refuses until the file is removed by hand; so does a torn write
  of a first `put`.  No data is lost: `DataInReach` says that it happens to empty stores.
* `init` refuses a repository with foreign data on a host, unless the host reports its size as 0
  (`provision.rs:119`), which is then adopted in silence, against `provision.rs:16-18`; a `file://`
  repository is opened whatever it holds (`main.rs:293`), so `DeclaredAreProvisioned` promises less of it.
* A failure that is no rate limit can be taken for one (`backend.rs:711` looks for "429" in a
  text that carries object names and URLs), which costs time and, as `wire` shows, nothing else.

### Bounds, and why they are enough

* Two names, chunks a of one byte and b of two, contents {a} and {a, b}: enough for a
  file to share a chunk with another, for a volume to be more than half dead, for
  deduplication against one of several holders.  Volumes take three bytes, so the wall is met
  by the second file.
* Three volumes with the last as spare, or two without one (`local`).
* `MaxOps` bounds the commands that begin.  Three are the shortest sequence, put,
  put, compact, in which a compaction has live and dead bytes (the second put stores less under the
  name of the first); a fourth lets another command come before, between or after.  The counterexamples
  above need two to four, except `halfway`: the same chunks must be rewritten twice, with a half removal in
  between, which takes eight.  It searches under an action constraint that leaves out disturbances
  (`Undisturbed`).  In the six commands of `local` no hollow segment is adopted yet, so that there
  `OnlyHollowDangle` says that every other step, and a half removal itself, loses nothing; what it says
  of longer runs is proved.  Every step of every command is taken in the passing runs.
* `MAX_CAS_RETRIES` is 1 or 2 in place of 32: a retry, and giving up.
* `checkpoint_interval` is 3 in place of 128, chains have 6 commits: two checkpoints,
  with compactions before, between and after.
* `wire`: three calls are the shortest in which a late request meets a later commit of another
  client and a later read of its sender; one retry in place of five is a retry, and giving up.
* `setup`: three commands by two processes let two race at the creation and a third find what
  they left; `keyrace` needs only the two.  Two sizes, one of them the default, can disagree; of the
  two declared repositories one is local and one on a host, each absent, empty, foreign or unreported.
  The text of a configuration is longer for a larger size and for declared volumes (`MCLength`), so
  that any two differ in length.
* `chunker`: an average of 4 gives a minimum of 2, a maximum of 16 and masks of 4 and 1 bits
  (`bits` is 2).  The two byte values are chosen so that one keeps the hash from any mask and
  the other lets the easy one hit: the streams are any beginning of up to 4 bytes, a stretch of 0,
  15 or 32 bytes without a cut, and any end of up to 3 bytes, so that chunks end before, at and after
  the average, at the maximum and at the end.  Reads are of up to 20 bytes, more than a
  window.  The hash has 6 bits in place of 64, as many as the masks look at and two more.
* Symmetry is used in `writers`, between
  the two clients, and in `setup` and `keyrace`, between processes and between keyfiles.
  None of them checks liveness.

Every run has `CHECK_DEADLOCK FALSE`, because a store where `MaxOps` commands have run,
a network where `MaxCalls` calls were made and a stream that was chunked are at rest.

### Fairness

`FairSpec` gives each client weak fairness of its own next step, where a crash counts
as one: a running process does something or dies.  That is all the operating system
owes it.  Nothing is assumed of the swap: it may be rejected every time, and
`CommandsEnd` holds because the attempts are counted.  No fairness is given to
starting commands, to `Age` or to `Open`.

`Wire` gives each client weak fairness of its own step inside a call, in which the breaking
of a connection counts as one: git sets no limit to an answer's delay, so that `CallsEnd`
rests on the operating system ending a connection that is dead.  The server and the network
owe nothing.  `Chunker` gives the loop weak fairness; that it fails is never assumed.

### Mutants

Each property of a passing run has in `PROJECT.json` a mutant: an operator, marked
"Mutant" in its comment and placed before the definition it stands in for, that changes
that definition as a plausible mistake in the code would, and for which the run
finds the property violated.

## What is proved

For every value of the constants that satisfies the assumptions named in the modules
(`NamesAssumption` states that a non-empty set of names has a least and a greatest
element, which holds of every finite set of numbers; `ChunksAssumption`, that there are finitely
many chunks and that each has a byte at least, its nonce and tag alone being more):

| Theorem | Module | Says |
|---|---|---|
| `TypeCorrect` | `EngineProofs` | `Spec => []TypeOK` |
| `SnapshotsFresh` | `EngineProofs` | `Spec => []SnapshotFresh` |
| `EngineImplementsFileStore` | `EngineProofs` | `Spec => FS!Spec`: any clients, every command |
| `WritersNeverDangle` | `DataProofs` | with put and rm only, `[]NoDangling` for any number of clients |
| `SoleClientLosesOnlyToHollow` | `DataProofs` | with one client and every command, removals that stop half way included, `[]OnlyHollowDangle` |
| `SoleClientNeverDangles` | `DataProofs` | with one client and every command, `[]NoDangling`, on a host or where no removal stops half way (`WholeRemovals`) |
| `SoleClientReclaimsGarbage` | `DataProofs` | with one client and every command, `[]ReclaimsGarbage` |
| `EverythingIsAccounted` | `DataProofs` | with put and rm only, or with one client: `[]Accounted` |
| `LiveIsWithinTotal` | `DataProofs` | in the same two cases, `[]LiveWithinTotal` |
| `BudgetWallStands` | `DataProofs` | with one client, and two volumes at most or no compaction: `[]BudgetWall` |
| `OverrunsAreBounded` | `DataProofs` | with put and rm only, finitely many clients: `[]OverrunBounded` |
| `CompactionsFree` | `DataProofs` | with one client and every command, `CompactionFrees`, any number of volumes |
| `PutsFindVolumes` | `DataProofs` | on local volumes, with put and rm only or with one client: `[]PutFindsVolume` |
| `PinsStayReadable` | `BystanderProofs` | with put and rm only, `ReaderSpec => []PinnedReadable`, any number of clients and readers |
| `GetsMissOnlyWhenOvertaken` | `BystanderProofs` | where `SoleClientNeverDangles` holds, with any number of readers, `ReaderSpec => []MissingMeansOvertaken` |
| `MirrorTypeCorrect` | `BystanderProofs` | `MirrorSpec => []MirrorTypeOK` |
| `InterruptionsDoNoHarm` | `BystanderProofs` | `MirrorSpec => InterruptionHarmless`: any clients, every command |
| `MirrorsServe` | `BystanderProofs` | with put and rm only, or with one client, half removals included: `MirrorSpec => MirrorServes` |
| `CheckpointsAreInvisible` | `TxnLogProofs` | `Spec => []ReadersSeeWhatWasMade`: every chain, reader and interval |
| `OnlyCompactionsExceed` | `TxnLogProofs` | `Spec => []ExcessIsCompactions` |
| `WireTypes` | `WireProofs` | `Spec => []TypeOK` |
| `SwapsHaveOneWinner` | `WireProofs` | `Spec => []OneWinner`: any clients, calls and retries |
| `WireImplementsRefStore` | `WireProofs` | `Spec => ImplementsRefStore` |
| `SetupTypes` | `SetupProofs` | `Spec => []TypeOK` |
| `OneKeyAlways` | `SetupProofs` | `Spec => []OneKey`: any processes, keyfiles and repositories, whatever races |
| `DeclaredHaveRepos` | `SetupProofs` | `Spec => []DeclaredAreProvisioned` |
| `CommittedIsInReach` | `SetupProofs` | `Spec => []DataInReach` |
| `SizeStaysPinned` | `SetupProofs` | `Spec => []ChunkSizePinned` |
| `StreamTypes` | `ChunkerProofs` | `Spec => []TypeOK` |
| `ContentAlone` | `ChunkerProofs` | `Spec => []ContentDecides`: any gear table, average, reads and streams |
| `StreamTiled` | `ChunkerProofs` | `Spec => []ChunksTile` |
| `MemoryBounded` | `ChunkerProofs` | `Spec => []BufferBounded` |
| `EditsStayLocal` | `ChunkerProofs` | `Spec => []EditsAreLocal`: any stream, any byte before it |

The argument, in the order the modules give it:

1. `TypeInv`.  `TypeOK` is not inductive: that a step finds in `job` the record of its
   own command depends on `pc`.  `JobsSuit` ties the two together.
2. `SnapshotInv`.  `seen` has the state of its tip as long as the tip has not moved.  It needs
   that a tip never recurs, which comes with `tip` growing at every commit.
   From it, a commit builds on the newest state.
3. `WritersInv`.  "Data first": the manifest a put carries can be read from its push on
   (`DataFirst`), so the commit adds only readable references; and with no compaction
   nothing takes a segment away.
4. `SoloInv`.  With one client, `Prepared` says what each step may count on: the rewrite
   under the destination's name is there from the rewrite on, what the log places on a volume being
   reclaimed is nothing, and the sweep's list is what the log references.
   `RewritesNamed` says that a segment under a compaction's name holds exactly the
   chunks the name is derived from, whichever earlier, crashed run left it, or is hollow where
   removals may stop half way: without it
   the reuse of a rewrite could not be justified.  `NoneLost` is `OnlyHollowDangle` where removals
   may stop, and `NoDangling` where they may not, so that one induction serves both theorems.
5. `AccountInv`.  What `Accounted` says of files must be said of the manifests that puts carry,
   too: `Cited` are both.  A put reuses only placements with a record and brings the record of
   the rest along (`Recorded`); the number it drew for its segment is its own (`OwnSegment`,
   `Drawn`), so that a second commit of the same put, after a lost answer, adds nothing; and a record's
   bytes are those of a set of chunks that has every chunk placed in the segment (`Filled`), which is
   more than `Accounted` asks and what `LiveWithinTotal` needs: the chunks alive on a volume are covered
   by the sets of its records, so their bytes are within the sum.
   The sums are folds over finite sets, which the prover cannot compute with; `StateProofs` derives their
   laws (`TotalPicks`, `TotalTakes`, `TotalSplits`) from the existence of a function of sums over all
   subsets, which holds because a least subset without one cannot be.
6. `BudgetInv`.  A put's volume has room for its segment from the choice to the commit, or has been
   charged with it (`PutBudget`); a compaction's destination has room in the state that was read for all
   candidates (`CompactBudget`), and by one client no volume but the one being compacted gains in between
   (`NoMoreThan`).  That state goes stale with the first candidate's commit, which is why a second
   candidate with the same destination, possible with three volumes, may overfill it; and another client's
   put may take the room that a put was promised.
   `OverrunInv` is for the latter: of the puts that have a segment to charge to a volume (`Ahead`), one, the
   last to choose, found room for its own, and each of the others brings the greatest content at most
   (`Room`).  A commit takes its put out of `Ahead` as it adds the segment, and a repeated commit, whose
   record is there already, adds nothing, since no two puts write to the same segment (`Apart`).
7. `HeadsKept`: a put that is about to push has opened the store, and nothing takes away a HEAD while the
   only process, or only putting ones, are there.
8. `PlaceInv` and `FreeInv`, for `CompactionFrees`.  With one client no chunk ever has two places
   (`OnePlace`): a put reuses what is known and a compaction leaves nothing where it moves from, so a
   candidate's live bytes are the bytes of what will be moved, and its dead bytes make them less than its
   charge (`Wasteful`).  `FreeInv` carries this from the state that was read, however many candidates
   ago, to the commit: the records of a volume still to be compacted are all still there (`StillCharged`),
   even where an earlier candidate's rewrite went to it, since a rewrite that is charged again is charged the
   same (`RewritesCharged`).  Once the answer to a commit is lost the volume has no records, and the retry
   finds it retired instead.
9. `ReaderInv` adds to `WritersInv` that what a pin references is stored; nothing takes it
   away.  `SoloReaderInv` adds to `SoloInv` that what is left to read is referenced by the
   pin, and that a pin with the tip's number is the tip (`Following`): a chunk that is
   missing then dangles, or the pin is older.  A reader that opens a store may create a
   volume's repository, even while clients run, which both invariants survive.
10. `ServesInv`.  Of what the log has named since the mirror began (`named`), whatever the primary can serve
   on a volume behind the mirror's place has been copied (`CopiedBehind`).  A step of the clients adds nothing
   to `named`, but what came to be readable after its volume was pushed would break it: with one
   client no put commits what it pushed earlier (`FreshPush`), and a segment that is missing, or hollow, does not
   come back under a name the log references (`NothingComesBack`).
11. The refinement maps `log.st.ns` to file contents and `job` to calls.  The crux is that a
   Compact transaction built on the newest state leaves every file's chunks as they
   are (`Repointed` changes places, never ids), so it maps to a stutter.
12. `LogInv`.  Each entry of the chain takes what was made before it to what was made, or is the
   checkpoint of it.  The reader's fold is compared with `made` at the first place of the tail where they
   would differ: there is none (`FoldReplays`).  `TailInv` counts in a tail the entries past the
   interval, which only compactions can be.
13. `WireProofs`.  A commit is named after its call, so the ref is at a call's commit only if the
   call landed, and ids never recur: a swap that expects a value the ref has left can never
   land again, however late its request is.  A request carries the value its client found
   allowed, which for a swap is the one it expects.  The refinement maps every variable to itself;
   sends, breaks and retries stutter, and a call that answers `ok` has landed.
14. `SetupProofs`.  A process about to commit read a log that opened with its key, and still does unless
   the tip has moved, in which case its swap fails (`Opened`); the keyfiles do not matter.  `RepoInv`: an
   `init` has every repository behind its place ready (`Readied`), and none becomes less than ready.
   `ReachInv`: unless first commands overlapped, there is one process at most that may still write the keyfile or the
   configuration (`OneFounder`), it finds them as it left them, and everybody else holds what they hold
   (`Knows`); so what is committed fits them (`Kept`).
15. `ChunkerProofs`.  A cut looks at `max_size` bytes at most, and the window holds that much or
   reaches the end of the stream, so that the cut in the window is the cut in the whole
   rest of it.
   A byte before the stream shifts the hash of every later chunk unchanged (`RollingShifts`), so the
   chunking from a place on is the same, one further (`FromShifts`); and from one of its ends on a
   chunking is the chunking from there (`FromAfter`).  The recursive functions of the model have a
   value at every place because a least place without one cannot be (`RollingRolls`, `FromChains`).

`NoDangling` is false for several clients with compaction (run `sweeping`) and for one whose
removals may stop half way (run `halfway`; none does on a host, where nothing is removed).  It
is proved of many writers without compaction and of one with everything else; of one with half
removals, that it is lost to nothing but them; and the refinement is the part of the promise that
holds everywhere.

Every invariant and every safety property that a passing run checks is a theorem, in the settings the
table gives.  Out of the prover's reach: liveness
under fairness (`CommandsEnd`, `CallsEnd`, `StreamEnds`).  Induction over data is so, too, as far as the library's
induction theorems go; where it was needed, the smaller-number principle, which is proved from the
set of numbers that fail, took its place.

## What is not modelled

* Encryption, compression, hashing: a chunk that is read is the right one, and a transaction
  opens with the key it was sealed with.
* The gear table's generation from the seed, and parsing of sizes.
* The JSON form of transactions, manifests and the configuration, save that a configuration that
  is empty or garbled does not parse.
* The push throttle, which is taken once per call and not by its retries, and the promisor
  verdict: they decide when and by which request something is pushed or fetched, not what.
* In `Engine` a swap that loses its answer lands before the command goes on.  One that lands
  after its sender was told of a failure is in `Wire` only, where it cannot land if the log has
  moved on.  If the log has not, it is the command's own commit, made after the command retried, gave
  up or ended.  For a compaction that gives up and then sweeps, this matters: a rewrite it
  reused from an earlier run is old enough to be swept before the late commit lands.
* Pushes of others to a declared repository between its probe at `init` and the first `put`.
* Argument parsing and output, `examples/bench.rs`.

## Plan

1. `Engine` on top of `RefStore`: swaps that land after their command has gone on.
