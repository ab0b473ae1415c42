# Broomed in TLA+

Broomed tidies folders: it scans a folder, lets a classifier (local, the user's
own API key, or an online service) propose a category for every file, shows the
resulting plan in a small desktop widget, and, once the user approves, moves
the files under an undo journal. This directory models that program, checks the
models with TLC and proves the main results about them with TLAPS. Paths below
are relative to the repository; `core/` stands for `crates/broomed-core/src/`.

## The system

| Part | State it keeps | Operations | Interacts with |
|---|---|---|---|
| Executor and journal, `core/operation.rs` | rows of the SQLite table `operations` in the shared temp directory; the file system | plan_move, execute, execute_plan, record, undo, undo_last | shell commands; other instances through the journal file and the files |
| Shell, `src-tauri/src/main.rs` | licence manager (async mutex), AI mode (mutex), windows, tray | Tauri commands: scan, plan_organize, execute_plan, undo_last, licence, mode and BYOK commands | widget over IPC; the core by calls |
| Widget, `src/widget.js` | pending plan (also in sessionStorage), selection, active view, flyouts, buttons, status | event handlers, scanAndPlanFolder, approve, execute, dismiss | shell over IPC; the user |
| Credentials, `core/secure_store.rs` | one JSON file of tokens | store_token, load_token, delete_token, private key | licence manager, start-up, mode and BYOK commands |
| Device identity, `core/device.rs` | id, public and private key in the credentials | generate, load_or_create_device | licensing |
| Licensing, `core/license.rs` | the entitlement, in memory and in the credentials | activate, refresh, check, is_online_ai_enabled, clear | licence server, credentials, routing |
| AI mode, `core/mode.rs` | mode and opt-in | should_try_online | routing |
| AI providers and routing, `classify_auto` in `main.rs`, `core/ai.rs`, `core/online.rs` | provider table, capability tokens | classify_auto, route, route_with_mode, hybrid_classify, request_capability | plan_organize; the licence; the network |
| Models, `core/models.rs` | model files, manifests, registry, lazy handles | atomic_install_model, recover_if_corrupted | engines |
| Cache, `core/cache.rs`, `core/analysis.rs`, `core/db.rs` | bounded memory cache; three SQLite tables | cache_put, cache_get, persist_analysis, invalidate_if_model_changed | orchestrator |
| Watcher, `core/watcher.rs` | none (pure functions) | should_ignore, debounce_events, debounce_timed_events | - |
| Walk and paths, `core/fs.rs`, `core/security.rs` | none between calls | SafeWalk::walk, validate_path | scan command, plan_move |
| Search, intent, mascot, hardware, bridge, hash | none | pure functions and probes | shell |
| Orchestrator and engines, `core/orchestrator.rs`, `core/engines.rs` | loaded models | decide, analyze, inference | analysis cache |
| Drag, overlay, tray, in `widget.js` and `main.rs` | gesture, ticks under way, target window, overlay window | mouse handlers, tracker, show and hide, track_target_window_cmd | folder windows of the system; starts scans |

How they interact on the main path: the widget calls `scan_directory_cmd`, then
`plan_organize_cmd`, shows the plan, and on approval calls `execute_plan_cmd`,
which records and executes the operations one by one. `undo_last_cmd` takes the
newest rows of the journal back.

What makes each part hard, and what makes it correct:

* **Executor and journal.** A move is several file-system calls around two SQL
  statements. An I/O error or a kill may come between any two; a second
  instance shares the journal, and the user edits the same files. Correct
  means: no file is lost, nothing is written over, whatever was displaced is in
  the journal, nothing is executed twice, and undo works through any sequence.
* **Credentials.** A store is a read, a truncation and a write with no lock, and
  an error of any of them is ignored; start-up stores an identity in three
  stores. Correct means: the identity is whole, an entitlement names its device,
  a restart finds what was in memory.
* **Drag.** A timer asks where the pointer is every 16 ms, and answers come when
  they come. Correct means: the folder that is marked is the one a drop cleans.
* **Widget.** Handlers interleave at every `await`; scans, executions,
  dismissals and reloads overlap. Correct means: the plan on screen is what a
  button sends, a carried-out plan does not return, buttons and status recover.
* **Licensing.** Times meet at boundaries; refresh answers may be late, partial
  or refused. Correct means: entitlement never outlives expiry plus grace.
* **Routing.** Three tiers with fallbacks, and a status that tells the user which
  one is in force. Correct means: a file goes only where the status says, file by
  file, and a plan ends. By the documents it would also mean that no file leaves
  the computer in mode Local or without the opt-in; the code asks for neither
  (`online_consent`).
* **Models.** Installation is a write, a verification, a rename and a manifest.
  Correct means: a kill at any point leaves a usable or recoverable model.
* **Cache.** Three statements without a transaction, a bounded map with an order
  list. Correct means: an entry that is served matches its key.
* **Watcher, walk, paths, search, orchestrator.** Pure, but full of boundaries.
  Correct means: they keep what their comments promise on all small inputs.

`PROJECT.json` lists the hazards at their lines, with the properties that watch
them; a hazard without a property says why.

## Modules

| Module | Models | Depends on |
|---|---|---|
| `FileStore` | what the user is promised about files, abstractly: relocate to a vacant path, duplicate, drop a spare copy; only the user saves and deletes | - |
| `Operation` | the executor and the journal as the shell drives them | instances `FileStore` |
| `MCOperation` | symmetry for the checks of `Operation` | extends `Operation` |
| `Operation_proofs` | theorems about `Operation` | extends `Operation`, TLAPS |
| `Credentials` | the credentials file, start-up, and the commands that store tokens | - |
| `Credentials_proofs` | theorems about `Credentials` | extends `Credentials`, TLAPS |
| `Widget` | the approval workflow of the widget and the shell's answers | - |
| `Widget_proofs` | theorems about `Widget` | extends `Widget`, TLAPS |
| `Lease` | what a licence promises, abstractly: online AI is on before one deadline, which only the server's word puts off | - |
| `License` | LicenseManager behind its mutex: validity, grace, activation, refresh, restarts | instances `Lease` |
| `Routing` | `plan_organize`'s classification, file by file, through the gateway, the user's key and the local model | extends `License` |
| `Routing_proofs` | theorems about `License` and `Routing`, the first carried over | extends `Routing`, TLAPS |
| `MCOnline` | answers and environments for the checks of `Routing` | extends `Routing` |
| `ModelInstall` | installation and recovery of a model, one file-system call at a time | - |
| `ModelInstall_proofs` | theorems about `ModelInstall` | extends `ModelInstall`, TLAPS |
| `Index` | the memory cache and the rows of the index database, one statement at a time | - |
| `Index_proofs` | theorems about `Index` | extends `Index`, `Listing_proofs` |
| `Drag` | dragging the mascot onto a folder: gestures, ticks, overlay, the folder under the pointer | - |
| `Lists` | what a list keeps at some of its numbers, and in what order | - |
| `Search`, `Watch`, `Folders` | functions: search, debouncing, walk and validation | extend `Lists` |
| `Listing_proofs` | lemmas: induction over numbers, sorting, folds, and what each function of these three returns | extends `Search`, `Watch`, `Folders`, TLAPS |
| `Providers`, `Analysis` | functions: routing tables and hybrid_classify, orchestrator and answers | - |
| `Library` | the eight modules above, side by side | extends them |
| `Library_proofs` | theorems about `Drag` and the functions, and those of the parts carried over | extends `Library`, `ModelInstall_proofs`, `Index_proofs`, and so `Listing_proofs` |
| `MCLibrary` | arguments of the functions and what lies on the screen | extends `Library` |

### Operation

State: `fs` is what is found at each path: a file (told apart by its hash),
`NoFile`, or `Torn` for incomplete contents. `source`, `destination`, `rowid`
and `status` are the plans and the journal's rows; `rowid = 0` means no row.
Each process has the command it runs, the operations left of the batch, the
current one, the step it is about to take, `pre_hash` (`NoFile` for None), and
what an open copy has read. `home`, `known`, `deleted` and `moved` are history.

One action is one file-system call or one SQL statement. `Record` is the INSERT
(its primary key makes `RecordFails`), `CheckPaths` the existence checks,
`HashFile` the pre-hash, `Rename` / `RenameFails` and `VerifyRename` the fast
path, `CopyStart`, `CopyEnd`, `VerifyCopy` and `RemoveOrigin` the cross-device
path, `MarkDone` the UPDATE. Both paths verify alike (`Verified`): the target is
there, and hashes to `pre_hash` if there is one. A source that has vanished
before it is looked at has none, and the call goes on; one that vanishes while it
is read ends the call (`HashFails`). Execute and undo share these steps, as the code
repeats them with source and destination swapped; `From` and `To` swap them.
Every `?` of the code is an action that ends in `Fail`. `Abort` is an I/O error
of the current step or a kill, at any step; a restart is the next command.
Between two steps anything else may happen: another process's step, or (with
`Interference`) the user saving, deleting or moving a file.

Two abstractions: a directory counts as a file with one content (the code hashes
only files), and creating parent directories is left out (it changes no file).
The single check step stands for the two existence tests of a call, in which
nothing is written.

### Credentials

`file` is the contents of `credentials.json`: a map of seven keys, `Empty` after
a truncation, or `Garbled` when two writes overlap or one was cut off. `Load`,
`Truncate` and `Write` are the steps of `store_token`; `OpenFails` and
`WriteFails` are its write on a disk that refuses or is full, which ends like one
that succeeded (`Return`); a thread does its list of stores one after the other.
Every read of the file gives what it holds, or an empty map if the read fails
(`Reads`). A process has two threads that store: "main" for start-up and
synchronous commands, "net" for the licence commands, which the licence mutex
keeps one at a time. Start-up reads id, public key and private key, generates
and stores a new identity if one is missing, then reads the entitlement and
the mode. `Kill` ends a process at any step. `errors` is history: how many
failed reads and writes have hit the identity itself, have cost the file more
than the token stored ("loss": a store after a failed read, a write cut off), or
nothing but that token ("other").

An entitlement is represented by the device it names, an identity by a number
that is fresh for every `generate`. The shell builds the core without the
`keyring` feature, so the file is what is used.

### Widget

An action is what the script runs between two awaits. `pending` and `selected`
are the plan and its selection; `card` and `drawer` are what those two flyouts
show (a hidden flyout holds nothing, as each is drawn anew when it is shown);
`others` are the rest; `view` is `activeFlyoutMode`. Each scan flow has a stage,
each `execute_plan_cmd` call a slot. The shell may answer requests in any order,
with success or with an error after any part of the batch was journaled; an
operation it has journaled before always ends in an error, as in `Operation`.
`Reload` loads the page anew: handlers are gone, calls go on, the plan comes
back from sessionStorage. The settings flyout's forms, whose save handlers open
it again after 400 ms, are left out; they add to the race of `OpenSettings`,
which is in.

### License, Lease and Routing

State: `now` is the clock, `ent` the entitlement in memory, `cached` the one on
disk, `asking` the command that holds the licence mutex while it waits for the
server. `Ask`, `Grant` and `Fail` are the halves of activate and refresh; a
`Grant` fills the fields an answer leaves out as the code does (a refresh that
names no plan falls back to the entitlement's name, which is no plan), and its
store may fail unnoticed. `Tick` is the wall clock, which goes on and may be set
anywhere. `Restart` loads what `new()` accepts. `IsValid`,
`InGrace`, `Check` and `Enabled` are the functions of the same names.

A command that plans is at a step `pc`, with `left` files to go. `ReadClock`
comes before `LookAtLicense`, which waits for the mutex; then `GatewayAnswers`
or `GatewayFails`, `LoadKey`, `SendToCloud`, `CloudAnswers` or `CloudFails`, and
`ClassifyLocally`. Beside it the licence goes on, the user saves and clears a
key, and the application restarts. `cfg` is the command's copy of the AI
configuration, as consent or not; no step reads it, as none in the code does.
`shown` and `sentTo` are history: the recipients the status has had to show since
the file's classification began, and those the file was sent to.

### ModelInstall and Index

`ModelInstall`: `file` is the temporary file and the model, `manifest` the
manifest. An installer's open file is followed through renames and removals
(`work[i].at`), as an open descriptor is. `Create`, `Fill`, `Verify`, `Rename`,
`Describe`, `CloseManifest` are the calls of `atomic_install_model`;
`ReadManifest`, `CompareChecksum`, `RemoveModel`, `RemoveManifest` those of
`recover_if_corrupted`. `Decay`, `WriteFails`, `VerifyFails` (the temporary file
cannot be read back, or not be removed) and `KillAll` are the world; the two
removals of a recovery may fail too, and it goes on as the code does.

`Index`: `map` and `order` are `CacheStore`; `known`, `metadata`, `setting` and
`embeddings` are the rows of one file. `Persist` and `Invalidate` begin the calls
of those names, each followed by one action per statement, as none runs in a
transaction; `StatementFails` is a locked database or a full disk, which ends the
call with what it has committed. `Forget` is the removal of the file with its cascade.

Nothing in the shell calls `core/models.rs`, `core/cache.rs` or
`core/watcher.rs` as yet; their properties are about the library as a caller
would find it, with several callers at once.

### Drag

`pressed`, `dragging` and `tracker` are `dragStartedAt`, `isDraggingMascot` and
the interval; `ticks` are the asynchronous ticks that await the position
("cursor") or the window ("window"); `target`, `marked` are `activeTargetWindow`
and `lastOverlayHwnd`; `overlay` is the window on screen, `timers` the delayed
hidings. `Release` is `handleMascotMouseUp`, from an event or from a tick that
finds the button up. `Trackable` and `PathAtPoint` say which folder the shell
finds under the pointer. A scan that a drop starts is an action of `Widget`.

### The functions

`Search` has files by number in the order of their paths; `Watch` paths as
sequences of names; `Folders` a file system as a function of places with links;
`Providers` the provider table and `hybrid_classify`; `Analysis` the
orchestrator's stages, the cache key, the local classifiers, and `extract_json`
over marks, some of them characters of several bytes. What all of them do with lists is in `Lists`: to filter one is to
keep the numbers of some of its elements, in their order (`At`), and to sort is
to order a set (`Ordered`). They hold no state: `Library` calls each with every argument of a
small set (`CallFunction`) and the properties compare the answer with what the
comments of the code promise.

`Library` composes `ModelInstall`, `Index`, `Drag` and the functions. They share
no variable, so that `part` lets one of them move in a behaviour; an
interleaving of two would show nothing that one does not.

## Runs

| Run | Question | Bounds |
|---|---|---|
| `operation_safe` | Does any error, corruption or kill lose a file? Is every step one of `FileStore`? | 1 process, 2 operations, 3 paths, 3 files, 2 user edits |
| `operation_instances` | Do two instances keep the journal complete, and each operation executed once? | 2 processes, 2 operations, 3 paths, 2 files |
| `operation_undo` | Can the newest change always be undone while nothing has failed? | 1 process, 3 operations, 4 paths, 3 files, undo counts 1 and 2 |
| `operation_overwrite` | Is a file ever written over? (It is.) | 2 processes, plans checked by plan_move, no faults |
| `operation_undo_blocked` | Can a failed operation block undo? (It can.) | 1 process, 2 operations |
| `credentials` | Do kills, errors and lost or torn writes break the identity, the entitlement or a restart? | 1 process with 2 threads, 2 modes, 2 identities, 2 I/O errors, or 1 that hits the identity |
| `credentials_race` | Do a process's threads keep each other's stores? (They do not.) | as above |
| `widget` | Is what is on screen what a button sends? Does a carried-out plan return? Do buttons and status recover? | 2 scans, 1 request at a time, plans of 1 operation |
| `widget_view` | Does the active view name what is on screen? (Not the settings.) | 1 scan, 1 request |
| `online` | Does a file go only where the status says? Is the licence one lease? Does a plan end? | 1 command, plans of 2 files, 4 answers, 2 environments, clock from 0 to 2, grace 1, 2 grants |
| `online_consent` | Does a file leave only with a mode that is not local and the opt-in? (Not so.) | as above |
| `library` | Is a model installed atomically, a cached row described by its key, a marked folder the one that is cleaned? Do the functions keep their promises? | 2 installers, 2 versions; 2 connections, 4 analyses, cache of 2; 2 ticks, 2 timers, 7 spots, 3 systems; the argument sets of `MCLibrary` |

Why the bounds are enough. A lost or overwritten file needs two contents, a
contested destination and one process in the middle of a move while the other
moves: two operations and three paths give every such overlap, including chains
(the destination of one is the source of the other) and swaps. Undo needs a
third operation to have a row above and one below the one in question. The
identity needs a second generation, to mix keys of an old and a new one; one I/O
error is followed by another, and none is followed after one that hits the
identity, of which nothing is claimed. The widget's races are between two scan
flows, and between a flow and a request; requests that overlap are left to the
theorems, which hold for any number of them.

In `online`, two files are enough for what is read for one to be used for the
next; the clock passes an entitlement's end, and the end of its grace; two
grants, of answers that make a licence, leave its fields out, cancel it before
its end and withdraw it, give every change the first one can undergo. A second
command would share nothing with the first but the licence, which changes at
every step anyhow. In `library`, two installers of a version with a checksum
and one without meet at every call, and a third contends for nothing new; the
fourth analysis has no embedding, and two share a key; three keys overflow a
cache of two. Two ticks let a late answer pass another. A search has up to
three rows for two files, a burst up to four events, a file system a base, an
alias of it, a folder outside, and links at every place, a routing table two
providers.

Bounds that would otherwise grow without end (edits, identities, scans,
requests under way, undo counts) are constants named in the modules.

CHECK_DEADLOCK is left on in every run: a user can always do something, and no
model can get stuck. Identifiers, processes, paths and files of `Operation` are
interchangeable, so its runs use symmetry, as `library` does for installers and
connections; they check no liveness.

### What the violated runs show

* `operation_overwrite`: README.md:76 and the comment at `core/operation.rs:53`
  say that nothing is overwritten. The check and the rename are two calls, and
  rename replaces an existing file.
* `operation_undo_blocked`: README.md:12 says every change can be undone. The
  row of a failed operation stays "planned"; `latest_ids` picks it first, its
  undo fails, and the executed rows below it cannot be reached.
* `credentials_race`: the comment at `core/secure_store.rs:55` says a global
  per-process lock guards the file. There is none.
* `online_consent`: `core/mode.rs:45` and its test `local_never` say that mode
  Local never tries online, the comment at `core/online.rs:60` that a file's
  content is transmitted only with the opt-in and a valid entitlement,
  README.md:19 and 68 that the network is opt-in and the default path never
  contacts it. `classify_auto`, which the shell uses, takes the configuration as
  `_ai_mode_cfg` and does not look at it.
* `widget_view`: the comment at `src/widget.js:144` calls `activeFlyoutMode`
  the active view. A settings flyout closed while it loads comes up later,
  while the view says "closed", and a click outside does not close it.

`UndoReady`, `DurableWhenSerial` and `SentOnlyWhereShown` state what the code
does keep in place of the second, the third and the fourth.

### What some properties except, and why

The properties say what the code does keep; each exception is something it does
not, and its comment names the place.

* `RecoverySound`: after an installation that stopped between the rename and the
  manifest, the old manifest condemns the good new model. `AtomicUpdate` holds
  for one installer at a time, `SameModelShared` says what remains of it for
  several.
* `IdentityCoherent`: a read or a store of the identity itself that fails leaves a
  process with an identity of which the file has a part, or another one
  (`src-tauri/src/main.rs:91-93` ignore the results). It holds through all other
  errors.
* `BoundEntitlement`, `DurableWhenSerial`: stores that overlap, and errors: a read
  that fails counts as an empty file, which the next store writes back, and
  `store_token` answers Ok when nothing was written. `BoundEntitlement` holds
  through errors that cost only the token stored; `DurableWhenSerial` through
  none.
* `KeyDescribesRow`, `OneEmbedding`: a call that was killed, overlapped or ended
  by an error leaves the key of one analysis beside the rows of another;
  embeddings of an earlier model stay unless the caller invalidates first, with
  success. `SearchOnce` takes as its premise that they have not.
* `Debounced`: events that do not come in the order of their times.
* `SearchFindsNames`: a file found by its name is dropped if it has no embedding
  and no result is any good by its meaning.
* `NoRevival`: a grant whose store failed is undone by a restart, and a clock that
  is set back brings back what had lapsed.
* `SentOnlyWhereShown` follows the status shown to the user, which asks for the AI
  mode or the opt-in as little as `classify_auto` does (`online_consent`; compare
  `HybridPrivate`). The licence may be held against the time read before the
  mutex was waited for, however long ago that is. Clearing the stored key leaves
  one of the environment in force, which the status shows; and where direct access
  is off, a file goes to the local model while the status says "byok".
* `PlanCompletes`: a server that never answers.
* `OnlineOnlyAdds`: `route_with_mode` takes availability from its caller and does
  not ask for the opt-in.
* `KeyTells`: the cache key leaves out the models of OCR and transcription.
* `JsonFound`: `extract_json` cuts four bytes off what follows a fence to compare
  them with "json" (`core/ai.rs:1310`, `1319`), and panics if the cut is within a
  character, as in a fenced answer that begins with two Chinese characters; the
  property says that it does so there, always, and nowhere else in a well-formed
  answer. If the only braces are the wrong way round it panics too.
* `MarkedIsTarget`: late answers, the hiding 350 ms after an earlier drop, and a
  release in the first 120 ms may part the overlay from the target. Also in the
  model, and not held against the code by any doc: after the first press, any
  mouse-up in the widget is resolved as a drop; a window titled like one of the
  user's folders is taken for it; outside Windows the first tick ends the drag.

### Fairness

`Widget` and `Routing` state fairness. In `Widget`, the shell's commands on
local files end, and the script's event loop resumes a handler whose await is
over, so `Scanned`, `Ready`, the intent steps and the requests' steps are weakly
fair, one by one. No fairness is given to the user, to the folder dialog, to the
settings flyout's commands, or to the arrival of a plan: the HTTP clients of the
online tiers have no timeout (`core/ai.rs:984`, `core/online.rs:21`), so a silent
server is waited for without end. `StatusSettles` therefore lets "classifying"
last while a plan is awaited.

In `Routing`, only what waits for no one is weakly fair: a command's own steps
(`OwnStep`). `LookAtLicense` is strongly fair: commands of the user may take the
mutex again and again, but tokio's mutex is first come, first served. No server
is assumed to answer, and no request to fail: neither the gateway, nor the
provider of the key, nor the licence server, whose answer is waited for with the
mutex held. `PlanCompletes` therefore says that a plan ends or waits for ever for
one and the same answer, its own or the licence's; what it rules out is that the
mutex, a fallback or a withdrawn licence keeps a plan going round or out.

## Proofs

Every theorem holds for every value of the constants that meets the module's
assumptions. TLC checks those assumptions on the instances of the runs; the
inductive invariants below were checked as invariants of those instances before
they were proved.

| Theorem | Property | Extra assumption |
|---|---|---|
| **`Operation_proofs`** | | |
| `TypeCorrect` | `TypeOK` | |
| `DisplacedFilesAreJournaled` | `Accounted` | none: any number of instances, faults, interference |
| `ExecutedAtMostOnce` | `AtMostOnce` | |
| `NoFileLost` | `NoLoss` | `SoleWriter` |
| `ExecutorImplementsStore` | `ImplementsStore` | `SoleWriter` |
| `NewestRowCanBeUndone` | `UndoReady` | `Undisturbed` |
| **`Routing_proofs`** | | |
| `LicenseTypeCorrect` | | |
| `LicenseImplementsLease` | `ImplementsLease` | |
| `OffStaysOff` | `NoRevival` | |
| `OnlineIsLicensed` | `EnabledIsLicensed` | |
| `OnlineIsLicense` | `OnlineSpec => LicenseSpec` | |
| `OnlineImplementsLease`, `OnlineOffStaysOff`, `OnlineOnIsLicensed` | the three above, of `OnlineSpec` | |
| `RoutingTypeCorrect` | `RoutingTypeOK` | |
| `FilesGoWhereShown` | `SentOnlyWhereShown` | |
| **`Widget_proofs`** | | |
| `WidgetTypeCorrect` | `TypeOK` | |
| `ShownPlanIsPending` | `ShownIsPending` | |
| `CarriedOutIsGone` | `NotOfferedAgain` | |
| **`Credentials_proofs`** | | |
| `CredentialsTypeCorrect` | `TypeOK` | none: any number of instances |
| `IdentityIsWhole` | `IdentityCoherent` | `OneInstance` |
| `EntitlementIsBound` | `BoundEntitlement` | `OneInstance` |
| `SerialStoresLast` | `DurableWhenSerial` | `OneInstance` |
| **`ModelInstall_proofs`** | | |
| `InstallTypeCorrect` | `InstallTypeOK` | |
| `UpdateIsAtomic` | `AtomicUpdate` | |
| `RecoveryIsSound` | `RecoverySound` | |
| `InstallationRepairs` | `InstallRepairs` | |
| `SameModelIsWhole` | `SameModelShared` | |
| **`Index_proofs`** | | |
| `IndexTypeCorrect` | `IndexTypeOK` | |
| `CacheStaysBounded` | `CacheBounded` | |
| `SettingNamesRow` | `KeyDescribesRow` | |
| `OneEmbeddingAtMost` | `OneEmbedding` | |
| **`Library_proofs`** | | |
| `LibraryTypeCorrect` | `LibraryTypeOK` | |
| `PartsKeepTheirPromises` | those of `ModelInstall` and `Index`, of `LibrarySpec` | |
| `MarkIsTarget` | `MarkedIsTarget` | |
| `OnlineAddsOnly` | `OnlineOnlyAdds` | |
| `HybridStaysPrivate` | `HybridPrivate` | |
| `KeyTellsModels` | `KeyTells` | |
| `JsonIsFound` | `JsonFound` | |
| `SearchedOnce` | `SearchOnce` | |
| `SearchedByName` | `SearchFindsNames` | |
| `DebouncedToEnds` | `Debounced` | |
| `WalkListsAll` | `WalkExact` | |
| `ValidatedIsSafe` | `ValidatedStraight` | |

The extra assumptions. `SoleWriter`: one instance runs and the user leaves the
files alone while a command runs; `operation_overwrite` shows why it is needed.
`Undisturbed`: a sole writer, no faults and no edits between commands either,
which is what `UndoReady` is about: a file the user has put in the place of
another cannot be undone into. `OneInstance`: one process, with both its
threads; two instances that start on an empty file each generate an identity.

`Library` states its own assumptions on the arguments of the functions, one for
each function, and TLC evaluates them on those of `MCLibrary`. They are the
types of the parameters in the code, with no bound on any length: a search has
any finite set of files, rows with any integers for scores, and any limit
(`SearchAssumption`); a burst has any events with a time
(`DebounceAssumption`; that they come in the order of their times is a premise
of `Debounced`, as the code's comment tells what a burst is only then); a walk
has any tree and budget,
and the entries below its base in any order (`WalkAssumption`); a path is
validated against any base in any tree whose links, each followed to its end,
lead to what is there or nowhere (`ValidateAssumption`: this is what a link is
in `Folders`, see `Link`); a routing table is a vector of providers
(`RouteAssumption`) and an answer a string (`ExtractAssumption`).

Two assumptions of other modules are used by proofs only. `IndexAssumption` says that
analyses under one key have embeddings of one model: the key is made of the
model's name (`core/analysis.rs:96`). `DragAssumption` says that the windows at
a point are listed one after the other and that no folder window has the handle
that stands for none.

### The arguments

`Operation`. None of the properties is inductive by itself, `TypeOK` included:
a step indexes the plan and the rows with the operation a process holds, so
`TypeInv` adds `WellFormed` (whatever a command works on is planned, and an
operation in progress has a row). For `Accounted` the strengthening is
`BuffersKnown`: no contents on disk or in the buffer of an open copy is a file
that has not come into being yet, so a new file of the user is distinct from
everything the rows account for; with `WellFormed`, every write of the executor
goes to a path a row names. For `AtMostOnce` it is that an operation without a
row has moved nothing; the lemma `ExecutionsContinue` shows that only `Record`
starts an execution, and its INSERT needs a fresh key, so the first INSERT is the
only door into the execution. For `NoLoss`, `InMove` follows the sole writer
through a move: after the check the target is free and the origin occupied, the
pre-hash is what is at the origin, while a copy runs the origin is whole, and the
origin is removed only when both ends agree. The refinement uses the same
invariants: every step maps to a relocation, a duplication, the drop of a spare
copy or a stutter of `FileStore`, and every action of the user to `User`.

`UndoReady` speaks of the newest row only, but when that one is undone, the next
must be ready. `ReadyInv` therefore keeps the whole journal as a history: for
each path, the rows not undone that name it tell, in the order of their numbers,
what has lain there; each fits on what the row below left (`Fits`), and the top
one says what lies there now (`History`, `OnTop`). Two rows of one path so
guard each other's places, which is why undoing in any other order than the
journal's would fail. In the middle of a move the files are read as if it had
not begun (`Was`). A batch that has failed ends the argument, as it does the
property (`Failed`).

`License`. `EnabledUntilDeadline` shows that `is_online_ai_enabled`, made of a
validity, a grace and a period that each ask the clock, is `t < Deadline(e)`. For
the types, `RefreshOfSome` is needed: a refresh takes the status of the
entitlement in force, so there must be one when its answer comes. A step of the
licence is then one of `Lease`: a tick lets time pass, a grant sets the deadline
and its copy, a restart goes back to the copy. `OffStaysOff` needs `StoredInv`:
while no store has failed, a restart finds the entitlement in force or nothing;
and a tick that does not set the clock back cannot turn online AI on, as the
deadline is on one side of the clock or the other.

`Routing`. Every step is one of the licence or leaves it alone, so that the
theorems of `License` hold of `OnlineSpec`. `SentOnlyWhereShown` needs that
`shown` has what the status would show now (`ShownAt`) of every command whose
file is being classified, and the cloud from the reading of the key on, though
the key may be gone by the time the file is sent.

`Widget`. `ShownIsPending` is inductive with the types, as a flyout is hidden by
every handler that replaces the plan. `NotOfferedAgain` needs `PlansMade`: the
plan that is pending, in a request or carried out came from a scan that has
answered, and a scan answers once.

`Credentials`. `Identities` follows the identity through start-up: before its
three stores the file has none of it, after each of them the keys stored so far,
and what a store in progress has in its buffer agrees. A kill or an error in
mid-write leaves the file empty or garbled, and a failed read an empty map to
write back: the identity goes as a whole, which is why `IdentityCoherent` needs
no premise but that its own reads and stores succeed. For the entitlement the
premise is stronger: after a loss, the entitlement still in memory may be stored
again without the identity, and meet another one at the next start. `Stores` says the same of entitlement and mode:
what is in memory is in the file, or in the list of stores still to be done, and
the buffer of one thread knows what the other has stored unless they overlap.

`ModelInstall`. `AloneInv`: with one worker, the file it writes is its own, and
what it has verified is what it renames. `UncutInv`: if nothing was cut short,
the manifest is that of the model except between the two; a recovery that could
not remove a file leaves model and manifest as they were or without one of them. `SharedInv`, for several installers of one version: every open file
will be filled with it, and the manifest is of it or about to be written.

`Index`. `KeyInv` and `EmbeddingInv` say at which statement of a call which row
is whose; the second is what lets a caller that invalidates first rely on one
embedding. The cache's bound needs that `retain` on the order drops exactly one
key and keeps the rest, which is a fact about a recursion. It is proved by
induction all the same: the library's well-foundedness of `<` on the naturals,
which takes a set and not an operator, gives `SetInduction` in `Listing_proofs`.

`Library`. The parts share no variable, so that each part's specification is
implied. `MarkedIsTarget` rests on `DragInv`, which says of every tick under way
and every timer what it may still do to the overlay. Of the functions,
`AnswerInv` says that an answer is the value of the function at the argument;
what remains is about the function: `BestIs` and `BestOfMore` for `Route` (the
best of a larger choice is no worse), `HybridAsksWithConsent` for
`hybrid_classify`, `ObjectIsFound` for `extract_json`, whose `FirstAt` and
`LastAt` are characterised first and then followed through cutting and dropping.

`Listing_proofs`. The functions that fold, sort and filter come down to three
facts about lists, proved once. `FoldLeft` is a recursion over the sets of
numbers that are left when the greatest is taken away; `FoldExists` shows by
`SetInduction` that this recursion has a solution, and `FoldGoes` that the
values it goes through are those of the loop in the code: the first is the base,
the last the result, and each comes from the one before by one turn. A loop
invariant then is an induction along these values. `Ranks` shows that in a
finite set with an order each rank has one element, so that sorting gives each
element once and in order (`NumbersOrdered`, `OneOrder`); it is proved by
counting what comes before. `Kept`, of filters, follows: a filter is the
increasing list of the numbers it keeps.

* `WalkExact`: after k entries the walk has listed the files among them, each
  once, or there are more of these than the budget has (`IsListing`, kept by
  each turn). The order of the entries never counts, as what is compared at the
  end is a set and its size.
* `Debounced`: the results are, in order for each path, the ends of its bursts
  among the events read (`AreEnds`). The strengthening over the property is that
  the end of a burst is told apart by every later event of the path and not the
  next one only (`EndsBurst`), which is where the order of the times is used; an
  event then joins the one result of its path that it fits, the last, or begins
  a new one. `debounce_events` and the widest window both keep the last event of
  each path.
* `ValidatedStraight`: `Real` places, which are there with nothing but folders
  and no link above them, are where they say; a step from one leads to another or
  nowhere, so every path leads to one or nowhere. What passes `LinkBelow` under a
  real base has no link on its way, hence is real as far as it is there, and is
  accepted again as itself.
* `SearchOnce`, `SearchFindsNames`: `Merge` lists each file once and, as a list
  with each element once is no longer than what it is made of (`OnceFits`), the
  limit leaves none out when it has room for all. Sorting by scores moves files
  but neither loses nor repeats one. Where the results by meaning alone take the
  place of the merged ones, all of those are weak, the second conclusion.

### What is only model-checked

* Liveness under fairness (`PlanCompletes`, `ButtonsRecover`, `StatusSettles`),
  which is out of the prover's reach with ENABLED.
* The five violated properties, whose counterexamples TLC gives.

## Plan

Everything that is planned is modelled, and every safety invariant and action
property a passing run checks is proved. A change of the code changes the
definitions `PROJECT.json` maps its lines to; the runs come first, then the proofs.

## Not modelled

* What is computed rather than controlled: the inference of the models (a vector,
  a category or a failure), text extraction, the parsing of a query into its
  filters, the keywords of intents, hardware probes, the mascot's mapping.
* Presentation and platform: sizes, positions and focus of windows, animation,
  docking, sound, the ripple of the overlay, demo mode.
* Code the shell as built does not reach: the keyring back end, the in-memory
  store of the tests, `delete_token`, `LicenseManager::clear`, the signature of an
  entitlement (the server sends none), `follow_symlinks`.
* Too simple to go wrong in a way a model would show: `LazyModel` (a cell set
  once), `is_unchanged` (a comparison of a hash), the fixed table of models, the
  bridge's wrappers, types and errors.
* What becomes of a path between `validate_path` and its use: `Operation` starts
  from the path, and lets anything happen to the files.
* That `clear_byok_config_cmd` ignores a failed store: for the classification a
  key that was not cleared is one that nobody tried to clear.
