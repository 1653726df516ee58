# Scene Vault: verification

Scene Vault is a Windows desktop program that watches the screenshot
directories of games, lets the user say who or what is on each picture, runs a
face recognition engine over it, and archives the result to a directory that
may be on a NAS. This directory holds TLA+ models of its Rust services
(`src/src-tauri/src/services`), the TLC runs that check them, and TLAPS proofs.

## The system

    screenshots on disk ──discovery──► capture_items (SQLite) ◄──commands── Vue pages
                                          ▲     │
                                  worker loop   ├─► vision engine (Python child)
                                          │     ├─► capture-output cache (annotated copies)
                                          └─────┴─► archive directory (local or NAS)

| Component | State it keeps | Operations | What makes it correct |
|---|---|---|---|
| Capture pipeline (`capture_service`) | one row per screenshot: `status`, `classification`, `character_id`, failure and retry columns, archive columns, source identity | register, label, relabel, requeue, retry, claim, complete, fail, purge | a row follows one path at a time; a label is not changed under work in progress; nothing is stuck; archived history survives |
| Worker (`capture_worker_service`) | one task, no durable state | sweep, archive one, process one, pre-label one | every job ends in a result or a recorded failure; one job does not block the others |
| Item lock (`capture_operation_service`) | a mutex per (database, id); `operation_owner`, `processing_version` in the row | `lock`, `ensure_available`, `validate_result` | commands on one item exclude each other; results computed for an older version are dropped |
| Archive (`capture_archive_service`, `archive_output_settings_service`) | destination files, destination columns, `capture_archive_fingerprints` | name, check, copy, check again, rename, verify, record, commit, retire the old destination; scale and convert | never overwrites or removes a file it does not own; the recorded hash is that of the file; the recorded facts are those of the picture |
| Reset (`capture_reset_service`) | jobs in memory, `operation_owner` in the row | preview, execute per row, clean up, discard, recover | takes back only what the preview showed; never touches another capture's files; a failure leaves the row usable |
| Deletion (`capture_deletion_service`, `project_service`) | rows, `ignored_capture_contents` | delete a capture, a character, a project | files are removed only when recorded as ours; deleted content does not come back |
| Discovery (`capture_discovery_service`, sessions in `capture_service`) | sessions, directories, baselines, known paths and hashes | poll, check, import, register; start, pause, end a session | nothing half written, removed by the user or of an ended session is registered; what is older than the session waits |
| File checks (`project_file_reconcile_service`, `file_relink`) | source and destination states, fingerprints, assets | scan, compare, relink, store verdicts | a row is bound only to its own content; "missing" is said only of what is missing |
| Recognition (`recognition_service`, `capture_roi_service`, `character_service`) | faces, samples, suggestions | extract, enrol, suggest, review, rebuild, merge, frame a region, switch the recognizer | samples follow the current label and region; a suggestion names somebody else |
| Face repair (`capture_face_repair_service`) | one global slot | acquire, preview, probe, queue again, cancel | one repair at a time; the counts are true |
| Vision worker (`vision_engine_service`, `vision_worker_service`) | one child process behind a mutex | start, call, time out, stop, fall back, shut down | an answer belongs to its request; every request ends |
| Data maintenance and start-up (`data_maintenance_service`, `lib.rs`) | backups, staged restore, snapshot | back up, stage, apply, roll back at start | a start installs a whole backup or changes nothing |
| Notes (`notes_service`) | content, sync state, remote file | open, save, sync, back up | neither the user's text nor a foreign edit is lost |
| Manifest (`archive_manifest_service`) | pending requests, `project.json` files | request, rebuild | the manifest says what is archived |
| Engine bridge (`renpy_bridge_service`, `renpy_screenshot_settings_service`) | files in the game directory, integration rows, a policy file | install, uninstall, inspect, choose, publish | foreign files stay; a failure is undone; an uninstall leaves nothing |
| Engine metadata (`engine_metadata_service`) | sidecar files | attach, retry, discard | each capture is told what is about its own picture, once |
| Thumbnails, usage, logging, monitoring | derived data | | |

What is hard here is concurrency without a common lock: the worker claims and
updates rows with guarded SQL only, commands hold the item lock, the sweep,
checks and project deletion hold nothing, files change outside the program, and
the process may die anywhere. `PROJECT.json` lists these hazards at their
lines, with the properties that cover them. Three of the list have none, and
say why: archived history that a requeue exposes to the purge and a source
replaced between validation and copy are disagreements described below, and
the write of another program in the instant before a rename is what no code
can see.

## Modules

| Module | Contents | Code |
|---|---|---|
| `CaptureLifecycle` | the life of `capture_items` rows: worker, commands, reset, deletion, faults; the inductive invariant `Consistent` | `capture_service`, `capture_worker_service`, `capture_operation_service`, `capture_reset_service` |
| `ArchivePromotion` | the files of the archive directory and their fingerprints: archive, deletion, the user, crashes; the inductive invariant `Guarded` | `capture_archive_service`, `capture_deletion_service` |
| `ArchiveOutput` | size, format, quality and recorded facts of an archived picture: a pure algorithm | `capture_archive_service`, `archive_output_settings_service` |
| `ResetCleanup` | jobs, previews and the removal of files by a reset | `capture_reset_service` |
| `Discovery` | how screenshots become rows: poll, file check, import, sessions | `capture_discovery_service`, `capture_service` |
| `FileReconcile` | the file checks of a project and of a session | `project_file_reconcile_service`, `capture_discovery_service`, `file_relink` |
| `FaceBank` | faces, samples and suggestions | `recognition_service`, `capture_roi_service`, `character_service`, `vision_settings_service` |
| `FaceRepair` | the repair of face boxes | `capture_face_repair_service` |
| `VisionWorker` | the resident engine process and the fallback | `vision_worker_service`, `vision_engine_service` |
| `AtomicRestore` | what a restore promises, without files | |
| `DatabaseRestore` | backup, staging, swap, roll-back; refines `AtomicRestore` | `data_maintenance_service`, `lib.rs` |
| `NotesSync` | the note of a project and its file | `notes_service` |
| `ArchiveManifest` | requests for manifests and their rebuilding | `archive_manifest_service` and its callers |
| `RenpyBridge` | the bridge in a game directory | `renpy_bridge_service`, `renpy_screenshot_settings_service` |
| `EngineMetadata` | sidecars of screenshots | `engine_metadata_service` |
| `Mirrors` | the four services above side by side | |
| `MCCaptureLifecycle`, `MCArchivePromotion`, `MCResetCleanup`, `MCDiscovery`, `MCFileReconcile`, `MCFaceBank`, `MCDatabaseRestore` | instances for TLC | |
| `MCEngine` (`VisionWorker` and `FaceRepair`), `MCMirrors` (`Mirrors`) | instances of services that share no state: `service` says which one a behaviour is of | |
| `CaptureLifecycleProofs`, `ArchivePromotionProofs` (also of `ArchiveOutput` and `DatabaseRestore`), `ResetCleanupProofs`, `DiscoveryProofs`, `FileReconcileProofs`, `FaceBankProofs`, `EngineProofs` (`VisionWorker`, `FaceRepair`), `MirrorsProofs` | proofs | |

How they compose. `CaptureLifecycle` is the row, with files reduced to what is
behind a path; `ArchivePromotion` and `ResetCleanup` open its two steps that
change files and reduce the row to what these steps ask of it.
`ArchivePromotion` takes the result of `ArchiveOutput` as an output, and
`MCArchivePromotion` checks both. `Discovery` opens registration, `FileReconcile`
the verdicts on files, `FaceBank` enrolment and suggestions after processing.
`VisionWorker` stands behind every engine choice of the others. `Mirrors` puts four
services beside each other, each an instance with variables of its own: none reads
what another keeps, and the theorems say so of their steps. To keep the number of
states down `MCMirrors`, like `MCEngine`, lets a behaviour be one of a single service.

Conventions in every module: a command whose whole effect is one guarded UPDATE
or one transaction is one action, and work that waits (for a file, the engine,
a lock, another transaction) is split at the waits, so that anything else may
run between. `Budgets` is a set of scenarios `[ops, left]`: which commands,
edits and faults may happen, and how many of them; what the program does by
itself costs nothing. A scenario is chosen at the start. Operators marked
`Wrong on purpose` are mutated forms of single definitions which no behaviour
uses; each shows that a property notices a plausible mistake.

### How `CaptureLifecycle` corresponds to the code

*State.* `row[i]` is the row of capture `i` with the columns the pipeline
decides by; paths are abstracted to what the file behind them contains
(`Bytes`: nothing, the content the row was registered with, other content).
`annotated` and `drawnFor` say from which content and with which name the
annotated copy was made; `dest` what was archived. `scene` and `private` are one
class, `other`: the pipeline treats them alike. `due` is the comparison of
`next_retry_at` with the clock. `lock[i]` is the async mutex of
`capture_operation_service::lock`; `preview[i]` the snapshot a reset job keeps;
`copied[i]` what a running archive has already promoted; `sweep` the list
`sweep_missing_sources` selected; `worker` the position of the background task,
its item, and the content the engine read. Ids are numbered in order of
`captured_at`, which is how the worker's queries sort.

*Atomicity.* A command whose whole effect is one guarded UPDATE under the item
lock is one action. Work that waits for files or for the engine is split at
the waits: the worker between claim, source check, validation, engine, result
and archive; an archive between its start, the copy and its commit; a reset
between comparison, claim and commit; the sweep between its SELECT and each
DELETE; the failure of an archive and the scheduling of its retry. The worker
holds the item lock only where the code does: from `ArchiveBegins` to the
commit or failure, and while a feature is extracted before labelling.

*Update statements* (`Labelled`, `Reprocessed`, `Claimed`, `Processed`,
`MarkedFailed`, `RecordedFailure`, `RetryScheduled`, `Archived`, `ResetRow`,
`Purgeable`) are functions of the row, one per SQL statement, used by every
action that executes the statement.

*Abstractions and limits.*
- Database errors (a full disk, a busy timeout) are not modelled; a row that
  is gone is, because a project deletion takes no lock.
- The sweep's limit of 200 rows is left out. Recognition deferred to a later
  import, the manual face region, enrolment and suggestions are in `Discovery`
  and `FaceBank`.
- `relabel_capture_item` may also be refused by `verify_legacy_outputs`; that
  refusal changes no state and is left out, as are refusals in general.
- Deletion of a character's captures is the deletion of each (`FaceBank` has what
  becomes of the character's suggestions); the destination
  files and their states are in `ArchivePromotion` and `ResetCleanup`.
- A source file may vanish, be replaced, and be put back, each at any moment. What the
  engine read of other content is "unseen" once the file is the registered one again.
- A row is registered under a new UUID, so `RegisterCapture` reuses a model id
  only when no actor refers to it any more.
- The IPC commands that mirror the worker's own transitions
  (`complete_capture_processing`, `mark_capture_failed`) have no caller in the
  user interface and are not separate actions.

### How `ArchivePromotion` corresponds to the code

`CaptureLifecycle` knows of an archive that it copies something and commits.
This module opens that step: it keeps the files and the hashes and reduces the
life of the row to what archive and deletion ask of it.

*State.* `files[p]` is what is at path `p` of the archive directory, `row[i]`
the destination columns and their states, with `status` reduced to pending
(queued up to `archive_pending`), failed, completed and gone, and with the
outputs processing made (`want`). `prints[i][p]` is
`capture_archive_fingerprints`. `job[i]` and `del[i]` are the locals of a
running `archive_inner` and of `capture_deletion_service::execute`: where each
is, which output or destination it is at, the snapshot of the destinations
(`was`), the hash it may replace (`before`). `disturbed` is a history variable:
paths changed by the user or by a deletion.

*Actions.* One per stretch between two looks at the disk or the database:
`Resolves` (name, repaired name for a legacy target, `previous_archive_hash`),
`Checks`, `Rechecks`, `Promotes`, `Verifies`, `Records` for each output,
`Persists` (up to COMMIT), then `Retires` and `Recycles` for each old target.
`ArchiveFails` is any error before the commit. A deletion is `DeleteBegins`,
`DeleteChecks` and `DeleteRemoves` for each destination, `DeleteFinishes`; its
transaction stays open meanwhile, so other writers wait (`WriterFree`).
`DeleteProject` takes no item lock. `UserEdits` and `Crash` may happen anywhere.

*Abstractions and limits.*
- A hash is its content, and a check that hashes a file is one step.
- The source of a job is fixed while it runs; that it may change is the subject
  of `CaptureLifecycle`.
- A rendered name is any name of the directory for that output, because
  template, character, `{seq}` and reset generation all change it. Names of the
  avatar directory and of the others never coincide.
- References to a target from assets of other projects only make
  `previous_archive_hash` refuse more; they are left out. Target states
  `unknown` and `available` are one.
- The files named `*.partial` have fresh names and are left out.
- A deletion does not ask whether another capture names the same file, and
  removes it if its own fingerprint agrees. The model does the same: such a
  path counts as disturbed for the other capture.
- Moved destinations are in `FileReconcile`, the clean-up of a reset in
  `ResetCleanup`.

### How `ArchiveOutput` corresponds to the code

Operators, no state. `Resolved` is the policy in force (`resolve_spec_for_project`:
project over global settings, anything not offered falls back), `NeedsResize`,
`Reencodes`, `ScaledWidth` and `Written` are `prepare_archive_source`,
`SizeApplied`, `FormatApplied` and `QualityKind` the facts stored about the
result. A picture is its width, height and format. The code computes the width
in f64, the model exactly: for the sizes of pictures the two agree except on a
tie of the rounding. The properties are stated as operators and evaluated over
small pictures by an `ASSUME` of `MCArchivePromotion`; the theorems have no
bound. Encoders, templates and the bytes are left out.

### How `ResetCleanup` corresponds to the code

*State.* `job`, `order` the registry `JOBS` with its limit; `run[j]` the locals of
an executing job (position, picture, file, the references read for this picture);
`row` the columns a reset compares and clears; `files` the identity of what is at
a path. `removed` is a history of destinations resets removed, `took` of archives that
were there already, identical, and that a row took for its own while a reset ran.

*Actions.* `PreviewBegins`, `PreviewItem` (one per picture, under its lock),
`PreviewEnds` (`store` with `prune`); `Discard`; `Executes`, then per picture
`Claims` (compare with the snapshot and claim), `Indexes` (`ReferenceIndex`),
`Checks` and `Removes` per file, `Commits` or `Fails`, and `Ends`. Beside them
`Relabels`, `Archives` (a new file, or over the capture's own), `Adopts` (an identical
file that is there already), `UserEdits` and `Restart`.

*Limits.* The 2000 items of a job, links in paths, and the list of skipped
pictures are left out. The user does not edit a file in the instant between its
last check and its removal. After a crash in the middle of a clean-up the row
still names the removed files until a file check runs; `ArchiveTruth` is about
removals since the start.

### How `Discovery` corresponds to the code

*State.* `disk[p]` a file with content, modification time `s` as the file system
tells it and `b` when it was written; contents in `Half` are images still being
written. `rows` by content, which is the unique index; `sess` the latest session
with its attached directories and their baseline; `pass[a]` the locals of one
`discover_with_options`, import or `register_capture`; `worker` one
`validate_source_identity`.

*Actions.* A pass scans, waits for the stability delay (`Waits`), samples again
(`Resamples`), decides per path (`Decides`, `Refreshes`, `Replaces`), reads the
file once more (`Reads`), inserts (`Inserts`), and closes (`Closes`) with the
archived rows whose file is gone. The watcher only triggers a poll. Sessions:
`TakesBaseline`, `StartsSession`, `EndsSession`, `AddsDirectory`; others: `Deletes`,
`Archives`, `Sweeps`, `Validates` and `Records`. `mode` distinguishes poll, file
check, import and registration by a command.

*Limits.* One project; every path lies in a directory of its own. Events, image
facts and the reading of metadata (`EngineMetadata`) are left out. `Waits` assumes
that a writer gets on during the stability delay: one that stalls longer is left out.

### How `FileReconcile` corresponds to the code

*State.* `file`, `up` (directories that answer), `project` (its destination and the
source directories that are enabled, with histories of both), the columns of `capture_items`
about sources and targets, `prints` (fingerprints by capture and path), `asset`,
and `chk[c]`, the locals of one check. `held` and `gone` are histories: which content
was ever where, and where there was no file.

*Actions.* `Begins`, `Scans` per root, `ChecksSource` and `HashesSource`,
`HashesCandidate`, `Resolves`; per target `ChecksTarget`, `ChecksRoot`, `ChecksPrint`,
`ScansArchive`, `Relinks`; then `Commits` (a project check, one transaction) or
`Stores` (a session check, row by row). Both store only on rows that still name
what was looked at. `Begins` takes the destination and the enabled directories as they are
then; `Enables` and `Redirects` (`set_source_directory_enabled`, `set_destination_directory`)
change them before or during a check, and `ChecksRoot` asks the destination that was read,
wherever the target is.

*Limits.* Image facts and the request for a manifest that follow are left out
(`ArchiveManifest` has the request). An archive here is one step.

### How `FaceBank` corresponds to the code

*State.* `row`, the primary `face`, `sample[c][i]`, the recognizer of the settings,
the item locks, and `call[p]`: which kind of call `p` makes (`kind`), its next step
(`op`), the capture it is about (`at`), those its loop still has (`rest`), and its
locals. `gone` are the captures whose row was deleted, `removal[c]` those that
`delete_character` found for `c` and whose locks it waits for. `banked` is
`recognition_source = 'face_bank'`.

*Programs.* `Program[kind]` is the order of the steps of a call, each one read or one
transaction, from taking the item lock, where the code takes it, to dropping
it; `Goes` is the loop of a rebuild or a batch. Enrolling (`enroll_face_sample`) is
`ReadsItem`, `ReadsFace`, `ReadsVerified`, `Enrol` in every program that has it,
suggesting (`suggest_from_face_bank`) is `Clears`, `Matches`, `Suggest`, extracting is
`Begins` (or `Prelabels`, `Rebuilds`) and `Stores`. An early return or an error goes on
at `release` (`Leaves`, `Ends`). `Claims` and `Picks` start the worker's programs,
`Commands` those of the pages. Merging, flagging and revoking are single statements.

*Deletion.* `Loads` lists the captures of a character, `Deletes` is the transaction behind
their locks: it reads the captures again, so one labelled meanwhile goes too, refuses if
one of them is busy, and takes faces, samples (ON DELETE CASCADE) and the suggestions of
other captures (ON DELETE SET NULL) along. A call whose row is gone ends (`Vanishes`).

*Limits.* A vector is known by region and model. Which character is most alike is
left open, as are thresholds and the lists of the workbench. `Deletes` finds all the locks
of its list free at once, the code takes them one after the other. The deletion of one capture
alone is in `CaptureLifecycle` and `ArchivePromotion`.

### How `VisionWorker` and `FaceRepair` correspond to the code

`VisionWorker`: `req[r]` is one call of `request`, from waiting for the mutex
(`Locks`) over `Prepares` (settings, cooldown), `Spawns` with its hello, `Asks` and
`Reads` to `Stops`, `FallsBack` and `Alone` (a process of its own). `proc` is the
child with the lines it has still to read and those it has written; it may
answer, babble, die or do nothing. Two positions (`helloBusy`, `readBusy`) are on
the way back to `select!` and hear no notification. All waits of a request share one budget,
so a wait may run out at any time, and afterwards nothing is left for the next.
Payloads, the health page, forced one-shot mode and the size limit of a line are
left out.

`FaceRepair`: `slot` is `STATUS`, `job[t]` the future holding a `Reservation`, which
may be dropped at any await (`Cancels`). A box is its rank: a better one stands
for a materially larger and more confident one.

### How `DatabaseRestore` corresponds to the code

*State.* Main file and write-ahead log of the live database (`main`, `wal`), the
staged copy and the request with its hash (`pending`, `marker`), the snapshot
(`pre`, `preWal`), one backup with its manifest, and the position of the
application in its start. A log belongs to the main file it was written for.
`prev` is a history: the database when it was last in use.

*Actions.* One per file operation: `ChecksStaged`, `SnapshotsMain`, `SnapshotsWal`,
`DropsWal`, `Swaps`, `Validates`, `Clears`, `Opens` or `Rejects`, and the roll-back
`UndoesMain`, `UndoesWal`, `UndoesSwap`, `UndoesSwapWal`, `UndoesClear`. Each may fail
(`Skips`, `GivesUp`, `ReadBackFails`, `UndoFails`) or be cut off by `Kills`; `Damage`
destroys backup or staged copy. A removal whose failure the code ignores leaves the
file (`Removes`, `RemovesBoth`; "stuck", and "stuckLog" where the file is a log): a
file may then be beside the log of another one (`Mixed`), and SQLite may open it or
not. `BackupBegins/Ends`, `StageBegins/Ends/Fails`, `Cancels`, `Write`,
`Checkpoint` and `Stops` are the application at work.

*Refinement.* `AtomicRestore` knows a database, a request and whether the
application is up. `Atomic` maps to it: while the application starts, the
abstract database is the one last in use, and a request whose staged copy is gone is
none. A kill, a failing rename of a roll-back, a log that stays, and a restored
database that cannot be read after its request was removed are outside the promise
(see the disagreements), hence `Unbroken` in `Atomic`. Recovery directory and database are on one volume:
`replace_file` is a rename, never its copying fall-back.

### How `NotesSync`, `ArchiveManifest`, `RenpyBridge`, `EngineMetadata` correspond to the code

`NotesSync`: `note` is the row, `remote` the file, `backup` the backups by second.
A save is `Saves`, `Inserts` or `Updates`, then `write_remote` (`Reads`, `BacksUp`,
`Writes`) and `Marks` or `Counts`, `Fails`; the loop begins at `Picks`. Another program
edits at any time but between the look at the file and the rename.

`ArchiveManifest`: `pending` is the debounced request, `call` the rebuilds under
way (`Reads` the rows once, `Lists` each directory, `Writes`). Every trigger is an
action: archive, reset, rename, merge, a check that misses a file; so is what
changes an archive without one: a label, and a deletion or reset that fails
after the file went (`FailsPartly`). An entry is an item with the name of its character.

`RenpyBridge`: `disk` the three files in one game directory, `row` what the projects
have recorded, `policy` the file the bridges read, `locks` the two mutation
locks. `install` is `Begins`, `Checks`, two `Writes`, `Persists`, `Stages`, `Commits`,
`DropsCompiled`, with `Fails`, `Undoes`, `Unstages` from any of them; `uninstall` is
`Uninstalls`, `Records`, `Removes` per file, `Forgets`, `Publishes`. The user edits a
file only while no command looks at it.

`EngineMetadata`: `sidecar` by directory and name; `try_attach` is `Registers`, `Looks`,
`Inserts`, `Consumes`, and the periodic pass `Lists`, `Retries`, `NextFile`, `Weighs`,
`Confirms`, `Discards`. In its instances a name is used once and nested games
both have the bridge.

## Runs

| Run | Instance | Question and answer |
|---|---|---|
| `lifecycle_all` | 1 capture, 2 characters, every operation, 6 of them | An archive keeps its row (`ArchiveHoldsRow`), reset claims are held (`ClaimHeld`), annotated copies show registered content, or content that was gone again before the second look (`AnnotationOriginal`), a reset removes only what it showed (`ResetOnlyPreviewed`). All hold. |
| `lifecycle_ui` | the same, 7 operations, those the pages offer, no vanishing source | A row in `processing` is the worker's (`ProcessingOwned`); an archived person shows the name of its character (`AnnotationNamesCharacter`). The first does not hold with a source that vanishes, the second with the `archive_capture` command, which no page calls. |
| `lifecycle_settles` | 2 captures, 4 operations, fair | Once users and faults stop, nothing stays queued, processing or archive_pending (`Settles`), without replaced sources and retries (see the disagreements). |
| `archive` | 2 captures, 2 names, 2 commands or faults, one archive at a time | Only recorded files are replaced or removed (`OnlyRecordedReplaced`); an old archive goes after the new one is on disk and committed (`NewBeforeOld`); no command costs another capture its archive (`CompletedIntact`). Also evaluates the properties of `ArchiveOutput`. |
| `reset` | 1 picture with four files, 2 pictures with separate, shared or source-of-the-other archives, either of which may take over what lies in its place; 2 jobs, room for 1; 4 or 5 calls and faults | `RemovesOnlyPreviewed`, `OthersFilesKept`, `ArchiveTruth`, `RunningRegistered`. |
| `discovery` | 2 paths, 2 images that grow in 2 steps, 2 calls, 3 instants; 4 scenarios of 2 commands or faults | `WholeOnly`, `NoneAfterEnd`, `RemovedBefore`, `OldWaits`, `CheckTells`. |
| `reconcile` | 3 sources in 2 directories that may be disabled, 2 destinations, 2 or 3 targets per output; 1 or 2 captures and checks; 6 scenarios of 3 or 4 | What a row says of its files was so when it was said (`VerdictsTrue`); fingerprints and assets follow the targets (`PrintFollows`, `AssetFollows`). |
| `facebank` | 1 or 2 captures, 2 characters, 2 recognizers, worker and 1 or 2 callers; 8 scenarios of 2 or 3, two with a character deleted | `SampleMatches`, `SuggestsOther`, `RegionCurrent`, `DoubtExcludes`. |
| `restore` | 3 databases and a broken one; every failure, removals that are ignored when they fail, and separately every kill; 5 scenarios of 3 to 5 | `NeverMixed`, `PreviousKept`, and the refinement `Atomic`. |
| `engine` | 2 requests and one fault; 2 repairs over 2 captures | `OwnAnswer`, `PermanentOnlyIfMissing`, `NoWorkerAfterShutdown`, `RequestsEnd` (fair); `OneJob`, `CountsExact`. |
| `mirrors` | 2 texts, editors and foreign texts; 2 items, characters, directories; 2 projects in a game directory; 2 games with the same file names | `NothingLost`, `ManifestTrue`, `BridgeOwned`, `UninstallExact`, `SidecarsExact`. |
| `find_lost_database` | a failed swap and a kill | `PreviousKept` fails: killed in the roll-back, the next start removes the only copy of the database. |

*Bounds.* The number of commands and faults of a behaviour is bounded
(`MaxOps`, `left`); what the worker and running calls do by themselves is not. The
bounds leave room for one thing to be done, disturbed, and done again through
another path: in the lifecycle register, label, a disturbance, and a second round
through retry, relabel, requeue or both steps of a reset. One capture suffices
where captures share only the worker; two where they share a target, a queue,
a character or a name. Two callers meet in every pair of steps. Two names, two
directories, two characters are what it takes to move, to be mistaken and to be
corrected. Versions and attempts stay small because only these operations
raise them. The scenarios of a run separate faults that need not meet; which
faults a scenario holds is in the MC module, with the reason. The proofs have no
such bounds.

*What scenarios leave out.* Several properties name operations they do not
cover (`"merge" \notin budget.ops` and the like). In each of these the code departs
from the property, as described below. The operation stays in the run, so that the
other properties are checked with it.

- `restore`: the scenario with kills begins with an empty log, has no other failures
  than those of the roll-back's renames, and stages nothing from recovery mode; with them the state
  of a killed start is any of those described under the disagreements. Kills, failing
  renames of the roll-back, logs that stay and the failing read after the swap are outside
  `Atomic`; logs that stay are outside `PreviousKept` and the first half of
  `NeverMixed`, which claim nothing of the scenario that has them.
- `reconcile`: that a row says "available" only of an output of its last archive is
  claimed for checks that run one at a time and archives that keep their names
  (see the disagreements under *Files*); that a source is available is claimed
  throughout. "Missing" is claimed of a source whose directory was never disabled and of a
  target under the only destination there has been, where no share goes or
  comes back within a check; the scenarios that disable directories and
  change the destination reach the other cases.
- `mirrors`: a behaviour is one of a single service; the theorems are about `Spec`,
  where all four run.
- `archive`: avatars are only proved, not run; two captures with two outputs each
  are too many states.
- `reset`: `ArchiveTruth` is proved for archives outside the cache directories, as they
  are in every instance.

*Deadlock* is checked in the lifecycle and restore runs, where something can always
be done. Elsewhere everything stops once the calls are over and the budget is
spent.

*Fairness.* Only two properties need it. `Settles`: `WF(WorkerStep)` — the loop of
`run` ticks for ever and logs, but survives, every error of a cycle;
`WF(LockedStep(i))` — an archive or reset that holds a lock is a task that runs to
its end; `WF(RetryFallsDue(i))` — time passes. `RequestsEnd`: `WF(Request1(r))` — a
request is a task that runs; `SF(TimesOut(r))` — each wait has a timer, which
expires; `SF(Locks(r))` — the tokio mutex serves its waiters in order;
`SF(ShutdownEnds)` — the exit takes the same mutex. Users, files, the engine and crashes
get no fairness.

## Disagreements

Where the code departs from what its documents and comments say. The first one
is a run; the others were seen as counterexamples of the same modules, with
the operation named in parentheses added to the scenario or to the property.
Line numbers are of `src/src-tauri/src/services` unless said otherwise.

*Database* (kills in `DatabaseRestore`). A kill in a roll-back after a failed swap:
the next start removes the snapshot, the only copy left
(`data_maintenance_service.rs:637`, called at `:418`; run `find_lost_database`). A kill between the
removal of the log and the end of the request: the next start snapshots the
main file without its log (`:419`). A kill between swap and opening: the
restored database counts as any other, without a roll-back (`lib.rs:131`). A kill in the
roll-back of a start: the next one goes on with an empty database (`lib.rs:45`).
A staged copy that is missing or damaged is refused by every later start while
the request stays (`:403`), and the rest of an interrupted
staging blocks the next (`:312`). The removal of a log is ignored when it fails
(`:419`, `:638`, `:684`, `:905`; "stuckLog"): the swapped file, the snapshot or the file put back
then lies beside the log of another database. Once the request is removed, a restored database
that cannot be opened to read its versions (`:456`-`:465`; "readBack") counts as
not restored (`lib.rs:135`): the start uses it, and a rejection is not rolled back.

*Lifecycle.* A degraded completed row that is retried and whose source vanishes
after the claim stays in `processing` until the next start
(`capture_worker_service.rs:101`; "missing" in `lifecycle_ui`). Requeueing clears
`archived_at`, so archived history is purged when its source disappears
(`capture_service.rs:1249`). A source that is replaced and put back between the two validations is
annotated as if it were the registered one (`capture_service.rs:1396`; "unseen" in
`AnnotationOriginal`). A source replaced between validation and copy is archived
under the old row (`capture_archive_service.rs:387`). A waiting archive whose source was
replaced is refused in every cycle, counts no attempt and is served first, so
nothing behind it moves (`:74`; "replace" in `lifecycle_settles`).

*Archive.* Two archives at once may find the same new name free, and the second
rename replaces the file of the first (`:1304`; `Concurrent = TRUE`). The worker alone
never does.

*Reset.* The references of the other captures are read once per picture
(`capture_reset_service.rs:873`). An archive that then finds an identical file in its
place takes it over (`capture_archive_service.rs:1182`), and the reset removes it: the
other row goes on naming it, and says that it is available, until a check. `took`
excuses exactly these rows in `OthersFilesKept` and `ArchiveTruth`.

*Engine.* The exit notifies waiters without a permit: a request on its way to
`select!` is not cancelled (`vision_worker_service.rs:407`). The fallback has only
the time the worker attempt left, so a request that timed out fails
(`vision_engine_service.rs:500`).

*Faces.* A rejection enrols without the item lock, for a character a correction has just
replaced (`recognition_service.rs:293`; "anchor"). A failed person capture labelled a scene
keeps its sample (`capture_service.rs:1043`; "scene"). The worker may process a capture between its
labelling and its enrolment, which then writes the vector of the older face (`:1026`).
Deleting a character leaves the captures it was suggested for waiting for a review of no
suggestion (`capture_deletion_service.rs:366`, migration `0020:45`) until the face bank is
asked again; `SuggestsOther` allows exactly these. A merge may leave a capture with a suggestion of its own character
(`character_service.rs:214`; "merge"). When it removes the character of a label whose
enrolment is under way, the enrolment fails, which a label ignores
(`capture_service.rs:1026`), and the sample the capture had from before a failed run stays: of another
character, and not flagged although the label is ("label" with "merge"). A rejection that
read the verdict before a label changed it writes its sample unflagged ("label" with
"anchor"). A rebuild unmarks samples it had to remove
(`recognition_service.rs:1193`) and activates revoked ones (`:848`). The pre-label pass
stores a vector of the recognizer just switched away from
(`vision_settings_service.rs:189`). A repair may queue a capture that was processed again meanwhile
(`capture_face_repair_service.rs:429`).

*Files.* A check asks the enabled source directories and the current destination only.
Of a source in a directory that is disabled and offline it says "missing"
(`project_file_reconcile_service.rs:160` counts enabled directories), and of a target
under an earlier destination that is offline as well
(`capture_discovery_service.rs:685`), against the comment at `:528`: target-root failure
is "never ... a mass deletion or missing-file conclusion". A source directory that goes away after its scan makes all its sources
missing (`project_file_reconcile_service.rs:158`), and a share that comes back
between two looks makes a target missing (`capture_discovery_service.rs:685`;
"flap"). A capture that is archived under a second name leaves the fingerprint of its first
file behind: when its file is moved to the first name, the check keeps that older
fingerprint (`project_file_reconcile_service.rs:576`; "rename"), and when it then
disappears, the older file, wherever it went, is taken for it. Two project checks at once:
one migrates the fingerprint to the name the target moved to while the other, which still
looks for it under the old name, finds none and falls back to what is accepted of
rows from before fingerprints (`:338`); if the target is moved back and the
first relinks again, the guard of the second (`destination_path IS ?`) holds and
it binds the row to a file of somebody else (two checks in a scenario). Both were
found in the attempt to prove `VerdictsTrue`.

*Discovery.* A file that is overwritten between the second sample and the last read is
registered as it then is: perhaps half written, and with the deferral of the file that was
weighed (`capture_service.rs:2459`); an import does not wait at all. Both
were found in the attempt to prove `OldWaits` and `WholeOnly`. A writer that stalls for the whole
delay (`capture_discovery_service.rs:21`) leaves two equal samples, and half a file is
registered; `Waits` leaves it out.

*Notes.* A save while the loop writes an older revision may leave the older text
in the file, marked synced (`notes_service.rs:239`; "overlap"). A second conflict
within a second replaces the first backup (`:205`; "second").

*Manifest.* Two rebuilds beside each other: the one that read first may write last
(`commands/capture.rs:251`; "rebuild"). A person image archived again as a scene requests
nothing (`capture_archive_service.rs:1120`; "scene"), nor does a file that comes back
(`capture_service.rs:2705`; "restore"). A deletion, or a reset, that fails after it
removed the file marks it missing and returns without a request
(`capture_deletion_service.rs:314`, `capture_reset_service.rs:787`; "partly"); a directory that is away is skipped and
its request gone (`archive_manifest_service.rs:434`; "down"), and requests end with
the program (`:39`; "crash").

*Bridge and metadata.* A deleted project takes its integration row along and
leaves the files of the bridge behind, which no other project may then replace
("deleteProject"). A game without the bridge inside the directory of one that has it
is taken for that one; and a name that is used again before its metadata was read
gives or loses the metadata of the wrong picture. `engine_metadata_service.rs:63-67`
says that two games with the same names cannot be crossed.

## Proofs

Theorems hold for every value of the constants under the named assumptions;
TLC evaluates each `ASSUME` (and, for modules it reaches by INSTANCE, the
`...Assumption`) on the instances above.

| Module | Theorem | States |
|---|---|---|
| `CaptureLifecycleProofs` | `TypeCorrect`, `PipelineConsistent` | `TypeOK`, `Consistent` are invariant |
| | `ArchiveUndisturbed`, `ResetClaimHeld`, `AnnotatesOriginal`, `LabelFixedInFlight`, `ResetRespectsPreview` | `ArchiveHoldsRow`, `ClaimHeld`, `AnnotationOriginal`, `NoRelabelInFlight`, `ResetOnlyPreviewed` |
| | `ProcessingIsOwned` | `ProcessingOwned`, if no source vanishes |
| | `ArchivedUnderOwnName` | `AnnotationNamesCharacter`, without the `archive_capture` command |
| `ArchivePromotionProofs` | `ArchiveGuarded` | `Guarded` is invariant |
| | `CompletedStayIntact`, `OwnFilesOnly`, `NewComesFirst` | `CompletedIntact`, `OnlyRecordedReplaced`, `NewBeforeOld` |
| | `LogsApart`, `RestoreIsAtomic`, `PreviousSurvives` | `NeverMixed`, `Atomic` (the refinement), `PreviousKept` |
| | `NothingUpscaled`, `FactsTell`, `KeptIsCopied`, `PolicyAllowed` | of `ArchiveOutput`: what is written, what is claimed of it, what is copied, which policy is in force |
| `ResetCleanupProofs` | `ClaimsReleased`, `RemovesPreviewed`, `SparesOthers`, `RemovedIsTold` | `RunningRegistered`, `RemovesOnlyPreviewed`, `OthersFilesKept`, `ArchiveTruth` |
| `DiscoveryProofs` | `NothingAfterEnd`, `RemovedStays`, `CheckIsTrue` | `NoneAfterEnd`, `RemovedBefore`, `CheckTells` |
| | `OldOnesWait` | `OldWaits`, if the tolerance covers what a file system rounds away |
| | `WholeFilesOnly` | `WholeOnly`, if files are written to their end and left there, and nothing is imported |
| `FileReconcileProofs` | `VerdictsAreTrue`, `PrintsFollow`, `AssetsFollow` | `VerdictsTrue`, `PrintFollows`, `AssetFollows` |
| `FaceBankProofs` | `CallsInProgram` | `CallInv`: every call is where its program lets it be, and has the lock there or not; `GoneTyped` |
| | `FacesOfTheirRegion` | `RegionCurrent` |
| | `SamplesOfTheirLabel` | `SampleMatches`, without the operations that break it (`Follows`) |
| | `SuggestionsOfOthers` | `SuggestsOther`, without merges; characters may be deleted |
| | `DoubtsExclude` | `DoubtExcludes`, without the operations that break it (`Doubted`) |
| `EngineProofs` | `AnswersBelong`, `ShutdownFinal`, `GoneIsGone` | `OwnAnswer`, `NoWorkerAfterShutdown`, `PermanentOnlyIfMissing` |
| | `OneRepair`, `RepairCounts` | `OneJob`, `CountsExact` |
| `MirrorsProofs` | `NotesKept` | `NothingLost` |
| | `ManifestsRight` | `ManifestTrue` |
| | `BridgeRegistered`, `UninstallLeavesNothing` | `BridgeOwned`, `UninstallExact` |
| | `SidecarsAreExact` | `SidecarsExact`, unless a nested game is uninstalled |

*`CaptureLifecycle`.* Assumes that captures are positive numbers (compared by
age), that the NULL character is no character and the budget a natural number.
None of the invariants is inductive alone: whether a row may leave
`archive_pending` depends on who holds its lock and where the worker is; whether
a claim is safe depends on the preview having been taken in a settled status.
`Consistent` says these together, row by row (`ItemConsistent`): the worker's
position determines the row's status, the worker has the lock exactly while it
copies or extracts, a reset's lock freezes label, archive and version to those
of the preview and keeps the row out of the worker's reach, and an engine that
read a replaced file finds the registered one only by having missed its return (`ReadConsistent`). The
proof takes the actors in turn; two lemmas reduce a step to the row it
concerns, and lemmas on the update statements say which columns each keeps.
`ProcessingIsOwned` adds that the sources are there, which is what the worker's early
return needs. `ArchivedUnderOwnName` adds `NamesConsistent`: a row at rest after
annotation carries the name it was drawn with. A failed archive leaves it right; but a
reset may commit between an archive that failed and the scheduling of its retry, so
at that position of the worker only the status is known, and that the lock is not a
command's.

*`ArchivePromotion`.* Assumes that nothing (`None`) is neither a content, a path
nor a capture, that every output has a main file, that edits are contents, and
`Calm`, the two things the code does not itself ensure: archives run one at a
time, and no other program writes a target between the last look at it and the
rename or removal that follows. A rename is right because of three things
established earlier, each by a different step: the last check saw nothing or the
content in `before` (`TargetKnown`); `before` is still what the database records;
and no other row has come to name the target since it was asked. The latter two
need that nobody else's job runs (`Exclusive`), that a running job's row still
has its destinations (`JobHoldsRow`), and that no deletion runs on a capture with
a job. `Guarded` is these together with `OutputsPlaced` and `PlacedInOrder`.

*`ResetCleanup`.* Assumes that identities, paths, jobs and captures are told apart
from nothing, that archives write fresh identities, and that the first rows are
unclaimed (`recover_interrupted` has run). `ResetInv`: an executing job is
registered (`RunningRegistered`), a claim belongs to the one job that has the item
lock (`Owns`); while it cleans, the row is still the one of its snapshot and its
references are no less than what other rows name, but for what these took over since
(`Knows`), which survives archives because what they write has an identity no preview
has seen; and at a removal the file is the one previewed and neither source nor
shared (`About`). Two executions never aim at the same archive, since the later one
found it among the other's files (`Mutual`). `Lawful` says what a step may
do to calls and faults. `RemovedIsTold` adds `Tells`: what a reset removed and what is
gone is marked, or the reset that removed it still has the row.

*`Discovery`.* Assumes that nothing is neither a content, a path, a file nor a
modification time, and that contents of half-written and of complete images differ. A
call works on copies for minutes while files, rows and sessions change, so
`DiscoveryInv` says at each of its positions what of the copies is still so. Whatever
happens beside it (`CallFits`): what it inserts was not ignored when it began, is dated
no earlier than rounding allows, and its deferral is that of the file it weighed, under
the same session. Where files are only written to their end (`Kept`): what the two samples
agreed on is complete and stays (`Weighed`), and is not of the baseline of the session the
call runs for (`Beyond`). For a check that nothing has disturbed (`CallTells`): rows of
paths it is done with tell the truth, all others are those of its scan. Each action of
a call is one lemma; one other lemma (`AsideKeeps`) goes past every call that does not
act, from what a step may do to sessions, files and ignored contents (`Goes`).
`OldOnesWait` needs `Rounding <= Tolerance`, which is what `BACKFILL_MTIME_TOLERANCE`
is for. `WholeFilesOnly` needs budgets in which half-written files occur only where
nothing is overwritten, removed or imported: with either, the last look may find another
half-written file than the one that was weighed.

*`FileReconcile`.* Assumes that the value for nothing is no capture, path or file content.
A check remembers a row it read while sources move and archives and resets go on, so
`ReconcileInv` speaks of the past: what was at a path and what was not (`held`,
`gone`) only grows. Each position of a check says what of its locals was so when it was read
(`Placed`); "missing" speaks of directories that were always enabled and of the one destination
there was (`SourceGone`, `TargetGone`), which only ever say less. The row it remembers is an earlier one of the same generation, or the row
was archived or reset since (`Earlier`, `Onward`), and then the guards of the stores fail. A
target it is about to bind was proved by a fingerprint, and a token has one
fingerprint (`Printed`), so the content is that of the last archive. `Shown` says it
of the assets.

*`FaceBank`.* Assumes that the worker is a caller of its own, and that NULL is no
character, capture, face or sample. `CallInv` says of every call which steps its
program allows (`Placed`), what it must have read there (`Loaded`), who makes it and
about what (`Kinded`), and that an item lock is held by exactly the call that is
between its `take` and its `release` (`LockInv`); the lemmas named `After...` are
the programs, step by step. `Mover` and `Rows` then reduce a step to one call and one
row and say what kind of change it may be. `BankInv` relates what calls have read to
what is there. Calls under the lock (`Firm`) have read the current label, or one whose character was merged
away (`ItemInv`), and a face of the current region (`ReadInv`): a
region is only framed under the lock, and takes the face with it. Without merges the label of a
capture that is there exists (`LiveInv`), because a deletion takes the character's captures
along; of a deleted capture nothing is left (`GoneInv`), a step works on one that is
there (`Present`), and a deletion spares the worker's, which is busy (`DeletesBusy`). The worker has no
lock, but its capture stays `processing` or `archive_pending` until it archives
(`WorkInv`), and nobody else stores a face meanwhile (`QuietInv`). `SampleInv` is
`SampleMatches` without `Settled`: a sample is of its label, or a label call that is about
to write it has the lock. `SuggestInv` says the same of suggestions and the
answer of a label: what waits is of a living character, or of none once one was deleted (`Backed`). For `DoubtExcludes` the worker is the hard case: it may have read the
verdict before the label changed it. Then (`MissedInv`) the label call has still to
enrol the same face, or its sample is flagged already, and an enrolment keeps a flag
(`ON CONFLICT ... flagged = CASE`).

*`VisionWorker`.* `VisionInv` counts lines: what the process has still to read and to
answer (`World`) fits the positions of the requests (`Fits`): the one that waits has exactly its
own line outstanding, whoever gave up has stopped the process, and lines nobody asked
for are not taken for answers.

*`FaceRepair`.* `RepairInv` relates the counters of the slot to the sets of captures its
job has still to probe, to retry, or has sent. Needs that there are finitely many
captures.

*`Mirrors`.* Assumes only what the four services assume of their constants
(`MirrorAssumption`); a step of one leaves the invariants of the others (`EachAlone`).
`NoteInv`: what a call knows of row and file fits them, and a note marked synced was
written as it is. `ManifestInv`: what the writer has read of a directory is still
so, or a request is pending; a request outlives every trigger. `BridgeInv`: one command
has the policy lock, what it has written and can take back fits its position
(`InstallFits`, `RemoveFits`), and whenever the lock is free the files are those of a
registered project or of the user (`Clean`) and the policy file tells the bridges
what the rows say (`Told`). `MetaInv`: a capture was told of its own picture, and what
a pass has read is of the sidecar it is about to remove. `Apart` is needed
because an uninstalled game within another one is taken for the outer.

*`DatabaseRestore`.* `RestoreInv`, for every failure and kill: a swapped-in file comes from
a whole backup, what a roll-back needs is there, and, where logs can be removed
(`Clean`), a log lies only beside its main file (`CleanLogs`). `KeptInv` adds, without what `Breaking` names, what
is where at each position: the database last in use is live until the swap and in
the snapshot from then until the restored one is opened or put back. The
refinement is then shown step by step (`StepRefines`). `PreviousSurvives` assumes that
nothing of `Breaking` happens.

*Model-checked only.* Liveness (`Settles`, `RequestsEnd`): fairness is out of the
prover's reach. Every other property of a passing run is a theorem.

## Not modelled

- *Thumbnails, archive and resource usage, logging, monitoring:* derived data that
  nothing reads back to decide, rebuilt at will.
- *Image models and encoders* (the Python engine, codecs, how alike two faces are,
  the text of the bridge script, recognition of game engines): what they answer is
  a choice in the models.
- *Schema migrations:* they run once, in one transaction each, before anything
  else; the automatic backup before them is that of `DatabaseRestore`.
- *Names, templates, option rows, paging, events, pages:* strings and layout without
  a state of their own. Which commands the pages offer decides `UiOps`.
- *The files of a deleted character's captures*: the steps of `ArchivePromotion`'s
  deletion in a loop within one transaction. The rows are in `FaceBank`.
- *Database errors* (a full disk, a busy timeout) in the capture pipeline.

`PROJECT.json` says for each component what is left out of it.

## Plan

Done: the core (`CaptureLifecycle`, `ArchivePromotion`), then a module for every
service that keeps a state of its own, the refinement of `AtomicRestore`, and
proofs of the safety properties of all of them. Left:

1. An abstract pipeline (a capture's life as its user sees it) that
   `CaptureLifecycle` implements, and `ArchivePromotion` as the implementation of its
   archive step.

## Running

In this directory, for instance:

    tlc -workers 2 -config LifecycleAll.cfg MCCaptureLifecycle
    tlc -workers 2 -config Archive.cfg MCArchivePromotion
    tlc -workers 2 -config Restore.cfg MCDatabaseRestore
    tlc -workers 2 -config FindLostDatabase.cfg MCDatabaseRestore
    tlapm CaptureLifecycleProofs.tla
    tlapm ResetCleanupProofs.tla

`PROJECT.json` lists the runs with module and configuration. A run takes between
seconds and three minutes, the longest proof (`FaceBankProofs`) about ten minutes.
