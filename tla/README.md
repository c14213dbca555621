# TELEVAULT in TLA+

TELEVAULT backs up local directories to Telegram: it cuts files into chunks,
encrypts them if asked to, uploads them as documents and keeps the catalog in SQLite. This
directory models the parts of it in which threads, failures, cancellations and
restarts meet, checks them with TLC and proves the main safety properties with
TLAPS. `PROJECT.json` holds the exact correspondence: which definition models
which lines, what each run checks, the hazards and the theorems. Paths below
are relative to `src/`.

## 1. Inventory

| Part | State | Operations | What makes it hard |
|---|---|---|---|
| Transfer state machine (`crates/televault-transfer/src/state.rs`) | one of 8 states | `can_transition_to`, `transition_to` | callers that discard or propagate an invalid transition |
| Transfer queue (`queue.rs`) | pending, jobs, active, tokens, under one mutex | `submit`, `cancel`, `acquire_next_job`, `finish_job`, `requeue_job` | workers run on clones while the record is cancelled |
| Transfer engine and workers (`engine.rs`, `worker.rs`, `cancellation.rs`, `retry.rs`; `televault-storage/src/temp.rs`) | job, retry counter, token, staging file | `execute_staged_upload`, `upload_stream`, `download_stream`, startup purge | lost answers, retries, cancellation at any byte, crashes |
| Backup engine (`crates/televault-backup/src/engine.rs`, `snapshot.rs`, `change_detector.rs`, `pipeline.rs`, `scanner.rs`) | plan, loop position | `plan_backup`, `execute_backup` | a sequence of separate transactions; files change meanwhile |
| Catalog (`crates/televault-db`) | tables files, manifests, chunks, versions, snapshots, schedules, transfer_jobs... | one transaction per call, `reconcile_interrupted_operations` | inserts against upserts, rows of interrupted backups |
| Execution guard (`crates/televault-scheduler/src/guard.rs`) | running profiles | `try_acquire`, drop | manual and scheduled backups and repairs |
| Scheduler (`service.rs`, `expression.rs`) | due schedules, loop, stop token | start, stop, trigger, loop | restart after stop, missed and overlapping runs |
| Restore (`backup/src/restore/`) | plan, staging file, destination | plan, execute, collision policy | destination appears between check and rename |
| Verification (`backup/src/verification/`) | report | verify snapshot / file | remote objects and rows that disagree |
| Repair (`backup/src/repair/`) | manifest, chunk rows | eligibility, re-upload, apply | manifest read once and written per chunk |
| Retention (`backup/src/retention/`) | policy, snapshots | evaluate, prune | prunes what a running backup refers to |
| Desktop state and commands (`apps/desktop/src`) | cancellation registry, provider | one command per request | registry keys shared by operations |
| Telegram transport and sign-in (`crates/televault-telegram`) | HTTP client, spool file, session | upload, download, verify, delete, sign in | timeouts, lost answers, spool file |
| Catalog checker, command line, cryptography, manifest, integrity, core types, UI | none of their own | queries, pure functions, presentation | nothing concurrent |

How they interact: a command or the scheduler takes the profile's guard and
calls the backup or the repair engine; the former scans and plans, then for every chunk hands a
staging file to the transfer engine, which streams it to the provider, and
writes the catalog between those calls. Restore and repair call the transfer
engine without a staging file. Startup purges staging files and reconciles the
catalog.

The properties that make the system correct: a call that says Ok has stored
what it says; retries and concurrency are bounded; cancelling ends things; a
Completed snapshot is complete, belongs to one profile and stays restorable; a
restart leaves no half-finished state behind; every operation ends.

## 2. Modules

**`TransferState`** is the transition table. `TransitionTo` is the form whose
error is discarded (`let _ = job.transition(..)`).

**`TransferQueue`** (`queue.rs`). `pending`, `jobs`, `active` and `tokens` are
the fields of `QueueInner`; a job is reduced to its state. `held[w]` is the
clone worker `w` acquired. One action per queue operation, since each runs
under the mutex; `acquire_next_job` is two actions, one that finds a runnable job and one
that finds none and empties the queue of cancelled entries. Between
acquiring and finishing, `StartUpload` and `EndUpload` run the upload worker on
the clone. `retain` is written with positions so that the prover can reason
about it. `HandBack` gives the clone back in whatever state the upload left
it, with `finish_job` or `requeue_job`. No code of the repository but the
queue's tests calls `acquire_next_job`, and none calls `requeue_job`: the
workers follow the protocol of those tests
(`crates/televault-transfer/tests/transfer_tests.rs:296-324`), one hand-back
per acquisition. What the application does with the queue is `EngineFinish`:
`upload_stream` and `download_stream` call `finish_job` after every attempt
(`engine.rs:119`, `engine.rs:133`) with jobs nobody submitted. If a worker ran
an acquired job through `execute_staged_upload`, the job would lose its slot
between two attempts; nobody does, and the model does not either.

**`TransferEngine`** (`engine.rs`, `worker.rs`). Each element of `Ops` is one
call of an entry point, in a thread of its own. The staging file of an upload
is written before the call (`Stage`): the pipeline stages all chunks of a file
before the first upload, and a backup that stops earlier drops them
(`Discard`). `pc` follows the thread:
`loop` (top of the staged loop), `start` (head of the worker), `stream` and
`write` (inside `provider.upload` or `provider.download`), `reply`, `verify`,
`finish` (`finish_job` and the decision to retry), `sleep` (backoff). The
provider is nondeterministic: it fails retryably or not, stores the object and
loses the answer, acknowledges what it did not store. `stuck` holds staging
files the operating system refused to remove, an error that `Drop` and the
startup purge ignore. `Crash` kills all threads; `Restart` purges.

**`BackupCatalog`** (backup engine over the catalog). Every catalog call is a
step of its own, so everything else may happen between two of them: edits
of the directory, another profile's backup, a failure, a crash. A `file_id`
depends on the relative path alone and a `manifest_id` on path and content, as
in the code; `manifests` says which storage references are filled in, the others
being Pending. Repairs of a file or a snapshot take the same guard
(`BeginRepair`, `EndRepair`) and fill references in one transaction per chunk
(`RepairChunk`): `repair_file` into the copy of the manifest it read at its
start, `repair_snapshot` into the manifest as it is. Which chunks a repair
picks is left open, since that depends on the remote objects. `unmarked` holds snapshots whose status update failed, which
`fail_snapshot` and startup ignore. `chunks` counts the rows of a file.

`MCTransferQueue`, `MCTransferEngine` and `MCBackupCatalog` declare the model
values and symmetry sets; `TransferQueueProofs` and `TransferEngineProofs`
hold the theorems. Definitions whose comment begins with "Mutant:" are
deliberately broken variants of the operator that follows them, used to see that
each property can fail; no specification refers to them.

## 3. Abstractions

- Every edit gives a file a new modification time. The code compares size and
  modification time and can not see an edit that preserves both.
- Contents all have the same size; a file whose size changes after the scan is
  not distinguished from one whose content does.
- Planning is one step. Only holders of the profile's guard write its rows, and
  an edit during the scan has the same outcome as one just before or after it.
- `get_latest_snapshot` orders by `created_at`, which `create_snapshot` writes
  as a constant (`snapshot.rs:34`); which of the tied rows SQL returns is left
  open, so the model returns any of them.
- A scan may omit files whose metadata or directory could not be read. Files
  the profile's rules exclude, symbolic links and unusable names are not
  modelled. A missing root fails the planning, which changes nothing.
- New and modified files are processed in any order (the code: by path).
- A backup's chunk upload is one step of `BackupCatalog` that succeeds or
  aborts the backup; what happens inside it is `TransferEngine`.
- Progress callbacks, `transfer_jobs` rows, error texts and identifiers'
  formats are left out; so are the bytes of chunks (a content is its hash).

## 4. Runs

Passing:

| Run | Instance | What it shows |
|---|---|---|
| `queue` | 3 jobs, 3 workers, limit 2, 1 direct call | The limit, one worker per job, slots equal to the jobs held, no job queued twice, queued while running, or lost; a cancelled job is not handed out, even if it is requeued. |
| `engine_safety` | 2 calls, 3 retries | Ok means Completed, stored and cleaned up; provider calls and orphaned objects within the retry policy; staging files released. |
| `engine_liveness` | 1 call, 3 retries, 2 buffers | Every call returns, cancelled downloads excepted. |
| `catalog_safety` | 1 profile, 2 files, 2 contents, 2 chunks, 2 backups, 1 edit | A Completed snapshot covers its scan exactly; damage to a manifest or to chunk rows needs a backup interrupted at that file, and repairs add none; no BackingUp row without its backup, unless the update failed. |
| `catalog_profiles` | 2 profiles, 1 shared path, 3 backups, 2 chunks | Backups of one profile overlap neither each other nor a repair of it, and the guard is held exactly while one of them runs; no snapshot binds another profile's file. |
| `catalog_liveness` | 1 profile, 1 file, 2 backups | Every backup ends. |

Where the code and what the repository says of it disagree (each run checks
the quoted statement and TLC finds a behaviour that breaks it):

| Run | Statement | Behaviour |
|---|---|---|
| `queue_cancel_record` | `state.rs:61`, terminal states are left for no active state | `finish_job` and `requeue_job` overwrite a Cancelled record with the worker's clone. |
| `engine_verifying` | `state.rs:49`, Verifying can complete, retry, fail or cancel | A failed `verify` call returns with the job Verifying; the retry loop's next attempt is an invalid transition. |
| `engine_cancel_stops` | `README.md:111`, immediate graceful abort | `CancellingWriter` answers `Interrupted`, which `write_all` retries for ever. |
| `catalog_restorable` | `.antigravity/KNOWN_FAILURES.md:74`, immutable manifest rows | A file touched but not changed has the manifest of a Completed snapshot overwritten with Pending references; if the upload fails they stay. |
| `catalog_unchanged` | `README.md:109`, point-in-time recovery across versions | A file is Unchanged by its newest row and is linked to an older manifest, that of the snapshot it was compared with. |
| `catalog_retry` | `.antigravity/KNOWN_FAILURES.md:79`, graceful recovery | After a backup died between `create_file` and `create_version`, the next one inserts the same row again and fails. |

Two further observations come from reading alone: `execute_staged_upload`
returns with the job `Retrying`, not `Failed`, when its retries are used up
(the worker asks `can_retry` before it counts the attempt, the loop after),
and direct calls of the engine never take a slot of the queue, so its limit does
not bound them.

**Bounds.** Three jobs and workers with a limit of two are the least with a
full queue, a waiting job and one requeued at once. Three retries distinguish
the first attempt, a middle one and the last; one buffer suffices for safety
since a call behaves alike at every buffer, and liveness uses two. Two backups
are a base and its successor; `catalog_unchanged` and `catalog_profiles` need a
third. Two chunks tell a manifest or a set of rows that is partly filled from a
whole one; one suffices where no property counts them beyond "all or not".
`MaxEdits` bounds the user; `catalog_profiles` has none, since its properties are
about who writes the rows, and its directories start with any content. Symmetry
is used in runs of invariants and action properties only.

**Fairness.** Running threads take their next step: nothing in the code blocks
for ever except the loop in `write_all`, which is modelled as a step that
changes nothing. Provider calls return because the HTTP client has
timeouts (`crates/televault-telegram/src/http.rs:33`). In the queue only an
upload that was begun goes on (for `queue_cancel_record`): no code of the
repository drains the queue, so nothing is assumed about acquiring. No fairness
is put on clients, users, repairs, `Crash` or `Restart`. Liveness properties exclude threads of a process that died.

## 5. Proofs

For every value of the constants, from `QueueConstants` and `EngineConstants`
(limits are naturals; submitted and directly called jobs are different ones; "no
job" and "no reference" are not jobs or references):

- `TransferQueueProofs`: `QueueExclusion`, `QueueConcurrency`, `QueueSlots`,
  `QueueLosesNothing`, `QueueDisjoint` and `QueueCancelledStaysOut` for the six
  properties of the run, and `QueueTyped`. The inductive invariant adds that `active` is finite, that
  a clone whose upload ended has left Pending (`DoneHasStarted`; otherwise
  `finish_job` could record a Pending job nobody holds) and that what is queued
  or running is registered (`Registered`; otherwise `submit` could queue it
  again). Exclusion rests on `SlotsMatchWorkers` and `Disjoint` together: a job
  taken from the queue is not active, so no worker holds it. The lemmas
  `RetainProperties`, `TailFrom` and `ReleaseFacts` say what cancelling,
  popping and giving a slot back do to queue and slots.
- `TransferEngineProofs`: `EngineTyped`, `EngineOkMeansStored`,
  `EngineRetryBound`, `EngineStagingReleased`. `RetryBound` is not inductive:
  it needs `AttemptsCounted`, which ties `retry_count` to the provider calls at
  each point of the thread, above all that a job left Verifying never calls
  the provider again. `StateInCall`, `OkFinished` and `StagedOnly` carry the
  job's state through a call, the stored object to the end of it, and exclude
  a staging file for calls that own none.

Each action has one lemma, and the invariance theorem puts them together.

Model-checked only: all liveness (outside the prover's reach) and everything
about `BackupCatalog`.

## 6. Plan

1. `BackupCatalogProofs`: `CompletedCoversScan`, `OneBackupPerProfile`,
   `OwnFilesOnly`, then `DamageNeedsInterruption`.
2. `Scheduler`: loop, trigger, stop and start, schedule rows, composed with the
   guard and with manual starts.
3. `Retention`: the evaluator as an operator against a reference definition,
   pruning against running backups and the registry's active snapshots.
4. `Restore`: collision policy, staging, check and rename.
5. `Repair` and `Verification`: eligibility, the findings that pick the chunks,
   and what a whole repair leaves behind.
6. `CancellationRegistry`: register, cancel, unregister, identifiers shared by
   operations.
7. An abstract snapshot lifecycle (planned, BackingUp, Completed or Failed)
   that `BackupCatalog` implements, and an abstract transfer (pending, tried at
   most n times, stored or not) that `TransferEngine` implements.
8. Chunk arithmetic of `pipeline.rs`, backoff of `retry.rs` and schedule
   expressions as operators over bounded inputs; the sign-in state machine; the
   HTTP spool file.

Not planned: cryptography, hashing, manifest serialisation, path rules and the
user interface, which are pure computation or presentation.
