# A verification project for photo-culler

TLA+ models of photo-culler's jobs, catalog, editing and culling, their model checking with
TLC, and theorems about them checked by TLAPS. The models follow the code under
`src/photo_culler`; `PROJECT.json` maps every definition to the lines it models.

Contents: [the system](#the-system), [the plan](#the-plan),
[import jobs](#import-jobs), [analysis jobs](#analysis-jobs),
[what imports make of the catalog](#what-imports-make-of-the-catalog),
[edit documents](#edit-documents), [culling and review](#culling-and-review),
[who writes what about a photo](#who-writes-what-about-a-photo), [the runs](#the-runs),
[the proofs](#the-proofs), [what is not modelled](#what-is-not-modelled).

## The system

photo-culler is a local web application: a FastAPI process with one SQLite
catalog. Request handlers run in a thread pool; imports and the analysis run in
daemon threads of the same process. Nothing but the catalog, the metric cache,
the profiles file, and the thumbnails survives the process. Tauri and egui shells
start that process and show its pages.

| Component | State | Operations | Interacts with | Hard behaviour | What makes it correct |
|---|---|---|---|---|---|
| Import jobs (`importing/service.py`) | rows `import_jobs` and `scan_revisions`; `_threads`, `_shutdown_jobs`, condition `_control` | start, pause, resume, cancel, shutdown, recovery; the worker's sessions and checkpoints | catalog, analysis (`active_job_count`), application shutdown | sessions of requests and workers interleave; registration of threads lags behind rows; crash anywhere | a completed job is whole; no lost wakeup; one worker per job; active jobs are worked on; cancellation wins |
| Scan reconciliation (same file, `scanner/`, `identity/`) | `source_files` with `last_seen_revision_id`, path, hash, state; photos | scan, match by path or hash, move, mark missing or offline | import jobs, pairing | two imports of one source; a rescan resumed after files changed | a present file is never marked missing; a move keeps its photo; missing files come back |
| Analysis jobs (`web/routes/analysis.py`) | `is_running`, status, requests, permits `_active_workers`, submission window | start, pause, resume, cancel, set_workers, shutdown | imports, catalog, metric cache, listeners | two gates on one condition variable, a pool that outlives decisions, status overwritten late | no permit or wakeup lost; completed means all photos; pool joined; pauses hold; jobs end |
| Progress events (same file) | listener queues of eight | register, notify, drop the oldest, the stream | analysis jobs | snapshot taken under the lock, enqueued outside it | the stream ends, and ends with a final status |
| Catalog rows (`catalog/`, `web/services/decision_service.py`) | photo rows | `save_photo` of a whole row, `set_decision`, bulk decisions | rescans, analysis, grouping, the commands of the command line, users | lost updates between sessions | a user's decision is lost only to those who may judge the photo |
| Review pages (`web/routes/library.py`, `groups.py`, `photos.py`) | none | list, filter, sort, recommend, next, previous | catalog | ties, last pages | every place is shown; the recommended one is kept |
| Migrations (`catalog/migrations.py`) | schema, `schema_migrations` | apply pending versions | start of the process | crash between a migration and its record | each version is applied once, or its repetition is harmless |
| Edit documents (`editing/service.py`) | recipe, undo and redo stacks (50), revision, preview cache | update, undo, redo, reset, preview | requests in several threads | read-modify-write without a lock; cached previews | the history is linear; a preview shows its recipe |
| Sessions and bursts (`sessions/`, `grouping/`, `bursts/`) | session and burst rows, assignments of photos | regroup, assign | catalog, user | assignments cleared and rebuilt | every photo in one session; gaps respected |
| Similarity and selection (`grouping/similarity.py`, `selection/`) | none | group by hash distance, decide best, alternate, reject | analysis | chunk index against the full relation | every valid candidate pair is found; one best per group |
| Technical scoring (`scoring/`) | none | weights, tiers | analysis | thresholds | tiers follow the thresholds |
| Metric cache and pipeline (`analysis/engine/`) | `metrics.db` | look up, fall back to older namespaces, store | pool threads | concurrent writers, migration of entries | a cached value is that of the same file and version |
| Analysis profiles (`analysis/profiles.py`) | dictionary and JSON file | save, delete, restore | requests, analysis | memory changed before the file | memory and file agree |
| Preview cache (`previews/`) | thumbnail files | generate, invalidate | requests | files written in place | a reader never gets half a file |
| Desktop shells (`desktop/`, `rust/apps/photo-culler-tauri`) | child process, window | start, wait until healthy, exit | the backend | exit while starting | no orphan backend |
| Others | | | | | listed with their reasons in `PROJECT.json` |

The behaviours that are hard to test, each with its line and the properties that
would catch it, are the "hazards" of `PROJECT.json`.

## The plan

In order of what the users lose when it goes wrong; 1 to 7 are done.

1. `ImportJobs`, with the abstract specification `ImportLifecycle` it implements,
   `MCImportJobs` for TLC, `ImportJobsProofs` and `ImportUnpausedProofs`.
2. `AnalysisJobs` and `AnalysisJobsProofs`.
3. `Reconcile`: what the imports of a changing folder make of the rows of files.
4. `Editing`, with the abstract `EditHistory` it implements, and the preview cache.
5. `Grouping`, `Culling` and `Review`: sessions, bursts, similar groups, scores,
   decisions, and what the user is shown of them. `Catalog`: the same rows and the
   metric cache under overlapping writers.
6. `ReconcileProofs`, `EditingProofs`, `CatalogProofs`.
7. `GroupingProofs`: what the loops of `Grouping` compute; `CullingProofs`: the theorems
   about `Culling` and `Review` that rest on it.
8. Progress listeners (composed with the ends of `AnalysisJobs`), migrations,
   thumbnails, the desktop shell's child process.

## Import jobs

`ImportJobs` models `GalleryImportService` as a control plane: the rows of the
jobs, their worker threads, the requests, shutdown and crash.

State. `job[j]` is the committed row of a job, with the state of its scan
revision folded in (`rev`): state, resume_state, cancel_requested,
pause_requested, imported count. `seen[j]` is the set of photos whose files carry
the job's revision. `worker[w]` is a slot for a thread: its job, where it is,
how many records it found and saved, and the session it has open. `threads` is
`_threads`, `waiting` the wait set of `_control`, `call` the request that holds
`_control`, `stopJobs` is `_shutdown_jobs`, `todo` what `shutdown()` has still to
pause, and `serving` is false from the application's shutdown event on.

Sessions. A database session reads the row, computes, and at its commit writes
only the columns that changed: that is what SQLAlchemy's unit of work does with
`job.state = ...` (`catalog/database.py:94`). So a session is two steps: a read
that stores the update (`Diff`), and a commit that merges it into whatever the
row is by then (`Apply`). Between the two anything may happen, except that
requests and checkpoints hold `_control` and exclude each other. Everything the
model says of races rests on this.

| Action | Code |
|---|---|
| `StartImport`, `RegisterThread`, `StartThread` | `start_import`: commit of the rows, entry in `_threads`, `thread.start()` |
| `CheckPass`, `CheckShutdown`, `CheckRead`, `CheckCommit`, `CheckWait` | `_wait_if_paused_or_cancelled` at the five checkpoints: start, each record, after pairing, each photo, end |
| `ReadSession` with `Discovering`, `Previewing` | `_set_state` |
| `CountRecord` | one record of `_discover_files` |
| `ReadSession` with `SavePhoto` | one iteration of `_import_photos` |
| `ReadSession` with `EndJob` | `_complete_job`, `_mark_failed` |
| `Raise`, `Exit` | the except and finally clauses of `_run` |
| `CancelRead` .. `CancelCommit`, `PauseRead`, `PauseCommit`, `ResumeRead` .. `ResumeCommit` | `cancel`, `pause`, `resume`: the read, the look at the registry, the commit with its `notify_all` |
| `ShutdownBegin` .. `ShutdownEnd` | `shutdown` |
| `Restart` | the end of the process at any point, and `_recover_interrupted_jobs` of the next one |

Abstractions. A scanned record is a photo (pairing is in `Reconcile`); the
discovered counter, the revision's counters, issues, errors and time stamps are left
out; the imported counter saturates at `N + 1`, enough to tell an over-count.
`CountersDescribeAttempt` compares it with what the thread at work has saved itself, from
its first session to its last.
A second exception inside `_mark_failed` is not modelled. Shutdown begins with no
request in flight, as the server drains them before the event. `Workers` bounds
how many threads live at once; a resume waits for a free slot in the model only.

`ImportLifecycle` is the abstract specification: a job is submitted, photos are
imported, it completes only when all are, fails, is cancelled, or is interrupted
and resumed; an ended job never works again and never becomes completed. `ImportJobs` implements it, under the
mapping `Phase`, when no pause is requested and no shutdown pauses jobs.

Two disagreements with what the code says of itself:

- `_complete_job` promises to "Complete a job unless a cancellation won the
  final race", but the cancellation it read is as old as its session: a
  cancellation committed in between is acknowledged and overtaken
  (`import_cancel_race`).
- A pause can land between a worker's last checkpoint and its final commit. The
  pause overwrites "completed", the resumption finds the finishing thread alive
  and puts the job back to work without a worker: `active_job_count` counts it
  until the next restart, and the analysis waits for it (`import_pause_race`).

The same window also breaks, once pauses are allowed, `OneWorker` (resume starts a
second worker between the first one's registration and its start), the honest
counter that follows from it, and `RevisionAgrees`; and a job cancelled while
paused whose process dies before the worker notices is left "paused" and not
resumable. The run `import_unpaused` therefore checks those properties without
pauses, and says so by its `Events`.

## Analysis jobs

`AnalysisJobs` models `AnalysisJobManager`: the job's thread, its pool, the
requests and the condition variable. `task[p]` says where photo `p` is, from
pending through the pool to collected; `pc` where the thread is; `asleep` is the
wait set of `_control`, with `Main` (0) for the thread. The other variables have
the names of the code.

Critical sections of `_control` call nothing that blocks, so each is one step; a
wait is the step that enters `asleep`, and a notification empties it, after which
each sleeper tests its condition again.

| Action | Code |
|---|---|
| `Start`, `Pause`, `Resume`, `Cancel`, `SetWorkers` | the methods of these names; `Cancel` also stands for `shutdown` |
| `Poll`, `Gate` | the wait for imports, with its pause gate |
| `Load`, `Fill`, `Collect`, `Advance`, `AllCollected`, `Final` | `_run_analysis`: selection, the first window of `2 * max_workers` submissions, one collected future, the cancellation test and the refill, the final pass |
| `Finish`, `Join`, `Exit`, `Raise` | `_finish`; leaving the pool's block; the finally and except clauses. A cancelled job publishes its end before the pool is joined, a failed one after |
| `Take`, `Control`, `Slot`, `Work` | `analyze_photo` in the pool: start, pause gate, permit, analysis and release |
| `ImportToggles`, `Restart` | imports that begin and end; death of the process |

Abstractions. Counters of progress and messages are left out. "Remaining" means
without a persisted analysis, for one profile. The analysis of a photo has a
result or none. The final pass changes no control state. What the job reads and
writes is in `Catalog`, what its final pass decides in `Culling`.

One disagreement: `pause()` is accepted after the job published its final status
and before `is_running` is cleared. The status stays "paused" and `resume()`
refuses (`analysis_pause_race`). A cancellation in the final pass is acknowledged
and has no effect; the code only promises to notice it at a photo boundary, so
this is recorded as a hazard, not as a divergence.

## What imports make of the catalog

`Reconcile` models the data side of `importing/service.py` for one source folder.
`folder[p]` is what the user keeps at path `p` (or `Absent`), `plugged` whether the
folder is mounted, `files` the rows of `FileDB`: their photo, path, content, status and
the revision that saw them last. `job[j]` is an import with its revision: it scans,
imports, is interrupted, or has ended. A session of the worker is one step here; the
threads and their control are in `ImportJobs`.

| Action | Code |
|---|---|
| `Write`, `Remove`, `Rename`, `Plug` | the user's other programs and disks, at any time |
| `StartImport`, `MarkSourceOffline` | `start_import` and `rescan_gallery`, `_mark_source_offline` |
| `ScanAndPair` | `_discover_files` and `pair_files`: each path was visited once, at a moment of its own between the start and the end of the scan (`shown`) |
| `ImportPhoto` | one iteration of `_import_photos`: `_reconcile_moved_files`, the identity of a moved photo, `save_photo`; or the flush that fails because a moved row would take the place of another one |
| `Complete` | `_complete_job`: what this revision has not seen is missing |
| `Interrupt`, `Resume`, `Stop` | a pause, shutdown or crash; a resumption that scans afresh under the same revision; a cancellation or exception |

Size, modification time and hash of a file are one value, its content; contents outside
`Hashed` cannot be read. A photo is named by the stem its identity is computed from.

Two overlapping imports mark each other's files as missing, and a folder that changes
during the scan leaves the rows of the moment of the visit: so the properties speak of
an import that starts alone and completes with nothing else having happened
(`undisturbed`), whatever the catalog looked like before, earlier overlaps,
interruptions and outages included. Such an import must put everything right.
Behaviour of the code found on the way, which the conditions of the properties name:

- A job that was interrupted after it recognized a moved file does not recognize it
  again when it is resumed, because the row has the revision already: a second row,
  of the photo of the file's own stem, is added beside the moved one. A file then has
  two present rows (`CompletedMatchesFolder` asks for exactly one only when the job
  was not resumed).
- A moved file keeps its photo only while the new path is the only one of its stem,
  and the next scan of the same folder computes the identity from the new path:
  `MoveKeepsIdentity` is about the import that sees the move.
- Where a moved row collides with a row of the same photo and path, the import fails.

## Edit documents

`Editing` models `EditService` and its routes. `doc[p]` is the row of the document of
photo `p`: revision, recipe, undo and redo stacks. `cache` is `_cache`, from the least
to the most recently used, `req[c]` the request of client `c`: it has read a row
(`Begin`), then commits (`Commit`, `Insert` or `Update` with the columns that differ)
or fails (`Fail`), then drops previews (`Drop`) or looks one up, renders and stores it
(`Lookup`, `Put`). SQLite opens its transaction at the first write, so reads do not lock
and any request may run between a read and a commit. `Restart` ends the process.

`EditHistory` is the abstract specification: a linear list of recipes and a position.
`LinearHistory` says that every step of every document is one of its steps, under the
mapping undo stack, recipe, reversed redo stack. The cut of the stacks to the limit does
not break it: an edit empties the redo stack, undo and redo move recipes from one stack to
the other, so both together never exceed the limit and only an edit forgets anything. It does not hold once two edits of one row overlap: both read revision `r`, both
write `r + 1`, and one recipe is gone without a trace in the stacks. The history
variable `raced` holds the photos this happened to, and the properties except them; it
is a lost update of the code as it is, not of the model.

`PreviewMatchesRevision` is about a render that is put into the cache after the edit that
was to drop it. It stays there, under its old revision; since revisions only grow, it is
never shown as the current one.

`MaxRev` bounds where edits begin; the real limits 50 and 64 are scaled to 2 and 2.

## Culling and review

`Grouping` has no state. It defines, as functions of what a photo is (its shot: time,
name, hash, measurements), the runs of `SessionDetector` and `BurstDetector`, the loop of
`SimilarityGrouper` with its table of exact hashes, its index of chunks and its unions,
the weighted mean and tiers of `TechnicalScorer`, and `apply_decisions`. Sets of photos
are the identities of groups; a hash is the set of its bits. Both kinds of grouping are
one loop over sorted photos (`InOrder`, `Grouped`) that differ in what a photo is matched
with: the one before it, if soon enough (`Continued`), or those that the table and the
index find (`ExactMatch`, `NearMatches`). The loops are recursive functions of the number
of turns, so that theorems can speak of them.

`Culling` composes them over the rows: `row[p]` has score, tier, decision, session and
burst (which also holds the similar group, as in the code), `sessions` the rows of
`SessionDB`. Each request is one transaction.

| Action | Code |
|---|---|
| `ApplyTimeline`, `ApplyBurst`, `ApplyHybrid`, `Delete` | `SessionManagementService.apply_profile` with each profile, `delete` |
| `GroupSimilarPhotos` | `group_similar_photos` |
| `Analysis`, `CancelledAnalysis` | an analysis of all or of the remaining photos with its final pass; one that is cancelled after some photos, which keep their provisional decision |
| `SetDecision`, `Rescan` | a user's decision; `save_photo` of an imported photo over its row |
| `GroupCommand`, `BurstsCommand`, `AnalyzeCommand`, `DecisionsCommand` | the commands of the same names, with `PhotoSelector` and the confirmation of bulk decisions |

`Review` reads those rows: pages, filters and orders of the library and of the native
catalog, the list of groups, the members of a group with the recommended one, the
inspector's next and previous. `list_page` orders by one column, score or name, and each
page is a query of its own: `Listings` is therefore the set of all sequences in the order
of that column, and each page may be cut from another one of them.

The properties compare the code's algorithms with reference definitions: sessions,
bursts and similar groups are the chains of related photos (`Linked`, stated by cuts
and not by a loop). `SimilarPhotosFound` is what the comment in `grouping/similarity.py`
claims of the chunk index; `RecommendedIsKept` relates three places that choose the best
photo of a group. What they have to except is behaviour of the code:

- Equal hashes are not compared when only one of the two photos is dated. Hashes are
  padded to 4 digits and not to 16, so those of different lengths are not compared.
- A burst or hybrid grouping writes back the group a photo had when it finds no burst
  for it, so bursts of earlier groupings survive.
- The group command assigns sessions that have no row; web requests never do.
- The final pass judges photos that could not be measured by the score they have, 0 after
  an import, and siblings whatever the user had decided on them. In a group in which nobody has a
  score, the representative may be a file that cannot be decoded, and nobody is kept.
- Photos of one score, or of one name, have no order among them in the library and the
  native catalog. If the database orders them differently for the next page, one of them
  is shown twice and another one not at all. `EveryPlaceIsShown` says what holds all the
  same: the pages show each value as often as there are photos of it, and no page has a
  photo twice. Groups, their members and the inspector have total orders, and nothing
  there is left out.

Left out: names of sessions, the filters by tier and gallery, the native list of groups with
its limit of 100, the prefetch list.
A query without an order (`list_all`) is taken to yield the rows in the order of identities.
Scores are in hundredths, and
no two photos of the instance differ by exactly 0.15, where floating point decides.

## Who writes what about a photo

`Catalog` models the same rows under overlapping writers, with one number for the
content of a file: the time it was written. `row[p]` has the modification time, who decided,
the score with the settings it was computed with, and the summary of the analysis, which
`save_photo` does not touch. `cache` is the metric cache, `profile` and `saved` the
profile in memory and in its file. `job` and `work` are the analysis (the objects it read
at `Load`, and what each worker is doing), `group` a grouping request or a command of the
command line between its reads and its saves.

| Action | Code |
|---|---|
| `WriteFile`, `Import`, `Decide` | a file changes; `_import_photos`, and the saves of the scan command; `DecisionService.set_decision` |
| `SaveProfile`, `Restart` | `AnalysisProfileStore`: memory first, then a write that may fail; loading at the start |
| `Load` | selection of all or the remaining photos, and of their siblings, with the profile of the request |
| `Look`, `Measure`, `Fail` | a worker: the file's state, which is the key; `run_image` with lookup, fallback to older entries, reading the file, storing |
| `Collect` | the result, a provisional decision and the summary are saved |
| `Finish`, `Abort` | the final pass over all objects; a cancellation or exception |
| `ReadAll` | `group_similar_photos` and the commands group and bursts: `list_all` |
| `AnalyzeCommand`, `DecisionsCommand` | the commands of these names: the selection of the photos, and what becomes of their objects |
| `SaveAll`, `GiveUp` | the saves of such a request or command; an exception or the end of its process before |

`SaveAll` writes what differs from the row the session knows. Whether that is
the row that was read or the one that is there by then depends on whether the ORM object
is still alive, which the code does not determine: both are allowed (`whole`). In the first
case only the columns that the request has changed are written: the decisions of `judged`
photos and the scores of `scored` ones.

The properties name what the code really loses, and exclude all else that these writers do:

- Every import of a photo resets its decision, score, session and burst to the
  defaults but leaves the summary. An analysis of the remaining photos then passes over
  a photo whose score is the default.
- The analyze command (`cli/commands/analyze_cmd.py:58`) saves a score by weights of its
  own, for a result its cache keeps by the photo alone, a tier and a decision, and no
  summary. An analysis of the remaining photos passes over such a photo, whose summary is
  that of the analysis before. `RemainingIsRight` allows both, as a score that is of no
  profile's settings; any other must be the latest result, unless an older object was saved.
  `docs/ARCHITECTURE.md:44` calls a rescan idempotent; it speaks of the import of files.
- `group_similar_photos` says it does not change decisions (`web/routes/analysis.py:460`).
  By itself it does not; a decision made while it runs may be taken back
  (`DecisionsKept`, last case). So do the commands with what they had read before, and the
  analyze command judges all photos it was asked to analyze.
- A file written between a worker's look and the stamp of the summary counts as analyzed.
- Entries of an older version of the cache are found whatever the file holds by then
  (`Legacy` photos are left out of two properties).
- The final pass and the grouping also write back the modification times they read, over
  those of an import that ended meanwhile. (The code then also adds a row for the old path
  of a file that was moved meanwhile; paths are not in this module.)

Abstractions: one metric and one profile; the scan and the save of a photo are one step, as
are the final pass and a collection; `Decide` reads and writes at once. A modification
time in the future, which makes a photo be analyzed for ever, does not occur, as times
grow. At most one grouping request or command is under way at a time. A command measures its
photos when it reads them, and gives a photo one score for ever (`CommandScore`): its entries
of the metric cache have the photo alone as their key, so that they neither change nor are
found by the analysis. An end of the server ends a grouping request; a command may go on.

## The runs

| Run | Instance | Shows |
|---|---|---|
| `import_safety` | 1 job, 2 threads, 2 photos, all events | `TypeOK`, `CompletedMeansImported`, `NoLostWakeup`, `RegistryLive` under every request, crash and exception |
| `import_liveness` | 1 job, 2 threads, 1 photo; cancel, pause, resume | `WorkerSettles`, `CancelStopsWorkers` |
| `import_unpaused` | 2 jobs, 2 threads, 1 photo; cancel, resume, crash, exception | `OneWorker`, `CountersDescribeAttempt`, `ActiveIsWorked`, `RevisionAgrees`, `EveryJobSettles`, `ImplementsLifecycle` |
| `import_cancel_race` | 1 job, 1 thread; cancel | violation of `CancellationWinsFinalRace` |
| `import_pause_race` | 1 job, 2 threads; pause, resume | violation of `ActiveIsWorked` |
| `analysis_control` | 3 photos, 2 threads, 1 or 2 permits, all events | `TypeOK`, `PermitsAccounted`, `NoLostWakeup`, `WorkBeginsWhileRunning`, `CancelEnds`, `AnalysisEnds` |
| `analysis_window` | 5 photos, 2 threads, window 4; pause, resume, cancel, exception, crash | `CompletedCovers`, `JoinedBeforeExit` |
| `analysis_pause_race` | 1 photo, 1 thread; pause, resume | violation of `PausedIsResumable` |
| `reconcile` | a RAW and JPEG pair and a third file, 2 contents (1 unreadable), 3 jobs, 2 at a time, 1 change or outage, 1 interruption | `TypeOK`, `CompletedMatchesFolder`, `UnclaimedPhotosSettle`, `MoveKeepsIdentity` |
| `editing` | 2 requests, 2 photos (1 edited), 3 recipes, stacks and cache of 2, revisions to 3 | `TypeOK`, `CreatedOnce`, `LinearHistory`, `PreviewMatchesRevision` |
| `culling` | 3 photos of 6 shots in all combinations, 2 requests | `TypeOK`, `TimelineFollowsGaps`, `BurstsStayInSessions`, `SessionsHaveRows`, `SimilarPhotosFound`, `RedundantHasBetter`, `RecommendedIsKept`, `EveryPlaceIsShown` |
| `catalog` | 2 photos, 2 settings, 1 change of a file, 4 events, photos of a command alike | `TypeOK`, `RemainingIsRight`, `CacheNotOlder`, `DecisionsKept` |

Bounds. Two threads are the fewest for which a resumption can create a second
worker of a job or two jobs can interleave; jobs share only `_control` and the
shutdown set. Two photos are the fewest for an interruption between two saves.
In the analysis, three photos and two threads make a photo wait in the queue
while another waits for a permit; five photos are one more than the window.
Nothing bounds the length of these runs: jobs are resumed, restarted and cancelled
without limit, and the state spaces are finite and explored completely.

In `reconcile`, three jobs are the fewest for an overlap of two followed by an import that
must put it right, three paths the fewest for a pair of one stem and a file to move to or
from; one change during a scan, between jobs or between two attempts is enough for each
condition of the properties. In `editing`, two requests make every overlap; stacks and
cache of two overflow at revision three. In `culling`, three photos are the fewest for a
chain whose ends are not near each other and for a union of two groups; the shots have
times within, between and outside the gaps, hashes equal, near, far with a part in common,
and shorter, and a score for each decision; two requests suffice because properties relate
a request to the rows that one before it left. In `catalog`, four events let an analysis
and a request or command that have read the same rows overlap with two imports, decisions
or changes, or let a change of the profile or a restart, and a second analysis, follow on
two of them; a command of one photo finds its file or not and changes its decision or not,
one of two photos does so for both (`Alike`; the theorems hold without it). Photos, clients and revisions are interchangeable where the
configuration declares a symmetry; none of these runs checks liveness. `reconcile`,
`culling` and `catalog` use up their jobs, requests and events, so the system stops and
deadlock is not checked; in `editing` a restart is always possible.

The runs of `ImportJobs` do not check deadlock, because the system stops when
all its jobs have ended and nothing is requested; those of `AnalysisJobs` do,
and a job can always be started.

Fairness. Threads are scheduled and sessions end: weak fairness on every step of
a thread and of a request in progress. In `ImportJobs` a checkpoint competes for
`_control` with requests that keep it across their session, so the lock is free
only again and again: a fair lock is assumed, strong fairness on `Checkpoint`.
In `AnalysisJobs` every critical section is one step and weak fairness suffices.
Requests, imports, failures and crashes are never owed. `AnalysisEnds` assumes
that the job is eventually no longer paused and no import stays active, which is
what the code waits for.

## The proofs

Everything below holds for all values of the constants under their named assumptions:

| Module | Assumptions |
|---|---|
| `ImportJobs` | `N` is a natural number, `None` is neither a job, a thread, a state, a Boolean nor a count, events are among those listed (`JobsAssumption`, `NAssumption`, `NoneAssumption`, `EventsAssumption`) |
| `AnalysisJobs` | `N` is a natural number, at least one pool thread, initial permits between one and that, events among those listed (`NAssumption`, `WorkersAssumption`, `EventsAssumption`) |
| `Editing` | the default recipe is a recipe; both limits are at least one, as is `MaxRev`, which bounds where edits begin; the photos that are edited are photos (`RecipeAssumption`, `LimitAssumption`, `EditedAssumption`) |
| `Reconcile` | each path has a stem, paths are finitely many, `Absent` is no content, the bounds are natural numbers (`StemAssumption`, `FileAssumption`, `BoundAssumption`) |
| `Grouping`, `Culling`, `Review` | a digit has at least one bit, a hash at least one digit; weights are natural numbers, one of them positive; distances and gaps are natural numbers; photos are shots, at least one; a page has at least one entry (`HashAssumption`, `WeightAssumption`, `DistanceAssumption`, `ShotAssumption`, `SizeAssumption`, `PageAssumption`) |
| `Catalog` | the default settings are among the settings, `None` is not, and the bounds on time and events are natural numbers (`SettingsAssumption`, `BoundAssumption`) |

`ImportJobsProofs`:

- `TypeCorrect`: `TypeOK`. Types alone are not inductive: that a thread which
  scans has found fewer than `N` files, that one which saves has saved fewer than
  it found, and that a live thread has a job are added (`TypeInv`).
- `CompletedIsWhole`: a completed job has saved every photo. A row becomes
  completed through an update that a worker read earlier, or is put back by a
  request that remembers it in `resume_state`, so `WholeInv` speaks of rows, of
  the updates of open sessions and of the snapshots of requests alike. It also
  follows a thread: a scan that stops early belongs to a job that is cancelled or
  is shutting down, which no other session undoes while that thread lives, so the
  checkpoint after pairing stops the thread; one that passes it has found all
  files, and reaches the end only with all of them saved. `FreshInv` says that
  threads and requests concern jobs that exist, so that the one reset of a row, its
  creation, has no thread to disturb.
- `RegistryIsLive`: the registry names only live threads of the right job.
- `WakeupsAreKept`: `NoLostWakeup`. `ControlInv` adds that a thread in a checkpoint's
  session excludes requests, that one about to sleep and one that sleeps have a reason,
  and that no session of a thread writes the columns of the requests: whoever removes
  the reason wakes every sleeper in the same step.

`ImportUnpausedProofs`, for instances whose `Events` have neither pause nor shutdown
(`Unpaused`; with them the code violates these properties, see `import_pause_race`):

- `AtMostOneWorker`, `CountersAreHonest`, `ActiveJobsAreWorked`, `RevisionsAgree`, all
  from `SoloInv`, and the counters of completed jobs also from `WholeInv`: a job has one thread at most, which is registered before it runs
  (`ThreadsRegistered`); its row and the update of its open session are what the
  thread's place in the code calls for, its counter being what the thread has saved
  (`Works`); an active row has a thread, its
  revision tells the same outcome, and it is paused only as a recovered job is
  (`RowsConsistent`); what a request has read is still so, as far as no thread may
  change it (`Agrees`). With pauses a row changes between the two halves of a worker's
  session by more than a cancellation, and `Works` is lost.
- `JobsFollowLifecycle`: the refinement of `ImportLifecycle`, step by step. A commit of
  the worker is a move of the phase, or none; a crash takes each job at work to the phase
  that may be resumed.

`AnalysisJobsProofs`, all from the inductive invariant `IInv`:

- `PoolJoined` (`JoinInv`): the pool is idle whenever the thread is outside its
  block.
- `SleepersHaveReason`: `NoLostWakeup` is inductive with `JoinInv`, which says
  that nobody sleeps when a new job resets the requests and the tasks.
- `NoPermitLost` and `TypeCorrect` (`PermitInv`): permits are counted by the
  photos at work, which are among the at most `MaxWorkers` in the pool.
- `CompletedIsWhole` (`CoverInv`): as long as photos are pending the flight is not
  empty, since each collected photo submits the next one; when the flight is over
  nothing is pending.
- `PausedStartsNothing` (`ShownInv`): a job at work is shown as running unless a
  request says otherwise, and a permit is given only when none does.

`ReconcileProofs`:

- `TypeCorrect`: `TypeOK`, in which the hard part is that no photo gets two rows of one
  path, when moved rows meet rows that are there and rows that are written.
- `CompletionCorrect`, `MovesCorrect`, `SettlingCorrect`: the three action properties, for
  any number of jobs that overlapped before. All follow from `SyncInv`, which says of an
  undisturbed job: it is the only one at work and the scan has found what is in the folder
  (`QuietJob`); the rows it has seen are right, those of other files are as they were; what
  has been imported has a row (`ImportedHaveRows`); a first attempt writes each path once
  (`FirstAttempt`); and the row of a moved file stays, alone with its content, until its
  new path is imported (`MovedFound`). A resumed attempt breaks `FirstAttempt`, and two
  paths of one content `MovedFound`, which is why the properties have these conditions.

`EditingProofs`:

- `TypeCorrect` (`TypeInv`), `NeverCreatedTwice`: an insertion by a request that found no
  document fails if there is one by now.
- `PreviewsMatch` (`PreviewInv`): what was read of a document is at most as new as the
  document is by now, and is its recipe if it is as new; revisions only grow, so a stale
  preview is never current.
- `ImplementsHistory`: a commit that does not race writes over the row it has read, so
  it is a step of `EditHistory`; both stacks together stay within the limit
  (`LinearInv`), so undo and redo forget nothing.

`CatalogProofs`:

- `TypeCorrect`; `CacheCorrect` (`CacheInv`): a worker measures a file after it took the
  state that makes the key.
- `DecisionsRespected`: a statement about each step, from the types and from a job's
  having photos (`JobInv`).
- `RemainingCorrect` (`RemainingInv`): nobody knows a time of a file later than its
  present one (`TimesInv`); a result is of the job's settings and of the file, unless
  that was written since the worker looked (`CurrentInv`); the summary names the
  settings of the latest result, and a time somebody knows is covered by that result
  or later than the summary (`ContentInv`); a score is the latest, or one of those
  that the property names, what the job will save of a photo that nobody has written since
  is its score, and what a command will save as a new score is of no settings (`ScoreInv`).

`GroupingProofs` has the lemmas about the algorithms of `Grouping`, for photos of any
number and kind. Induction on the turns of a loop is one lemma about sets of numbers
(`NatInduct`), since the library's induction theorems take a predicate.

- `InOrderCorrect`: a strict total order of a finite set has a sorted sequence, which
  holds each member once.
- `GroupedChains`: if a photo is matched only with earlier ones it is related to, the
  loop ends with disjoint groups of all photos, none of which can be cut in two without
  cutting a related pair, and each photo is in the group of its matches.
- `SessionsAreChains`: for sorted times, matching with the one before puts all that are
  related into one group.
- `ClustersAreChains`: the matches of the index are enough (`CloseAreMatched`). Two
  hashes that differ in at most `MaxDistance` bits share a chunk, since chunks are
  apart (`ChunksApart`), there are `MaxDistance + 1` of them, and each that is not shared
  takes a bit of its own (`CloseShareChunk`). The table remembers only the latest photo
  of a hash, which is between any earlier one and the photo at hand.
- `ScoreType`: the weighted mean is between 0 and 100; `RepresentativeBest`: the
  representative of a group is a member, and none has a higher score.

`CullingProofs`, from the inductive invariant `CullingInv`. To the types it adds what
the other theorems need of the rows that earlier requests left (`Proper`): an undated photo
has no session, a photo is in the group its row names, and a corrupted one has the score 0.

- `TypeCorrect`; `SessionsCorrect`: a session that a web request takes away is taken
  from its photos in the same step.
- `TimelineCorrect`, `BurstsCorrect`, `SimilarCorrect`: what the rows say after a
  request are the chains of the reference definitions (`LinkedAreGroup`). A burst is
  looked for among the photos of a session alone, so its chains are those of the
  session (`BurstsOfSession`).
- `RedundantCorrect`, `RecommendedCorrect`: who is in a group after the final pass, also
  where a group of before kept members that this pass did not reach (`AnalysisStep`); the
  representative is in the same group, has the highest score and is kept, and the photo
  recommended by the page, with its other order of ties, has that score (`FirstIsBest`).
- `ReviewComplete`: pages add up to their list, for every list and every size of a page
  (`SlicesShowAll`). All listings of the same photos by one column have the same values
  at the same places (`ListingBelow`), so pages cut from different listings show the
  values of one of them (`PlacesShown`). The inspector's order is strict and total, so
  next and previous are inverse and each scope has one end (`WalkComplete`).

`SoloInv`, `SyncInv` and `CullingInv`, the largest of these invariants, were checked with
TLC on small instances before they were proved.

Every invariant and every action property of the passing runs, and both refinements, are
thus stated by a theorem. Only model-checked: the liveness properties (`WorkerSettles`,
`CancelStopsWorkers`, `EveryJobSettles`, `CancelEnds`, `AnalysisEnds`), which are out of
the prover's reach with their fairness.

## What is not modelled

Image processing, the bits of a perceptual hash and EXIF parsing (numbers on arrays of
pixels and bytes), the wording of explanations and reports, templates and translations,
parameter parsing, the session token, volume detection, the corpus validation and the
egui viewer keep no shared state that a model checker could explore.

Left for later work, each with its hazard in `PROJECT.json`: the listeners of progress
events, the catalog's migrations, the thumbnail files, the child process of the desktop
shell. The native JSON interface (`web/routes/api.py`) offers the operations of the
services that are modelled and a catalog listing, which is in `Review`; its other lists
and the usage of the system are left out. `PROJECT.json` gives the
reason for every part that is left out of a component.
