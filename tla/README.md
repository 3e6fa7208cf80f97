# Project N.O.M.A.D. admin: a verification project

Project N.O.M.A.D. is an offline-first appliance.  Its *admin* (`src/admin`, an
AdonisJS application) is the control plane: it installs, updates and removes
app containers through the Docker socket, downloads content, embeds documents
for retrieval, and updates itself with the help of a *sidecar* script
(`src/install/sidecar-updater`) that shares a volume with it.  This directory
holds TLA+ modules for the parts of it where order, failure and restarts
matter, the TLC configurations that check them and the TLAPS proofs of what
holds for every size of the system.

    tlc -workers 2 -config <Run>.cfg <Module>.tla      a run of the table below
    tlapm <Module>_proofs.tla                          the proofs

`PROJECT.json` maps every definition to the lines it models, and lists the
runs, a mutation of the code each property detects, the hazards and the
theorems.

## 1. Inventory

The admin is one container with two Node processes (`install/entrypoint.sh`):
the HTTP server, and the queue worker (`commands/queue/work.ts`, BullMQ over
Redis).  They share MySQL, Redis, the storage volume and the Docker socket;
neither has a lock on anything the other does.  Every request and every job
constructs its own services, so what a service keeps in memory
(`activeInstallations`) is not shared either.

| Part | State | Operations | Talks to |
|---|---|---|---|
| App lifecycle: `docker_service.ts`, handlers of `system_controller.ts` | `services` rows, containers, `activeInstallations` (per instance) | install (with a dependency), force reinstall, update with rollback, recreate (pull latest, edit), uninstall, delete, start, stop, restart | MySQL, Docker |
| Row/Docker reconciliation: `system_service.ts` | none | `_syncContainersWithDatabase`, at every poll of the Apps page | the rows and the listing above |
| Core update: `system_update_service.ts`, `auto_update_service.ts`, `AutoUpdateJob` | request file, status file, settings `autoUpdate.*` | manual request; hourly attempt with window, target, pre-flight, back-off; enabling resets the back-off | GitHub, the sidecar through files, the `services` rows and the download queue in its pre-flight |
| Sidecar: `update-watcher.sh` | `compose.yml`, the compose containers | poll, take a request, rewrite tags, pull, recreate | the two files, Docker; it kills the admin |
| App auto-update: `app_auto_update_service.ts`, `AppAutoUpdateJob`, `CheckServiceUpdatesJob` | available version, first-seen time and back-off columns of `services` | the nightly look at the registries; an hourly attempt over the eligible apps | registries, `updateContainer` |
| Content downloads: `run_download_job.ts`, `downloads.ts`, `download_service.ts`, `work.ts` | jobs, cancel flags in Redis, `.tmp` and finished files, `installed_resources` | dispatch, retry, cancel, dismiss, complete, clean up | `zim_service.ts`, `map_service.ts`, Kiwix, the knowledge base |
| Content auto-update: `content_auto_update_service.ts`, `kiwix_catalog_service.ts`, `collection_update_service.ts` | budget and back-off settings, back-off columns, available version and first-seen time of `installed_resources` | hourly attempt: window, catalog check, selection under a byte cap, dispatch; the manual check | catalogs, the download queue |
| Start-up reconciliation: `collection_manifest_service.ts` | none | record what is on disk, drop rows of what is not | `installed_resources`, the storage volume |
| Knowledge base: `embed_file_job.ts`, `rag_service.ts` | jobs in chained batches, `kb_ingest_state`, Qdrant points | upload, embed, continue, rescan, rebuild, replace, delete, cancel all | Ollama, Qdrant |
| Map extracts: `run_extract_pmtiles_job.ts`, `map_service.ts`, `download_service.ts` | jobs, cancel flags, the child's output, the region's row | extract, retry, cancel, dismiss, delete, register and prune | `pmtiles`, `installed_resources` |
| Everything else | | models and chat, benchmark, Kiwix XML, guards, web interface, installer | |

What is hard, part by part (the list with lines is `hazards` in `PROJECT.json`):

* **App lifecycle.** The only lock between operations is the column
  `installation_status`, read and written in separate queries, by handlers that
  hold Lucid instances they read many awaits earlier and that save only the
  columns they changed.  A sync rewrites it from such an instance.  Each
  operation is a dozen Docker calls, any of which may throw, with rollbacks that
  find containers by name; the process may die between any two.  It is correct
  when a flag that is up has somebody who will clear it, an update never loses
  the app, and rows and containers agree in the end.
* **Core update.** Two programs exchange two files that are truncated before
  they are written; one of them kills the other in the middle of its job, and
  both restart.  It is correct when the status file tells the truth, the
  auto-update never asks for a downgrade, every accepted update ends and the
  admin comes back.
* **Downloads.** Retries, a cancel flag that outlives its job, workers that die
  and jobs that stall, several versions of a resource at once, a completion of
  many queries that may fail anywhere, followed by a second one that does the
  same again.  It is correct when rows and files agree, the user is never left
  without the content, doomed updates are counted once each, and downloads end.
* **Auto-updates.** They act on rows they read long ago and save columns over
  what those rows hold now.  Four jobs name the queue `system`, so `queue:work
  --all` starts four workers of it, each with a concurrency of 1: runs of one
  job overlap, which the comment at `work.ts:203` means to exclude.  They are
  correct when nothing is installed before its cool-off is over, when an app or
  a resource is switched off only for failures it had, when the bytes of a
  window stay under its cap, and when nobody is starved or retried for ever.
* **Knowledge base.** A ZIM is embedded by a chain of jobs, each of which queues
  the next while it is itself still active; jobs are told apart by ids that the
  queue may remember or have forgotten, and users rescan, rebuild, replace and
  cancel meanwhile.  It is correct when every passage is stored once, a file
  that reads 'indexed' is all there, and what is gone from disk is gone from
  the answers.
* **Map extracts.** A child process writes under the final name; a cancel waits
  four seconds and then removes whatever is there; each completion deletes the
  other files of its region.  It is correct when nothing half-made is left and
  the file that the row names is whole.

## 2. Modules

| Module | Models | Proofs |
|---|---|---|
| `ServiceLifecycle` | app lifecycle and its reconciliation | `ServiceLifecycle_proofs`; `ServiceAlone_proofs` for one request at a time |
| `SystemUpdate` | manual and automatic core update, sidecar | `SystemUpdate_proofs` |
| `Updater` | what users of the core update rely on; `SystemUpdate` implements it | the refinement, in `SystemUpdate_proofs` |
| `ContentDownload` | downloads of one resource, its row and files, cancel, delete, auto-update, start-up | `ContentDownload_proofs` |
| `KnowledgeBase` | embedding jobs, the index and the ingest state under every request of the knowledge base | `KnowledgeBase_proofs` |
| `AppAutoUpdate` | the hourly update of apps, the registry check, updates by users | `AppAutoUpdate_proofs` |
| `ContentAutoUpdate` | the hourly update of content, its window, budget and catalog checks | `ContentAutoUpdate_proofs` |
| `MapExtraction` | extracts of one map region, their files and row, cancel, delete, start-up | `MapExtraction_proofs` |
| `MCServiceLifecycle`, `MCSystemUpdate`, `MCContentDownload`, `MCKnowledgeBase`, `MCAppAutoUpdate`, `MCContentAutoUpdate`, `MCMapExtraction` | values of the constants; three of them add history variables | |

How they fit together: `AppAutoUpdate` takes `updateContainer` of
`ServiceLifecycle` in outline (marked, at work, updated or failed) and
`SystemUpdate` as an admin that is replaced at any moment; `ContentAutoUpdate`
takes a download of `ContentDownload` in outline (live, then installed or
failed); `ContentDownload` has the auto-update's dispatch as one of its actors.

A definition named `X_y` before a definition `X` is a variation of it (a
plausible bug in that piece of code) that some property detects; no model uses
it.

### ServiceLifecycle

| Variable | In the code |
|---|---|
| `row` | table `services`: `installed`, `installation_status`, the tag of `container_image`; `NoRow` for a custom app that does not exist |
| `ctr` | Docker's containers by id: the app, the name (`live`, or the `_old` suffix), image, running |
| `req` | a handler in progress: program counter (the next await), Lucid instances read (`snap`), container ids held |
| `faults`, `crashes` | failing Docker calls and exiting containers; crashes of a process |

One action per await: a query (`Query`), or a Docker call (`Call`) with what
follows when it succeeds and when it throws.  `Written` is Lucid's save: only
the columns that differ from what the instance read are written.  Actions named
after a method begin it (`Install`, `Update`, `Edit`, ...); the rest are
prefixed with the operation (`UpdateStop`, `RecreateRename`, `SyncSave`).

Abstracted: volumes, ports, GPU options, image layers, progress broadcasts,
names of images (a tag is enough, except where `latest` matters).  MySQL answers
every query.  An edit is accepted in one step (`system_controller.ts:602-665`).
Not modelled: the one-off Kiwix migration (`docker_service.ts:1269-1347`) and
the remote Ollama host, which makes a row 'installed' without a container
(`ollama_controller.ts:245`, `285`, `295`).

### SystemUpdate

| Variable | In the code |
|---|---|
| `file`, `status` | the request file (a tag, or `Empty` once truncated); the stage in the status file |
| `kv`, `toggle` | `autoUpdate.enabled` and `.consecutiveFailures`; the handler that saves them |
| `req` | the manual requests and the attempt of `AutoUpdateJob`, one step per await |
| `side` | the script: the next command, the tag in `$target_tag`, the service being recreated |
| `compose`, `admin`, `mysql` | the tag in `compose.yml`; the versions that run, or `Down` |
| `released`, `troubles` | what GitHub lists; failing commands and crashes |

`KeepsPromise` maps this to `Updater`: the request is the request file, the
target is the tag the sidecar works on from the moment it has read it, and
"told" is the status `complete`.  A request is lost where the code loses it
(`Forget`).

Abstracted: the cool-off and the window only narrow when an attempt may find a
target, so they are a choice; the cached `system.latestVersion` is any listed
release or none; the texts `autoDisabledReason` and `lastResult` are left out;
early access is off.  Redis and dozzle are recreated by the same loop as mysql
and nothing depends on their order.

### ContentDownload

| Variable | In the code |
|---|---|
| `jobs` | queue `downloads` by version: BullMQ's state, attempts made, whether automatic, whether it stalled before |
| `flags` | `nomad:download:cancel:<id>` keys in Redis |
| `disk`, `row` | finished files; the row of `installed_resources` with its back-off columns |
| `run` | executions of `RunDownloadJob.handle`; `held` is false once the job was failed or removed under it, while its `onComplete` goes on |
| `owed` | the worker's `failed` listener: event not handled, or the failures it has read |
| `user`, `auto`, `boot` | a cancel or delete between its steps; the auto-update between its reading of the row and the dispatch; `reconcileFromFilesystem` between its queries |

A version has its own URL, so its own job id and file name.  Resource downloads
use `forceNew`, so a partial file left behind is overwritten: only the `.tmp` a
handle is writing matters.  An earlier handle of the same job, no longer held,
is assumed past its download when the job is taken again (the cancel flag is
polled every two seconds, the removal waits four).  Not modelled: the Wikipedia
selection, the global map (the one download without `forceNew`),
knowledge-base reconciliation, and a worker that is alive but loses its lock.

### KnowledgeBase

| Variable | In the code |
|---|---|
| `disk` | the ZIM's versions, a user's uploads and the manual's files that are there |
| `points` | Qdrant: how often each batch of each file is stored (0, 1, more) |
| `row` | `kb_ingest_state`: state and chunks counted |
| `policy` | `rag.defaultIngestPolicy` |
| `jobs` | queue `file-embeddings`, by file for a job under the file's own id, else by BullMQ's id, with batch and chunks so far |
| `run` | executions of `EmbedFileJob.handle` between their awaits |
| `req` | uploads, installs, replacements, rescans, single embeds, rebuilds, deletes, cancel-all and clean-up, with what they have read |

A batch is one unit of text; `Thin[z]` is the first batch of a ZIM with an
article that has none (the last batch, if none has).
Completed and failed jobs are remembered until `Forgotten`, since a remembered
id swallows a new job.  Not modelled: text extraction, OCR, chunk sizes, the
model's own queue, warnings, estimates.

### AppAutoUpdate

| Variable | In the code |
|---|---|
| `row` | `services`: installed, opted in, tag, status, available tag and the hours since it was first seen, failures, switched off |
| `hour`, `due` | the time of day; the repeatable job waits for a worker |
| `proc` | runs of the job and users' updates: rows still to go as read at the start, the update at hand |
| `check` | the apps `CheckServiceUpdatesJob` has still to look up, as it read them |
| `published`, `admin`, `downloading`, `master` | the registry, core updates, live downloads, the master switch |
| `known`, `strikes`, `killed` | histories: when a check first found a tag, updates that failed, marks of updates that died with the admin |

An update is `Begin` (the guards), `Mark`, then the work, which succeeds or
fails, and the reset of the mark in `finally`; a refused one is `Begin` and
`Refused`, with the same `finally`.  One check is under way at a time, although
its queue has three slots.

### ContentAutoUpdate

| Variable | In the code |
|---|---|
| `hour`, `due` | as above |
| `kv` | `contentAutoUpdate.*`: enabled, bytes used, hours since `windowResetAt`, failures |
| `row`, `order` | `installed_resources` with their update columns, the longest installed first |
| `catalog` | the newest version upstream |
| `jobs` | downloads by resource and version: none, live, failed |
| `run`, `manual` | the job and the "Check for updates" button with the rows they loaded |
| `seen`, `spent`, `lost` | histories: when a version was first found, bytes started in this window, a run cut short |

Sizes and the cap are in units; the hour is the finest time, so `WithinWindow`
and `SinceOpen` are `isWithinWindow` and `windowStartBoundary` at full hours.
The saves with which a check ends, one row after the other, are one step.

### MapExtraction

| Variable | In the code |
|---|---|
| `jobs`, `flags` | queue `pmtiles-extract` by extract (a date and a zoom of the region); `nomad:download:pmtiles-cancel:<id>` |
| `disk` | the extract's file: none, part of it, all of it |
| `row` | the region's row of `installed_resources`: which file it names |
| `run` | executions of `handle` and their children: `linked` while the child writes the file of that name rather than an unlinked one; `old` is `oldFilePath` |
| `user` | a cancel between its signal, the removal of the job and of the file |
| `booting` | `reconcileFromFilesystem` is to come |

`Exit` is the end of the child, by itself or by a signal; `Tick` may take the
cancel signal at any point until `handle` is over.  A restart kills handles and
children.  `Reconcile` deletes the row whatever is on disk: `parseMapFilename`
(`collection_manifest_service.ts:249`) does not match
`<region>_<YYYYMMDD>_z<N>`. `calm` and `abandoned` in `MCMapExtraction` play the
part of `calm` in `MCContentDownload` (section 3).  Not modelled: two regions of
which one's name is a prefix of the other's, the temporary region files,
progress, a child that hangs (nothing ends it but a cancel).

## 3. Runs

| Run (cfg) | Instance | Shows |
|---|---|---|
| `CuratedApp` | one request at a time on an app with a dependency; 2 tags, 5 ids, 2 faults, 1 crash | `TypeOK`; `UpdateKeepsACopy`, `FailedUpdateLeavesItRunning` (updates); `QuietAgreement`; `SyncReconciles` |
| `CustomApp` | one request on a custom app: every operation; 3 faults, 2 crashes | `QuietAgreement`: rows here appear and disappear |
| `TwoRequests` | two tabs and the Apps page's poll; 1 fault; fair | `FlagHasOwner`; `FlagClears` (liveness) |
| `SystemUpdate` | a user, the auto-update, the sidecar; 2 releases, 1 trouble; fair | `StatusIsHonest`, `VettedStaysNewer`, `UpdateEnds`, `AdminComesBack`; `KeepsPromise`: it implements `Updater` |
| `Downloads` | 2 versions, 2 handles, 2 attempts; 2 requests, 1 failing query, 1 restart | `RecordedFileExists`, `QuietlyTracked`, `ACopySurvives`, `OneFailureEach` |
| `DownloadsEnd` | 1 handle, 2 restarts; fair | `DownloadEnds` |
| `KnowledgeBase` | one file at first; 2 versions of a ZIM of 2 batches, the second with a textless article, an upload, the manual; 2 requests, 2 attempts, 1 trouble; fair | `OneCopyEach`, `IndexedIsAllThere`, `NoLostChain`, `GoneIsForgotten`; `QueueDrains` (liveness) |
| `AppUpdates` | an app, marked by a dead update or not, 2 tags, 2 runs, a user; a day of 2 hours, a cool-off of 1; fair | `CoolOffHonest`, `NotDisabledEarly`, `MarkIsTransient`; `KeepsUpOrGivesUp` (liveness) |
| `ContentUpdates` | 2 resources that exceed the cap together, a window across midnight; 1 trouble, 1 act of a user; fair | `BudgetKept`, `AnchorHonest`, `GoodCheckKeepsAnchor`; `NoneStarves` (liveness) |
| `MapExtracts` | 2 extracts of a region in the queue's 2 slots, 2 attempts, 4 requests, 1 failing query or unlink or restart | `NoPartLeft`, `RecordedIsWhole`, `OneFile` |
| `RejectedUpdate` | two updates | finding 1 |
| `OfflineCheck` | as `ContentUpdates`, without fairness | finding 2 |

**Why these bounds.** A service has at most a live, an `_old` and a new
container, so with a dependency five ids let every leftover meet every
operation. Two faults are a failing call and a failing call of its clean-up; one
is enough to send a request out by a catch block while another runs; the third
lets a clean-up that failed meet a later operation that fails. Two tags tell an
updated container from a rolled-back one. The flag is one per app, so two
requests show every race for it. Two releases are what a downgrade takes. One
trouble leaves the sidecar or the admin dead, or an update failed, at every
point of an update. Two download attempts are the first and the last; two
versions the old file and the new; two requests a download with a cancel, a
delete, another version or an auto-update. The second restart in `DownloadsEnd`
is what makes a job stall twice. Two batches are a first and a last one, and a
chain that can break between them, or be ended by an article without text; one
trouble there is a failing call, a restart or a forgotten job at every point of
two requests. Two runs that overlap are what a late save needs; a day of two or
three hours has hours in the window, outside and past midnight. Four requests
for two extracts are two of them, a cancel or delete, and the extract asked for
again. `CHECK_DEADLOCK FALSE` is set where the system may really stop (the admin
gone for good) or where a bound on requests ends the behaviour; the app runs
never deadlock.

**What the histories are for.** `calm` in `MCContentDownload` holds as long as
one actor at a time is past its download: a handle, the start-up, a delete, a
cancel about to delete a finished file.  The code makes no attempt to order
those actors, and rows and files do disagree after such races (hazards at
`run_download_job.ts:189`, `collection_manifest_service.ts:326`): the three
properties say what failing queries, restarts, retries, stalls and sequences of
operations do *not* break.  Three things a single actor does break the agreement
of row and files too, and end `kept`: a cancel deletes the finished file of its
version, a delete takes the row of a resource that has another file, and a
failing query cuts the start-up's reconciliation short.  `ACopySurvives` does
not rest on `kept`: the first of the three is the one step that it names beside
the user's own delete.
`calm` in `MCKnowledgeBase` says the same of requests that cross each other,
that do not wait for the jobs in flight or throw them away (`Crossed`), and of a
restart, a forgotten job, or an index or a collection that could not be written
(`Broken`); `GaveUp` is a file one of whose jobs used up its attempts.
`HistorySpec` there has any initial state of `Init` and is what is proved about;
the run takes `SmallSpec`, its restriction to one file at first, with fairness.
In `MCMapExtraction`, `calm` says it of two extracts that finish at once and of
requests against the file that finishes or is recorded (`Disturbed`).
`abandoned` there is the one way to leave half an extract behind: a job
is dismissed, or a restart cuts a cancel, or the clean-up of a job already
removed, short.  `left` is a file that could not be deleted: the code logs it
and goes on.  In `AppAutoUpdate`, `killed` is an app whose mark is that of an
update that died with the admin; the first state may have such a mark, from an
earlier life of the admin.

**Fairness.** `ServiceLifecycle`: a request in progress takes its next step,
since the event loop runs every handler and a Docker call answers or throws;
nobody is obliged to send requests, and containers need not exit.
`SystemUpdate`: the sidecar only (an endless loop under `restart:
unless-stopped`); the admin may hang at any await.  `ContentDownload`: BullMQ
promotes delayed jobs, checks for stalled ones and hands out waiting ones, the
handles take their next step (each await times out or stalls out after five
minutes), the start-up goes on and a removal that began is carried out.
`KnowledgeBase`: the queue's workers and the requests in progress go on, and
nobody has to send one.  `AppAutoUpdate`, `ContentAutoUpdate`: hours pass, a
worker takes up the job and runs end, updates and downloads succeed or fail;
`NoneStarves` further supposes that users clear failed downloads away, since a
failed job is handed back as if it had been started.  `MapExtraction` states no
fairness: a child that hangs is ended by nobody.

## 4. Findings

Two are runs that TLC ends with a counterexample, and quote the line the code
disagrees with (`findings` in `PROJECT.json`):

1. A rejected second update clears the flag of the update in progress
   (`docker_service.ts:1833`).
2. A "Check for updates" that cannot reach a catalog clears the cool-off anchors
   of its resources (`kiwix_catalog_service.ts:329`).

The rest follow from the code as modelled; the models contain them, and the
properties are stated so as to say what holds beside them.

*App lifecycle.*
- A recreate whose rename fails removes the live container in its rollback
  (`docker_service.ts:2180`): the handler cannot tell the original from a failed
  replacement, and no copy is left.
- An update stops the running container (`docker_service.ts:1644`) before it
  lists the containers (1653) and renames the old one aside (1664).  If either
  of these throws, the outer catch (1816) starts nothing: the app stays stopped,
  under its name.  Only from the rename on does `rollbackToOld` undo a failure,
  and `FailedUpdateLeavesItRunning` says no more than that.
- A crash while a row says 'installing' locks the app until its container is
  gone and a sync notices; nothing resets the flag at start-up.  An Update click
  is refused, but resets it too (finding 1).
- `activeInstallations` belongs to an instance of `DockerService`
  (`docker_service.ts:31`), of which every request and job makes its own.

*Core update.*
- An update whose `up` fails leaves no admin at all (`update-watcher.sh:95`).
- The auto-update counts requests it could not write, not updates that failed,
  so it retries for ever (`auto_update_service.ts:516`).
- A request written while the sidecar deletes the previous one is accepted and
  lost (`update-watcher.sh:136`).

*Downloads and content.*
- A cancel deletes `filepath`, "the partial file" (`download_service.ts:209-213`).
  Downloads are staged in a `.tmp` that is renamed when it is complete, so what
  has that name is never a partial file: it is the finished one, when an
  installed version is downloaded again and cancelled, or a failed job whose
  file is there.  It goes, no other actor needed, and the row stays.
  `ACopySurvives` names this step.
- Downloading an older version deletes the newer file before the safety rails
  written against that are consulted (`run_download_job.ts:189`).
- A failed job stays in the queue and is handed back as if it were started; every
  window is charged for it (`content_auto_update_service.ts:329`), although the
  comment at 56 promises another try in the next window.
- An older download of a resource that ends after a newer one sets its row back
  to the older version (`run_download_job.ts:151`: nothing compares them), and a
  check that had loaded the newer row then clears the anchor.
  `GoodCheckKeepsAnchor` excepts it (`WentBack`); it takes three versions to
  meet, which the proof covers and `ContentUpdates` does not.

*Apps.*
- Another update of an app in progress counts as a failure of the automatic one;
  a target read at the start of a run may set back a newer version that a user
  installed meanwhile; opting out, or the master switch, is not seen by a run in
  progress, and the window is only looked at when it starts.
- The pre-flight of the app update does not ask whether the system is being
  updated (`app_auto_update_service.ts:197`; compare `docs/updates.md:40`), and an
  app marked when the admin was replaced stays marked: no run touches it until
  somebody clicks Update, which is refused and resets the mark.
- A run whose update is refused resets the mark of the one in progress
  (finding 1): a third update then finds the app idle.

*Knowledge base.*
- Whether another batch of a ZIM follows is read off the number of articles that
  yielded text (`rag_service.ts:579-580`), not of those that were read.  One
  article without any in a full batch ends the chain there, and the file is
  marked indexed with the rest missing.  `Thin` says which batches have one, and
  `Size` is the last batch that is embedded; `NoLostChain` and
  `IndexedIsAllThere` go so far.
- A rescan queues the manual again each time, so it is embedded more than once.
- Batches of a replaced ZIM that are still queued store their passages after the
  old ones were purged.
- Two clicks on "embed" both pass the look for jobs in flight.
- A file that waits for a decision is indexed without a look at what is stored:
  "there's nothing to clear" (`rag_service.ts:1618`).  But "Re-embed all" queues
  such a file too, and a job that used up its attempts leaves the batches it
  stored and the row as it was, since only an error no retry mends marks it
  failed (`embed_file_job.ts:290`).  "Index" then stores those batches twice.
  This came out of the proof of `OneCopyEach`, which therefore excepts files
  with such a job (`GaveUp`); it takes three requests, one more than the run has.

*Map extracts.*
- Every start of the admin deletes the rows of all extracts
  (`collection_manifest_service.ts:379`), and a delete never finds an extract's row
  (`map_service.ts:884`): the row then names no file.
- Two extracts of a region that end together delete each other's files; one
  that ends deletes what the other is writing, whose attempt then fails.
- A cancel that arrives while the extract is being registered deletes its file and
  keeps its row; a cancel signal that nobody took ends the next attempt within
  five minutes for good.

## 5. Proofs

For every value of the constants: any number of apps, requests, processes,
versions, faults and crashes.  Every invariant and every action property that a
run checks is proved, and so is the refinement.  One hypothesis stands before
theorems rather than in the modules: `Alone`, that `Requests` has one element.

| Theorem | States |
|---|---|
| `ServiceLifecycle_proofs!TypeCorrect` | `Spec => []TypeOK` |
| `ServiceLifecycle_proofs!InstallingHasOwner` | `Spec => []FlagHasOwner` |
| `ServiceAlone_proofs!OneFailureIsUndone` | `Alone`: `Spec => []FailedUpdateLeavesItRunning` |
| `ServiceAlone_proofs!TheTableTellsWhatRuns` | `Alone`: `Spec => []QuietAgreement` |
| `ServiceAlone_proofs!ASyncRepairsTheTable` | `Alone`: `Spec => []SyncReconciles` |
| `ServiceAlone_proofs!AnUpdateKeepsACopy` | `Alone`: `Spec => UpdateKeepsACopy` |
| `SystemUpdate_proofs!TypeCorrect` | `Spec => []TypeOK` |
| `SystemUpdate_proofs!HonestStatus` | `Spec => []StatusIsHonest` |
| `SystemUpdate_proofs!VettedNewer` | `Spec => []VettedStaysNewer` |
| `SystemUpdate_proofs!PromiseKept` | `Spec => KeepsPromise`, the refinement of `Updater` |
| `ContentDownload_proofs!TypeCorrect` | `Spec => []TypeOK` |
| `ContentDownload_proofs!RecordedIsThere` | `HistorySpec => []RecordedFileExists` |
| `ContentDownload_proofs!QuietlyInStep` | `HistorySpec => []QuietlyTracked` |
| `ContentDownload_proofs!ACopyIsKept` | `HistorySpec => ACopySurvives` |
| `ContentDownload_proofs!FailuresAreCovered` | `HistorySpec => []OneFailureEach` |
| `KnowledgeBase_proofs!TypeCorrect` | `Spec => []TypeOK` |
| `KnowledgeBase_proofs!EmbeddedOnce` | `HistorySpec => []OneCopyEach` |
| `KnowledgeBase_proofs!ChainsEnd` | `HistorySpec => []NoLostChain` |
| `KnowledgeBase_proofs!IndexedIsTrue` | `HistorySpec => []IndexedIsAllThere` |
| `KnowledgeBase_proofs!NothingOfTheGone` | `HistorySpec => []GoneIsForgotten` |
| `AppAutoUpdate_proofs!TypeCorrect` | `Spec => []TypeOK` |
| `AppAutoUpdate_proofs!MarksAreTransient` | `Spec => []MarkIsTransient` |
| `AppAutoUpdate_proofs!NoneIsDisabledEarly` | `Spec => []NotDisabledEarly` |
| `AppAutoUpdate_proofs!CoolOffHolds` | `Spec => []CoolOffHonest` |
| `ContentAutoUpdate_proofs!TypeCorrect` | `Spec => []TypeOK` |
| `ContentAutoUpdate_proofs!BudgetHolds` | `Spec => []BudgetKept` |
| `ContentAutoUpdate_proofs!CoolOffHolds` | `Spec => []AnchorHonest` |
| `ContentAutoUpdate_proofs!GoodChecksKeepAnchors` | `Spec => GoodCheckKeepsAnchor` |
| `MapExtraction_proofs!TypeCorrect` | `HistorySpec => []TypeOK` |
| `MapExtraction_proofs!NothingHalfMade` | `HistorySpec => []NoPartLeft` |
| `MapExtraction_proofs!RecordedWhole` | `HistorySpec => []RecordedIsWhole` |
| `MapExtraction_proofs!OnlyTheLatest` | `HistorySpec => []OneFile` |

Assumptions: the named `ASSUME`s of the modules (special values are not ordinary
ones, bounds are naturals, a dependency has no dependency, releases are finitely
many naturals, a day has an hour, no row is the row that means there is none).
TLC evaluates them in every run.

*ServiceLifecycle.* `FlagHasOwner` alone is not inductive: a save writes a
column only if it differs from what the instance read, so whether a clean-up
really clears the flag depends on what was read.  `IInv` adds, for every
request, what it holds at its program counter (`Held`): outside a sync it has a
goal, works on the goal or on its dependency, holds the row it is going to
save, and while it installs that instance says 'installing'.  Each step is
shown to move the request along (`Advances`) and to be one of two kinds: it
leaves the table alone (`CallKeepsIInv`), or it writes a row that becomes or
stays 'installing' only if the request owns it afterwards (`WriteKeepsIInv`).

*One request at a time.* Two requests on one app do break what
`ServiceAlone_proofs` shows (each renames and removes by name what the other has
just made), hence `Alone`.  One request is any sequence of operations on any
number of apps, dependencies included, each begun when the one before has ended,
failed or died with its process.  `AloneInv` adds to `IInv`, for that request:
names are unique and what it holds in its hands is a container of the app it
works on (`UniqueNames`, `Belongs`), so that finding one by name is finding the
one; the row it is going to save is the row there is (`UpToDate`), which is what
makes Lucid's save of the changed columns write all that the instance says; and
where it is.  `Updating` says at each step of an update which of the two
containers is there, whether it runs, and that the rollback's steps have seen
one failure: with one failure only, the rollback cannot fail too; and before the
rename the old container still has its name.  That is
`FailedUpdateLeavesItRunning`.  `Quietly` says the same of all operations as long
as nothing failed: the other apps agree with their rows (`OthersAgree`), and the
one at work is just as far from agreeing as its program counter tells (`Place`).
The sync needs no such thing: whatever the state, the rows it has been through
say what it listed and the rest are as it read them (`Reconciling`).
`UpdateKeepsACopy` is an action property: each step of an update that removes a
container is one at which `Updating` names another.

*SystemUpdate.* `IInv` is the type invariant, the two properties, and: some
release is newest, every request asks for a release or `latest`, and the
sidecar, once it has pulled, works on a release, and finds the admin down when
it starts it.  The first is what `CHOOSE` in `Newest` needs; the third keeps the
admin from running a tag read from a truncated file.  That a vetted release
stays newer rests on the sidecar killing every handler and job of the admin when
it stops it.

*ContentDownload.* `TypeOK` bounds the attempts a job has made, which nothing in
one step does: a job fails only while an execution holds it, and fails for good
at the last attempt.  `IInv` therefore adds that a job still to be run has an
attempt left (`Tried`), that a held job is active (`Holds`) and that no two
executions hold the same one (`OneHolder`); it is split into `Running`, about
jobs and executions, and `Resting`, about the rest, because most steps disturb
only one of them.

The files and the row are in order (`Orderly`) as long as `calm` holds: whoever
is past his download finds the file he is going to record (`Tidy`), the start-up
has recorded one of the files it listed (`BootTidy`), and when nobody is between
two steps the row names a file that is there (`RowTidy`).  That one actor
finishes at a time is used in each of them: another's clean-up would delete what
this one relies on.  `OneFailureEach` does not need `calm`.  Three places hold a
count on its way to the row (the row, the failed-event listeners, the
auto-update), and each may be old: `Counts` says that what was read plus *all*
that is still to be counted is at most the updates that ended badly.  "Plus one"
is not inductive when two listeners have read the same row.

*The refinement.* `Carries` says what each command of the sidecar relies on:
once it is about to change `compose.yml` the tag it works on is the abstract
target, and when it says `complete` that version runs.  Each action is then one
of a few kinds: it leaves the abstract state alone, or it asks, takes, forgets,
resolves, stops, starts, finishes or gives up.

*KnowledgeBase.* As for downloads, with two more facts: a batch in the queue or
at work is one the file has, and what its chain has counted is less than its
number.

`OneCopyEach` speaks of the index; why it holds is in the queue.  The invariant
`Steady` says that a file's work is in one place at a time (`OneAtWork`): with a
job that waits, with the execution that took it, or with a request that is about
to queue it; and that nothing is stored beyond the batch reached there (`UpTo`),
so that what a retry stores was not.  An execution must have the data of its
job, which is still there (`Attached`), one request is answered at a time
(`OneTab`), and what a request has read and will queue later must still be free
and empty when it does (`Planned`, the longest part: a rescan holds on to what
it has read over four awaits, a rebuild over two).  Jobs with no attempt left
are where a file's work may vanish with a part of it stored, hence `Excused`.
The steps are sorted by what they do to the work: it rests, is added, taken,
goes on, is passed on, or left (`Rests`, `Adds`, `Takes`, `Goes`, `Passes`,
`Leaves`), with one lemma for each kind and one for each action saying of which
kind it is.

The other three hold while no call failed.  `Chains` adds the converse: all
batches before the one reached are stored and all of them were counted
(`Onwards`); at rest a file that has anything has everything and reads 'indexed'
(`AtRest`), a row that counts chunks counts all (`Counted`) and is not wrong
about them (`Backed`), and what is stored of a file that is gone has a request
that is about to purge it (`Gone`).  All of it is
said of the batches up to `Size`, a fixed number of each file whatever `Thin` is,
so nothing is assumed of where a ZIM has text.

*AppAutoUpdate.* All three properties relate the row to a history, through
copies of the row that runs, checks and users hold.  `CoolOffHonest` needs that
every copy that may be saved or acted on is *anchored*: the age it shows is at
most the time the version has been known (`Seasoned`).  `NotDisabledEarly` needs
that each copy's count is at most the failures that happened, and that a run at
work still owes the one it will count (`Counts`, `Owed`).  `MarkIsTransient` is
proved with all the ways a mark comes and goes, a refused update's included; a
mark that nobody at work accounts for can only be one the admin died with
(`KeepsDead`).

*ContentAutoUpdate.* `BudgetKept` holds because what the run has left, what it
has taken and what earlier runs of the window wrote down sum up to the cap at
most (`BudgetCovers`); across midnight this rests on the last reset being no
older than the window exactly while `used` belongs to it.  `AnchorHonest` is
again that every copy's anchor is backed by the history (`AnchorsBacked`).  For
`GoodCheckKeepsAnchor`, no hour passes while a check is under way, so what it
loaded differs from the row only by what was noted since, at age zero, or by a
download that completed (`ChecksBeside`).

*MapExtraction.* `NoPartLeft` needs that each half-made file has somebody who
will see to it (`PartHasOwner`: a job in the queue, a child, or a cancel request
about to delete it), and that once a child is past its work its file is not
half-made (`ChildWrites`), for which executions of one job must not overlap at
their child (`OneAtWork`).  `RecordedIsWhole` needs the same of the recorded
file (`RecordedIsSafe`), and that who finishes is alone at it
(`FinishingAlone`). `OneFile` needs that of the files nobody works on, and those
whose handle has nothing left to do, there is one at most (`OneKept`).

Only model-checked: the liveness properties (`FlagClears`, `UpdateEnds`,
`AdminComesBack`, `DownloadEnds`, `QueueDrains`, `KeepsUpOrGivesUp`,
`NoneStarves`), which with `ENABLED` are out of the prover's reach.  Nothing
here needs induction over data or recursive operators.

## 6. Plan

The order followed, most important to a user first: the app lifecycle, the core
update with its sidecar, downloads; then the knowledge base, the two other
auto-updates, the abstract updater and its refinement, map extracts.  What is
left, in the same order:

1. The safety part of the liveness properties as theorems: what a request or a
   job still has to do is bounded, and no step increases it.
2. The Wikipedia selection (`zim_service.ts`), a second row that the downloads'
   completion, failure and cancel all write.
3. Version comparison and the size enrichment of the catalogs against reference
   definitions over bounded inputs.
4. An abstract specification of an installed app (there, being replaced, gone)
   that `ServiceLifecycle` implements while one request is in progress.

## 7. Not modelled

* Kiwix XML and ZIM formats, names of files and versions, the catalogs' formats:
  parsing and formatting; versions are numbers and a name is what it names.
* Models and chat: streaming proxies to Ollama, whose state is not here; so are
  searches and prompts of the knowledge base.
* The Wikipedia selection, the one part of the content services with a state of
  its own that no module has yet.
* The benchmark: measurements and floating-point scores.
* Guards of custom apps: string policies; a rejected app changes no state.
* The web interface: presentation of what the API returns, and more than a
  third of the lines of the repository.  The installer: run once, by hand.
* The death of a queue worker alone, which nothing restarts
  (`install/entrypoint.sh`), is modelled only with its container's.

Most of the repository's lines are of these kinds; of what coordinates anything,
the modules cover the operations that change state.  `PROJECT.json` lists every
part with its reason.
