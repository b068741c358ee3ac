# robovast in TLA+: models, model checking and proofs

robovast runs simulation campaigns: it expands a scenario configuration into many
runs, packs them into jobs, executes the jobs on a Kubernetes cluster (or with docker
compose on one machine), collects the results and delivers them to a share. A search
campaign closes the loop: a strategy proposes parameter sets, a batch executes them,
their scores go back to the strategy.

This directory holds TLA+ models of the control logic of that program, TLC runs on
small instances and TLAPS proofs for all instances. Source paths below are relative to
`src/src/robovast/`; PROJECT.json maps every definition to the lines it models.

1. [The system](#1-the-system)
2. [The modules](#2-the-modules)
3. [The runs](#3-the-runs)
4. [Fairness](#4-fairness)
5. [The proofs](#5-the-proofs)
6. [Where code and words disagree](#6-where-code-and-words-disagree)
7. [What is not modelled](#7-what-is-not-modelled)
8. [Plan](#8-plan)

## 1. The system

A cluster campaign involves four kinds of processes: the operator's commands on a host
(`vast exec ...`), one controller pod for each campaign, the scenario jobs a controller
creates, and external services (Kubernetes, the Kueue queue, an object storage, a share).

```
 operator host                controller pod (one per campaign)         cluster
 -------------                ---------------------------------         -------
 setup, cleanup ---------------------- queue, rights, storage server -> (all of it)
 launch ---------------------> main thread ---- create / poll / delete --> jobs, pods
 monitor --- GET /status ----> control server                             ^   |
 stop, upload-to-share ------>   handlers -- events --> main thread       |   | results
 run-cleanup ------------------------------------ delete -----------------+   v
 download-cleanup ------------------------------- delete -------------> object storage
                               main thread -- compress, upload --> share
                               poller thread -- counts test.xml --> Status.runs
 results download <----------------------------------------------------- share
 results postprocess, publish: files of the results directory -> data.db, archives, Zenodo
```

A local campaign is a generated bash script that runs one docker compose stack after the
other. Both kinds start from the same generated configurations, which are cached.

### Components

| Component | State it keeps | Operations | What is hard | What makes it correct |
|---|---|---|---|---|
| Command channel (`execution/control_server.py`) | two events, the pending overrides, `Status` | handlers of `stop` and `upload-to-share`; `wait_for_retrigger` of the main thread | handlers run on worker threads, each statement interleaves with the waiting thread; the event is cleared before flag and overrides are read | an acknowledged command is never slept through; the newest arguments are handed out once; no retry without a request |
| Campaign controller (`execution/controller.py`) | position in the life of a campaign, phase and stage, share environment, provider | start-up checks, search or batch loop, finalize, upload with retrigger | every call fails somewhere; four ways back into the wait; a stop at any time; the pod killed at any step | exit code 0 means delivered; a parked controller says so; stop ends the search |
| Batch runner (`cluster_execution/kubernetes_backend.py`) | batch, jobs created, jobs still running | stage, create, poll one by one, collect, delete jobs and pods | several campaigns on one cluster; jobs queued, preempted, expired between two reads; deletion by label | results are collected after every job's end; nobody else's jobs are deleted |
| Scenario jobs (Kubernetes, Kueue, the pod's script) | job, pod, stored results | admission, preemption, end, expiry | external | (environment) |
| Clean-up commands (`cluster_execution.py`, `bucket_ops.py`, `execution_utils/cli.py`) | step, campaigns found running | hold queue, delete workloads, jobs, pods, controllers, storage, resume | nine calls, each may raise, beside live campaigns | other campaigns are untouched; what is deleted stays deleted; the queue is given back |
| Cluster set-up (`cluster_setup.py`, `kubernetes_kueue.py`, `kubernetes.py`, `cluster_config/`) | objects on the cluster, a flag file for each project and context | `setup`, `cleanup` | a dozen calls without a transaction; several namespaces and flag files on one cluster | the flag file tells the truth; a clean-up can remove whatever is left |
| Launcher (`controller_launcher.py`) | controller pods | reap, create, copy, start file | a call fails or the user presses Ctrl+C between create and start; sidecars outlive the controller | a pod starts only when everything is there; a failed launch leaves none that its own clean-up could delete |
| Monitor (`execution_utils/cli.py`, `control_client.py`) | port-forwards, campaigns counted as done | poll several controllers, fall back to Kubernetes | a listing, a port-forward and an answer of different moments | reports as ended what has ended, and returns |
| Search loop (`controller.py`, `search/`) | batch, groups, evaluations, best, stop history | ask, run groups, score, tell, decide | result directories outlive a batch; sets repeat; groups; criteria over windows | what was asked is told, each set with the results its own runs delivered; criteria are exact |
| Progress poller (`controller.py`) | baseline, total, flag, `Status.runs` | begin and end of a batch; count, subtract, publish | plain attributes shared by two threads without a lock | a sample of this batch shows this batch |
| Upload and share providers (`in_pod_upload.py`, `share_providers/`), download and import (`results_processing/cli.py`) | remote file, saved session, `.part` file, directory | compress, upload with resumption, remove; download with resumption, extract | both directions trust lengths left by earlier tries | a reported success is a whole archive on the share; a partial file has every block in its place |
| Packing (`execution/packer.py`) | none (pure) | work items to jobs | boundaries | every item in one job, consecutive |
| Local execution (`backends.py`, `execute_local.py`) | generated bash script: signal counter, compose process, exit status | run jobs, interrupt, stop | traps against the job loop, compose stacks that outlive their client | no container is left, exit status 0 means that everything passed |
| Configuration generation and cache (`config_generation.py`, `file_cache*.py`, `common/execution.py`) | two entries for each key, with markers | look up, generate, store, prepare a campaign directory | several processes without a lock; a crash or an edit between two steps | a campaign is prepared from the files as they are |
| Results analyzer (`worker_thread.py`, `result_analyzer.py`) | queue, list of workloads, cancel flags, tabs | select, cancel, run, emit, close | GUI thread against worker thread | what is shown is the last selection |
| Post-processing (`postprocessing.py`, `postprocessing_plugins.py`, `rosbags_process.py`) | outputs, cache file for each bag, provenance, data.db | batch the commands, process bags in a pool, record | growing bags, failing handlers, killed workers, interruption | what a cache file vouches for was ended and made from the bag as it is; what was made is recorded |
| Publication (`publication.py`, `publication_plugins/`) | archives, the record id, the record on Zenodo | pack, create, delete and upload files, push metadata | each request fails; the command is repeated; the user edits the draft | what is on the record is whole, and a success has lost nothing that was there |
| Merging of campaigns (`merge_results.py`) | none | group by identifier, renumber, copy | nothing | not modelled, see section 7 |
| Store and index (`common/store.py`, `campaign_index.py`) | sqlite files, schema version, mtimes | migrate, rebuild | staleness by mtime | not modelled, see section 7 |
| Variations, configuration and project files, configuration editor, MCP server, metadata graph, notifications, pod scripts | files | transformations and queries | little | not modelled, see section 7 |

PROJECT.json lists these with their status, and every hazard of the code at its line with
the properties that watch it.

## 2. The modules

| Module | Extends / instantiates | Models |
|---|---|---|
| `RetriggerMailbox` | | abstract: what the command channel promises |
| `ControlChannel` | `RetriggerMailbox` (refinement) | `ControllerState`: handlers and wait, one statement per action |
| `Controller` | `ControlChannel`, `RetriggerMailbox` (refinement) | main thread of the controller pod, composed with the handlers |
| `ScenarioJobs` | | life of a job on the cluster, as far as runner and commands see it |
| `BatchRunner` | `ScenarioJobs` | `run_batch_in_pod` for several campaigns side by side |
| `ClusterCleanup` | `BatchRunner` | the operator's clean-up commands beside the runners |
| `ClusterSetup` | | set-up and clean-up of a cluster by several operators |
| `CampaignPods` | | launch, monitor, stop and upload-to-share, over several controller pods |
| `ProgressPoller` | | poller thread and begin/end of a batch, one statement per action |
| `SearchLoop` | `ProgressPoller` | search loop, stop conditions and scoring, composed with the poller |
| `ShareTransfer` | | an archive's way from the controller over a share to the results directory |
| `JobPacking` | | work items to jobs (pure) |
| `LocalRun` | `JobPacking` | the generated script, its traps, the containers, its caller |
| `ConfigCache` | | generation of configurations, its cache, campaign directories |
| `AnalyzerWorker` | | GUI thread and worker thread of the results analyzer |
| `Postprocessing` | | `vast results postprocess` |
| `Publication` | | `vast results publish` |
| `Controller_proofs` | `Controller`, TLAPS | theorems of `ControlChannel` and `Controller` |
| `ClusterCleanup_proofs` | `ClusterCleanup`, TLAPS | theorems of `BatchRunner` and `ClusterCleanup` |
| `ClusterCommands_proofs` | `CampaignPods`, `ClusterSetup`, TLAPS | theorems of both |
| `SearchLoop_proofs` | `SearchLoop`, TLAPS | theorems of `SearchLoop` and `ProgressPoller` |
| `ShareTransfer_proofs`, `ConfigCache_proofs`, `Publication_proofs` | the module proved, TLAPS | its theorems |
| `Workstation_proofs` | `AnalyzerWorker`, `LocalRun`, `Postprocessing`, TLAPS | theorems of these and of `JobPacking` |
| `MC*` | the module checked | constants of the TLC runs |

Definitions commented as "Mutant" are plausible bugs of the definition that follows them.
They are no part of any specification: put in its place, each of them makes TLC find the
property that is paired with it in PROJECT.json violated.

### ControlChannel, RetriggerMailbox

`stopEvent`, `retriggerEvent` and `overrides` are the fields of `ControllerState`. FastAPI
runs a synchronous handler on a worker thread, so `request_stop` is two actions
(`IssueStop`, `SignalStop`), `request_upload` two (`StoreOverrides` is the locked block,
`SignalUpload` the `set()`), and `wait_for_retrigger` five (`WakeUp`, `ClearEvent`, then
`Abandon` or `GoOn`, `TakeOverrides`). `handler[r]` says how far the handler of request `r`
is; "done" means that the client has its answer. `handed`, `unserved` and `retries` are
history. The module has no run of its own: it is checked as part of `Controller`, which
drives it.

The mailbox forgets events, locks and flags: a parked caller, the newest arguments, the
requests no retry has served, a stop. Its caller may die at any moment (`Die`). `newest` is the pending `overrides`, a caller is parked
from `EnterWait` to the return, and `mayRetry` says that a thread past the check of the stop
flag may still hand out the retry it has decided on.

### Controller

`pc` names the next call of the main thread, in the order of `main`, `run`, `_finalize` and
`_upload_to_share_with_retrigger`; `phase`, `stage` and `bar` are what `/status` publishes.
A campaign is a sequence of batches whose contents play no role here (they are in `BatchRunner`
and `SearchLoop`). Every call of storage, share, strategy or cluster has an action in which
it fails, with the handler that the code has at that place (or none: `CreateCampaignFails`,
`BuildFails`). `shareEnv` is the process environment that the overrides of a retry change
for good (`Overlay`: what a payload sets and what optional variables survive it); `provider` is
the object built from it; `deliveredTo` is where the archive went, which for providers in
`Sessions` (they resume a saved session that knows its own bucket) may be the target of an
earlier attempt that failed (`tried`).
`channel` is the `state is not None` the code tests, `server` says that the server thread
has come up; without it no handler runs. `Kill` removes the pod at any step (the controller
has `restartPolicy: Never` and keeps nothing to restart from). `PodImplementsMailbox` maps
the whole pod to the mailbox, fairness included: a killed or exited controller is a dead
caller.

### ScenarioJobs, BatchRunner

A task is one packed job of one batch of one campaign. Its job object is named
`<NameKey, batch, index>` and labelled `Label`: the code makes the name from six letters and
a time and cuts the label to 63 characters, so both are functions of the campaign that need
not be injective. `Admit`, `Preempt`, `Complete`, `Fail` and `Expire` are Kubernetes and Kueue
(external, modelled from the job template and from what the runner reads).

`CreateJob` treats a job that exists as its own (409), `ReadStatus` is one API read of a poll,
so jobs move between two reads; `StillRunning` counts a job that is not there as finished
(404) and a suspended one as running. `CleanJobs` deletes by label and may fail (logged), `Raise`
is a storage or API call that ends the runner. Only the campaigns in `TimeLimited` have
`activeDeadlineSeconds`: `execution.timeout` is optional.

### ClusterCleanup

One process `o` for each command, `op[o]` its next call: `StartRunCleanup`, `HoldQueue`,
`DeleteWorkloads`, `DeleteJobs` (Foreground), `ClearFinalizers`, `DeletePods`, `ResumeQueue`,
`DeleteControllers`, then with `--data` `CountJobs` and `DeleteData`; `StartDownloadCleanup` enters
at the count. `DeleteWorkloads` also takes the finalizers of all workloads in the queue, whatever
`--campaign` says (`stripped`); `DeleteData` empties every bucket or prefix whose name stands for the
campaign (`StorageNames`: its id, or that sanitized). `CallFails` ends a command where the code lets an exception through; calls
whose failure is only logged may have no effect. A controller that is removed stops
(`pc[c] = "stopped"`); the action sits beside every step of its runner. `TerminationEnds`
and `OrphanEnds` are Kubernetes.

### ProgressPoller, SearchLoop

`_begin_batch_progress` (four statements), `_end_batch_progress` (two) and the rounds of
the poller (check, count, subtract, cap, publish) interleave, because the two threads share
plain attributes. `fresh` records that a round began after the baseline of the current batch
was taken, `trusted` that the count behind the baseline did not raise (it is 0 then).

In `SearchLoop` a parameter set is an assignment and its repetition count; `disk`
records for each configuration directory and run number whose run wrote `test.xml` there.
The directory is named by `Digest`, a hash of the assignment cut to twelve digits, which need not
be injective, and lives as long as the campaign: a set that is proposed again finds its earlier
results, and two sets of one name each other's. `limit` is the `batches` budget or 0: without
one only the other criteria, a stop or an exception end the search (`MaxBatches` bounds what TLC
explores of it, and fairness does not reach past that bound). `Ask` lets the strategy propose anything. `Composes`
is what compose and staging accept: no two sets of one name in a group, and on Kubernetes one
repetition count for each batch. `RunGroup`, `EndOfRun`, `EndGroup` and `Score` run and score the
groups, smallest count first; `RaiseInBatch` and `RaiseInLoop` are exceptions. `Tell` draws the
best value of the batch from `Values` or none; `StopSearch` and `NextBatch` record the history and
evaluate the criteria in the order of the code.

### ClusterSetup

An operator `o` types commands, `cmd[o]` says which one runs and its next call. `setup`
installs Kueue (`InstallKueue`), applies the queues (`ApplyQueues`, with the retries while
definitions of an earlier release are being collected), creates the controllers' rights one
by one (`GrantRight`), the storage server of the provider object by object (`CreateObject`,
where an object that is there is an error) and writes the flag file (`SaveFlag`). `cleanup`
takes all this away in reverse, some of it best-effort. `Fails` stops a command at any call,
an interrupt included. `there` is the set of objects on the cluster; `crds` and `finalizers`
are what the retries are about. A slot is a flag file: the file is named after the
`--context` option as it was typed, so two slots may mean the same cluster. `spoiled` and
the fields `calm` and `crossed` are history. The campaigns that `cleanup` removes first, and
the queue's stop policy, are in `ClusterCleanup`.

### CampaignPods

For each campaign: where its launching process is (`launcher`), its pod as Kubernetes sees it
(`pod`), what has been copied into it (`staged`), what its controller does (`stage`, the order
of phases of `Controller`). The monitor is `Tick`, `Ask`, `Poll`, `EndTick`: one listing per
tick, port-forwards kept from tick to tick, one answer per step, so that pods change between
any two of them; `done` only grows. Without any controller it falls back to the jobs
(`WatchJobs`). `LaunchFails` and `Interrupt` are an exception and a Ctrl+C between two calls
of a launch: only the first deletes the pod, and that delete may fail too (`undeleted`). `LosePod`, `LoseApi`, `RegainApi` are the
environment.

### ShareTransfer

A file is a sequence of blocks `<<version, position>>`. Compressing a campaign again gives the
same archive when the storage is S3 (`stable`: the tar members have time 0) and another one,
maybe of another length, when it is GCS (file times of the download). The uploader `up` has
the resumption of each provider: WebDAV from the length of the remote file, GCS from a saved
session, Nextcloud and SFTP from the start. The other side is `call`, a download or import:
it resumes from the length of its `.part` file with a Range request, renames, extracts, and
skips a directory that is there. Assumed of the environment: nobody removes the archive
during an upload attempt; servers honour or reject a Content-Range; GCS, Nextcloud and SFTP
servers honour Range (the constant `Ranged` says which others do).

### JobPacking, LocalRun

`JobPacking` gives each work item its position and each job its chunk. `LocalRun` is the
script as it is generated: `pc` its next command, `sigints` its counter, `pending` the signals
that bash handles between two commands (only `wait` is interrupted by one). `compose`, `box`
and `secondary` are what docker runs: `docker compose up` may be gone while its containers
are not. `python` is the caller `DockerBackend.run_batch`, which gets the same Ctrl+C as the
script. `conf` is drawn at the start, for all ways to call the script: with `--start-only` the
shell comes up in the terminal, or, with secondary containers or from a search, as a container
that nothing ends.

### ConfigCache

The project's files are a version; a version also stands for what was generated from it. The
two entries of a key, metadata and archive, are each a file and a marker, written in steps
(`StoreMeta`, `WriteMeta`, `MarkMeta`, `Pack`, `Fill`, `Commit`) by processes that do not lock
one another; `Kill` and `StoreFails` stop one anywhere, `Edit` changes the project between a
process' load and its key. `CutOff` is a file that does not parse, `shared` and `linked` tell
whose file a writer is filling. `Prepare` makes a campaign directory of what the call returned,
with the identifier computed from it.

### AnalyzerWorker

`gui` and `wpc` are the next statements of the two threads. A selection cancels the workloads
one by one, empties the queue and puts a task (`AddTask`); another campaign's notebooks first
replace the list (`SetWorkloads`). The worker takes the newest task, resets the cancel flags
and goes through the list it finds at that moment (`list`), not the one of the task. Results
travel as queued signals (`events`).

### Postprocessing

`steps` is the list of commands after batching: all rosbag handlers become one step. A bag's
task in the pool is `pool[b]`: fingerprint, cache look-up, reading, writing by handler, cache
file. `version[b]` grows while a campaign is recording. `out` says which version each handler's
files are of, and whether they are complete, lack messages that were passed over (an error in one
message is logged and the cache file written all the same) or are half written. Faults are
handlers that cannot begin, bags and steps that fail, a worker killed by the system, and
Ctrl+C; unreadable messages and unreadable CSV files (which data.db then lacks) may occur at any
time. `prov` and `db` are postprocessing.yaml and the tables of data.db.

### Publication

The zip plug-ins pack each campaign, or the one of `--campaign` (`disk`: none, of the raw or the
post-processed directory, cut off). `layout` says which file an entry writes for a campaign
(`Path`) and under which name it goes to the record (`Name`, the last component): two entries may
share names in two directories, or write the same files. Then the Zenodo plug-in finds or creates the record, saves its id, deletes
and uploads files one by one and pushes the metadata field by field. `run` is the command with
its options; overwrite policies and answers to questions are drawn. The user publishes a
draft or edits its title in the browser, and new campaigns arrive.

## 3. The runs

| Run | Instance | States | Checks | Shows |
|---|---|---|---|---|
| `controller` | 1 stop, 2 uploads, 3 targets (two buckets with saved sessions, one share without), each with and without the optional prefix | 525 k | `NoLostWakeUp`, `ExitZeroMeansDelivered`, `ParkedIsReported`, `StopEndsSearch`, `StopEndsController`, `PodImplementsMailbox` | the whole life of a controller, every call failing, killed at any step, handlers interleaved statement by statement; it keeps the mailbox's promises, liveness included |
| `batch_runner` | 2 campaigns, one with a time limit, 2 batches of 1 job | 181 k | `CollectsAfterEnd`, `CleanupSparesRunning`, `RunnersEnd` | campaigns side by side do not disturb one another; every runner ends unless a job without a time limit does not |
| `cluster_cleanup` | 2 campaigns of 1 batch, 1 command of any kind | 2908 k | `SparesOthers`, `OthersCollectAfterEnd`, `DeadStaysClean` | a clean-up at any moment of two running campaigns |
| `cluster_setup` | 2 operators, 2 flag files, 2 namespaces, 2 providers, 3 commands, 1 fault | 1413 k | `FlagMeansSetUp`, `CleanupRecovers`, `CleanupLeavesNothing` | set-ups and clean-ups interleaved call by call |
| `campaign_pods` | 2 campaigns, one with a sidecar, 1 outage | 319 k | `FailedLaunchLeavesNoPod`, `RunsAsStaged`, `DoneMeansEnded`, `MonitorReturns` | launches that fail or are interrupted at any call, the delete after a failure included; a monitor beside them |
| `search_loop` | 3 assignments, two of one name, 2 sets for each batch, 1 or 2 runs each, a budget of 2 batches or none | 852 k | `ToldWhatWasAsked`, `OwnResultsCounted`, `NoImprovementExact`, `FreshSamplesRight`, `SearchEnds` | repeated sets, colliding names, lost results, exceptions, a stop after any batch, the poller interleaved |
| `share_transfer` | 6 shares of 4 kinds, archives of 2 and 3 blocks, 2 faults, 2 commands, 1 removal | 1629 k | `ReportedIsWhole`, `PartIsInPlace`, `ForcedCallRecovers` | uploads and downloads cut off and resumed, to and from changing shares |
| `local_run` | 2 configurations, 4 runs each, 3 to a job; 3 presses of Ctrl+C, 1 SIGTERM | 127 k | `NoContainerLeft`, `ZeroMeansAllPassed`, `ScriptEnds` | every way to call the script, a scenario or shell that may never end, signals at any moment; the last job is a smaller one, and one job holds two configurations |
| `config_cache` | 2 processes, 2 versions, 1 fault, 1 campaign | 2197 k | `UpToDate`, `ArtifactsMatch` | two processes on one cache, an edit or a kill between any two steps |
| `analyzer` | campaigns of 2 and 1 notebooks, 3 selections | 462 k | `LastSelectionShown`, `NeverBackwards`, `SelectionAnswered` | selections at any moment of the worker, errors, closing the window |
| `postprocessing` | 3 bags, 2 workers, 2 versions, 3 calls, 1 fault | 1118 k | `CachedIsCurrent`, `MadeIsRecorded`, `CallEnds` | bags that grow, failures and interruptions at any step, messages and files that cannot be read, repeated calls |
| `publication` | 2 zip plug-ins that share names or files, 2 campaigns, 2 records, 1 fault, 1 edit, 2 calls | 7466 k | `UploadedAreWhole`, `Delivered` | requests and writes that fail, a killed command, its repetition |

Every module also states a type invariant. They hold of the same instances when they are
named in the configuration; no run names them, because several are implied by what the
runs check and the rest say little. They are proved, for `Postprocessing` without the sequences of
handlers in cache files and steps. No run names `RetriesAreRequested`, `EarlierBatchesCollected`,
`BarOnlyWhileUploading`, `LaunchSparesOthers`, `OneRecord` and `DbRowsCurrent` either, which are
proved, and `JobsViewRemembers`, which is in the proved invariant of `CampaignPods`.

Bounds, and why they are enough:

- *Requests* (`Stops`, `Uploads`). Each is received at most once; a client that repeats a command
  sends another. One stop and two uploads put a half-done handler and a later one against
  each statement of the wait. The lost-wake-up proof holds for any number.
- *Batches and jobs* (`MaxBatches`, `Width`). What a batch can inherit from the one before needs
  two. Polls of several jobs, read one by one, are covered by the proofs, which hold for any
  `Width`.
- *Commands* (`Operators` of `ClusterCleanup`). One. Two commands that hold and resume the same
  queue undo one another by design of the single stop policy; nothing better than for one
  command is claimed.
- *Set-up* (`MaxCalls`, `MaxFaults`, `Rights`). Two set-ups and a clean-up, or a half-finished
  command, its repair and a bystander. One namespaced and one cluster-wide object stand for
  the five of the code, which treats the objects of each sort alike.
- *Search* (`BatchLimits`, `MaxBatches`, `Patience`, `Values`). Two batches with patience one have a
  window and the batch before it, so a window that slips by one is seen; the proof holds for any.
  A search without a budget is followed for one batch. `Values` needs a better and a worse
  value, and "none" is added to them. Of three assignments two have one name.
- *Archives* (`Length`). Two blocks are the least that can be cut in the middle; versions of
  different lengths make a resumed file too short or too long. Two faults: one to leave
  something behind, one to disturb the attempt that finds it.
- *Versions* (`MaxVersion`). One edit, or one growth of a bag: a second makes no stale file staler.
- *Faults.* One per behaviour where each fault ends a command, so that the next command meets
  what the first has left; what two faults in a row leave is again such a state.
- *Signals* (`MaxPresses`, `MaxTerms`). The script counts presses up to the second; the third
  comes while the second is being handled.
- *Selections* (`MaxTasks`). Three: one that runs, one in the queue, one being handled.
- `retries` and the batch counters are bounded by the requests and by the limits; `lateBatches` is
  capped at 2 and claimed to be at most 1.

`CHECK_DEADLOCK FALSE`: in every module the program may really stop (an exited controller, a
finished runner, an ended command); liveness properties say where it may not.

Symmetry is used in `config_cache` (processes) and `cluster_setup` (operators, flag files),
runs of safety properties only.

## 4. Fairness

- `Controller`: weak fairness of the main thread's steps, that is batches end and each
  call of a storage or share client returns, well or not; and of the second halves of
  handlers. Nothing is assumed of clients, of the outcome of an upload or of the criteria.
  The mailbox assumes the same of its own steps, which is what the refinement shows.
- `BatchRunner`: weak fairness of each runner's thread, of admission by an open queue, and of
  expiry; for campaigns with a time limit strong fairness of the end of a pod, since an admitted
  job may be preempted and admitted again, but has `activeDeadlineSeconds` and is not preempted
  for ever. The limit is optional (`config.py:164`, `kubernetes_backend.py:152`): of the jobs of
  other campaigns nothing is assumed, neither that they end nor that the queue admits anything
  beside them, and `RunnersEnd` names them as the one reason for a runner not to end. `Raise` is
  never required to happen.
- `SearchLoop`: weak fairness of main thread, poller thread and the ends of runs. `SearchEnds` claims
  an end for searches with a `batches` budget and for those that something has stopped.
- `CampaignPods`: weak fairness of the monitor's loop, of the end of an outage and of the end of
  scenario jobs. Nothing is assumed of controllers: `MonitorReturns` has their end as its premise.
- `AnalyzerWorker`: weak fairness of the two threads; a notebook's execution ends (with a result
  or an error). The user need not select anything.
- `LocalRun`: weak fairness of the script, of docker (`docker compose down` and `kill` return), of
  containers that were told to stop, and of the Python caller. Nothing enforces the time limit
  of a scenario (`execute_local.py:750`), and nobody need leave the shell of `--start-only`: that
  one of them goes on for ever is the exception `ScriptEnds` names.
- `Postprocessing`: weak fairness of the program as a whole. Not of a worker that the system has
  killed, which is the exception `CallEnds` names.
- `ClusterCleanup`, `ClusterSetup`, `ShareTransfer`, `ConfigCache` and `Publication` state safety
  properties only: their commands are loops over finite lists, of calls that return.

## 5. The proofs

TLC checks small instances; these theorems hold for all values of the constants.

| Theorem | Says |
|---|---|
| `ChannelInvariant` | the inductive invariant of the channel |
| `ChannelNoLostWakeUp` | `NoLostWakeUp` for any requests and payloads |
| `ChannelRetriesAreRequested` | no more retries than acknowledged upload requests (`RetriesAreRequested`) |
| `ChannelImplementsMailbox` | every statement of handlers and wait is a mailbox step or a stutter |
| `ControllerImplementsMailbox` | the safety half of `PodImplementsMailbox`: the whole pod is a mailbox that may die |
| `ControllerIsChannel`, `ControllerNoLostWakeUp` | the controller implements the channel's specification, so what is proved of the channel holds of it |
| `ControllerInvariant` | the inductive invariant of the controller |
| `ControllerDelivers` | exit code 0 means delivered: to the target as last corrected or, between providers that resume saved sessions, to that of an earlier attempt that failed (`ExitZeroMeansDelivered`) |
| `ControllerParkingReported`, `ControllerBar` | what `/status` says of a parked or uploading controller is true |
| `ControllerStopEndsSearch` | at most one batch after a stop request |
| `RunnerInvariant` | the inductive invariant of the batch runners |
| `RunnerCollectsAfterEnd`, `RunnerCollectsEverything` | results are fetched after every job's end, and none of an earlier batch is left behind |
| `RunnerCleanupSparesRunning` | the clean-up of a batch touches no unfinished job of any campaign |
| `CleanupDeadStaysClean` | what a command deleted of a dead controller's campaign does not come back |
| `CleanupSparesOthers` | a command for one campaign touches no job, pod, controller or result of another, whose storage may be named by id or sanitized id (`SparesOthers`) |
| `CleanupOthers`, `CleanupOthersCollectAfterEnd` | the runners' invariant for every campaign that nobody cleans, and that it still fetches only complete batches |
| `PodsInvariant` | the inductive invariant of launcher, pods and monitor |
| `PodsFailedLaunch`, `PodsRunAsStaged` | a failed launch leaves no pod unless its own delete failed too; a campaign runs only from what its launch has copied, all of it |
| `PodsDoneMeansEnded` | without an outage the monitor counts no running campaign as ended |
| `PodsSpareOthers` | no launch takes down another campaign's live controller (`LaunchSparesOthers`) |
| `SetupInvariant` | the inductive invariant of set-ups and clean-ups |
| `SetupFlagMeansSetUp` | what a flag file stands for is on the cluster |
| `SetupCleanupRecovers`, `SetupCleanupLeavesNothing` | an undisturbed clean-up goes through, whatever half-finished commands left; one that reports success leaves nothing it was not refused |
| `SearchInvariant` | the inductive invariant of search loop and poller |
| `SearchToldWhatWasAsked`, `SearchOwnResultsCounted` | the strategy gets the evaluations it asked for, in each the results that the runs of its own slot delivered, whatever names collide |
| `SearchNoImprovementExact` | the criterion fires exactly at stagnation, for any patience, delta and values |
| `SearchFreshSamplesRight` | a sample of the current batch has its total and no run too many |
| `TransferInvariant` | the inductive invariant of an archive's way |
| `TransferReportedIsWhole`, `TransferPartIsInPlace`, `TransferForcedCallRecovers` | the three properties of the run, for any shares, lengths and numbers of failures, S3 and GCS storage |
| `TransferPartIsPrefix` | with a single archive (S3 storage, or no second compression) the `.part` file is a beginning of it |
| `CacheInvariant`, `CacheUpToDate`, `CacheArtifactsMatch` | the invariant of the entries; the two properties of the run, for any number of processes, versions, kills |
| `PublicationInvariant`, `PublicationUploadedAreWhole`, `PublicationDelivered` | the invariant of the command; no archive that was cut off is uploaded, unless two entries write one file; success means that each archive is there, or a later one of its name |
| `PublicationOneRecord` | one record for each campaign and each fault, at most |
| `AnalyzerInvariant`, `AnalyzerLastSelectionShown`, `AnalyzerNeverBackwards` | the invariant of the two threads; the last selection is not lost; no tab goes back |
| `LocalPackedOnce` | packing puts every run into exactly one job, for any sizes |
| `LocalInvariant`, `LocalNoContainerLeft`, `LocalZeroMeansAllPassed` | the invariant of the script; it leaves no container; exit code 0 means that all runs passed |
| `PostInvariant`, `PostCachedIsCurrent`, `PostMadeIsRecorded`, `PostDbRowsCurrent` | the invariant of post-processing; a cache file vouches for ended files of the bag as it is, but for messages passed over; what was made is recorded; data.db shows no file as it was before |

Besides these each of the modules (but `ShareTransfer` and `Postprocessing`, where the invariant
includes the types) has a theorem `...TypeCorrect` for its type invariant.

**The channel.** `NoLostWakeUp` speaks of a thread in `wait()`, and the signal may have been
consumed on the way there. `ChannelInv` says where an acknowledged command is: in the event, or
with a thread that has cleared the event and not yet read what the command left (`StopInFlight`,
`UploadInFlight`), and that a handler past its first statement has left its mark (`MarksLeft`).
That the flag is set before the event, and the event cleared before the flag and the overrides
are read, is what makes each part inductive. The refinement needs from it that an
abandoned wait had a stop. `RetriesAreRequested` compares a number of retries with a number of
requests, and the event forgets how often it was set; `RetriesPaid` counts a set event and a
decision to retry as one retry each, as long as no stop was issued: a stop also sets the event, but
by then its flag is up, and a thread that wakes up for it abandons.

**The controller.** `ControllerIsChannel` maps each action to a channel action or a stutter; the
channel's invariant then carries over. `ControllerInv` adds what the main thread knows
at each `pc`: the waiter is inside the call exactly while it waits, the provider in use was built
from the environment as it is (except between a failed attempt and the next rebuild:
`ProviderIsCurrent`), delivery is to that provider or to the session of one that was tried, every way into the wait has reported it, and
a batch opened after a stop is the last one. For the refinement of the pod, `PodEnds` separates the
kill, which is the mailbox's `Die`, from the steps before it, which are those of the channel, and
shows that nothing happens after it.

**The batch runners.** `CollectsAfterEnd` rests on the poll, which reads jobs one by one while they
move. `RunnerInv` says that a submitted task has ended or still has its job (`NoneLost`), that a
finished job belongs to an ended task and an unfinished one to one that has not
(`StatusTellsEnd`), that the part of a poll that is done has missed nobody (`PollSound`), and that
only tasks a runner has reached have jobs (`OnlyReached`: a job found by name is then the
runner's own). Assumptions: `NamesDistinct` (no two campaigns share six letters and a time) and
`LabelsDistinct` (no two ids agree in 63 characters). They are hypotheses of the theorems, not
ASSUMEs, because the code does not enforce them; section 6 says what happens without the second.

**The pods.** `DoneMeansEnded` is about answers, port-forwards and a listing of three different
moments. `Inv` says of each campaign that launcher, pod and controller agree (`Orderly`: no
controller runs in a pod whose start file is missing, no pod is live before its launch or after
its end), that every port-forward was opened to a launched pod (`ChannelsLaunched`), and that
without an outage a pod the last listing did not show has ended for good (`ListingHolds`): this
is what lets the monitor use the listing of the start of a tick at its end.
`LaunchSparesOthers` needs that a listed pod had ended, and that no ended pod lives again.

**The clean-up commands.** `AloneInv` needs nothing of names and labels: it relates how far each
command has come to what can still be there of the campaigns it is for (`DeadInv`); a dead
controller creates nothing, and Kubernetes' own steps only take away. For the campaigns that
nobody cleans `OthersInv` repeats the runners' invariant task by task: a command that selects by
another label cannot reach their jobs. That needs the two hypotheses of the runners.

**Set-up.** Two operators may run commands at once, and almost anything can then be taken away
from under either; what is claimed is about commands that met nobody (`calm`) or nobody of the
opposite kind (`crossed`). `AwareInv` says that these notes are kept on both sides, `AimedInv`
that no clean-up is under way in the namespace of a flag file that counts, `ProgressInv` what a
command has already created or deleted. `RightsAssumption` names the five kinds of objects of the
controllers' rights.

**Search.** `ToldInv` matches the evaluations one for one with the slots that have been scored.
`ResultsInv` says where the results delivered in this batch are: in the evaluation of their slot
or, for the group at work (`GroupInv`), still in the directory and under the run number they were
written to, since the sets of one group have names of their own. `DiskInv` says that the files
are finitely many, so that they can be counted; `StopInv` relates the history to the best values. `PollInv` says which numbers of the poller's current round are of the current batch: a fresh
round has read baseline and total after both were set. Assumed: there is a parameter set, and
the repetition counts have a greatest one.

**Transfer.** A file is compared with an archive block by block. `SendInv` says what of which
compression has arrived, for each way of resuming; `DownloadInv` that what a download still has to
receive continues what it has; `CopiesInv` what removed and replaced archives leave, which with several
compressions may be a file of blocks of two archives, each block in its place;
`CalmInv` what an undisturbed forced call has done so far. The lemmas on prefixes and
concatenations of files are in the same module.

**Cache.** `KeyInv` and `ResultInv` say what a process knows between its load and its answer,
`EntriesInv` that an entry whose marker is there and whose file parses is of one generation,
or its key is among those that an edit has spoiled.

**Publication.** Two entries may write one file and two files may have one name. `ZipInv`: an archive
that a plug-in has made is on the disk, and whole unless another entry writes the same file
(`OnDisk`). `UploadInv`: an archive that the upload has passed is in the record, or a later one of
its name is (`There`), and no file of the record is lost but the one being replaced (`StillThere`).
`RecordInv` gives each record of Zenodo an owner: a campaign directory that saved its id, the command
that is about to, or a fault.

**Analyzer.** `OrderInv`: results arrive in the order of their selections. `AnswerInv` says who has to
do something about the last selection: the queue, the worker (with no cancellation left for the
part of the list it has not reached), or nobody, and then each tab has its answer or it is on
the way. Assumed: some campaign has the greatest number of notebooks.

**Local runs.** `LiveInv` says at which commands of the script a container can be alive, `BoxInv`
how the main container ended and what the script believes of it, `ResultInv` which jobs have
passed and are linked; `SignalInv` which signals are still to be handled. That exit code 0 means
that all runs passed follows from the packing: an item's job is the quotient of its
position, so that each run is in exactly one.

**Post-processing.** `TaskOf` orders what a worker knows of its bag in time: the fingerprint it
took, what it reads, the bag as it is. `WholeOf` is then the property for bags that nobody is
writing: each file is what the handlers make of the bag as it is, some of its messages perhaps
passed over. `DbInv`: a table has the rows of the file as it is, or none of a file that could not
be read. `MadeInv` follows a file from the worker that made it over the report of its step to
the entries of the call and to the provenance file.

**Only model-checked.** Liveness (`PodImplementsMailbox` beyond its safety half,
`StopEndsController`, `RunnersEnd`, `SearchEnds`, `MonitorReturns`, `SelectionAnswered`,
`ScriptEnds`, `CallEnds`), which the prover does not handle, and `PostTypeOK` as far as it speaks of
the batched steps: `Batch` selects from sequences, which is a recursion over data. All other
properties of the runs are theorems.

## 6. Where code and words disagree

Each of these properties is taken from the repository's own words, stated at the end of its
module, and violated by what the code does: named in the configuration of its module (changed where
noted), TLC finds it so. No run expects that.

- `UploadingMeansPublished` (`Controller`): phase `uploading` is documented as "campaign published to
  storage", but a failed finalize hook is swallowed and the upload goes on.
- `FailedUploadWaitsForUser` (`Controller`): on a failed upload the controller is documented to stay
  alive; a stop that ended the search is never cleared and abandons that first failure at once.
- `DeliveredWhereAsked` (`Controller`): a retry may pass "even a different share type"
  (`controller.py:490`), but a resumable session saved for one GCS bucket is found again by the
  archive's path alone (`gcs.py:239`): exit code 0 with the archive in the bucket that failed.
- `CleanupSparesRunning` with equal labels (`BatchRunner`): the label is said to keep the full campaign
  id, it is cut to 63 characters, and the end of a batch deletes by it.
- `NothingLeft` (`ClusterCleanup`): run-cleanup deletes the controller after the jobs, so a live
  controller leaves new jobs behind.
- `OthersWorkloadsKept` (`ClusterCleanup`): with `--campaign` only that campaign's resources are said to
  be removed (`cluster_execution.py:63`); the finalizers of every workload in the namespace are
  stripped (`kubernetes_kueue.py:284`).
- `QueueReopened` (`ClusterCleanup`): an exception between hold and resume leaves the queue on hold.
- `LiveDataKept` (`ClusterCleanup`): a campaign between two batches has no jobs and counts as
  finished, and its results are deleted.
- `ForcedSetupWorks` (`ClusterSetup`): `setup --force` is there to set up again, and always fails on
  a cluster with its own storage server: an object that exists is logged as skipped and then
  raised (`kubernetes.py:82`).
- `QueuesCoexist` (`ClusterSetup`): names are chosen so that set-ups in different namespaces coexist,
  but the clean-up of one uninstalls Kueue for all.
- `NoServerForgotten` (`ClusterSetup`): a forced set-up for GCP over another provider overwrites the
  flag file, the only note of the storage server in the cluster.
- `IdentifiersUnique` (`ConfigCache`, with `MaxCampaigns = 2`): "to produce a unique identifier" (`config_identifier.py:19`);
  it is computed from a configuration block that a result from the cache has lost
  (`config_generation.py:812`), so that different configurations get the same one.
- `ResultsAddressable` (`SearchLoop`): the name of a set's directory is to keep results "addressable per
  param set" (`types.py:41`); it is a hash cut to twelve digits, and two sets that share it count
  each other's results of earlier groups and batches.
- `NoPodLeftWaiting` (`CampaignPods`): "don't leave a pod hanging on the sentinel forever"
  (`controller_launcher.py:504`); the delete that is to prevent it may fail itself.
- `OwnNotebooks` (`AnalyzerWorker`): set_workloads is said to be safe while the worker runs; a task
  of one campaign may run the notebooks of another, since the list is read when the task begins.
- `FirstPressShutsDown` (`LocalRun`): the first Ctrl+C is documented as a graceful shutdown, but
  the Python caller gets it too: `subprocess.run` (`backends.py:174`) gives the script a quarter of
  a second and kills it in the middle.
- `StartOnlyIgnored` (`LocalRun`): `--start-only` is documented as ignored in search mode (`cli.py:157`),
  but is passed on to the batches: each container stops at a shell that nobody leaves.
- `AbortRequestedStops` (`LocalRun`): `--abort-on-failure` is not seen by the script when
  `--network-host` precedes it.
- `CachedIsComplete` (`Postprocessing`): a bag with a cache file counts as "already processed"
  (`rosbags_process.py:740`), although messages that could not be read or handled were passed over
  (`rosbags_process.py:811-834`); later calls do not try them again.
- `DbShowsFiles` (`Postprocessing`): the tables are to hold "data from all configs and all runs"
  (`postprocessing_plugins.py:455`); a CSV file that cannot be read is logged and left out
  (`postprocessing_plugins.py:574`), and the database is reported as created.
- `AllUploaded` (`Publication`): of two artifacts with the same file name in different directories
  the later replaces the earlier (`zenodo.py:689`), and the upload reports success.
- `AskedBeforeOverwriting` (`Publication`): what the user has entered on Zenodo is
  overwritten only after a question, but the metadata are put back as a whole, as they were when
  the record was fetched: an edit made meanwhile is lost.
- `ReportedWentThere` (`ShareTransfer`): a retry may target a different share, but a GCS session
  saved for one bucket is resumed for another and reported as delivered there.
- `PartOfOneArchive` (`ShareTransfer`): the partial file is kept "so the next run can resume"
  (`results_processing/cli.py:643`); after an upload that was repeated with GCS storage, compressed
  anew, it is continued with the blocks of another archive.
- `SkippedIsWhole` (`ShareTransfer`): the next download is said to resume; it skips a directory whose
  extraction was cut short.

Observed while modelling:

*Controller, search, cluster.* The controller publishes phase `finished` at the end of the loop
and leaves it again for `uploading`; a monitor that polls in between takes it for the end
(`execution_utils/cli.py:617`). A batch with several repetition counts has a job tag with a
slash, which `_job_tag`'s docstring (`kubernetes_backend.py:206`) excludes; staging it for
Kubernetes fails (`Composes`). Two equal sets in one group make the composition raise
(`Composes`). A result of an earlier evaluation of the same set counts as a sample of the new
one when the new run is lost; `OwnResultsCounted` says what holds all the same: results that were
delivered in this batch are counted where they belong. The progress line's `stale_batches` lags one batch behind the decision. A late
round of the poller can publish numbers of the batch before; `FreshSamplesRight` says which
samples are right.

*Launch and monitor.* Pending pods are reported as "Controller finished" (`cli.py:499`). An outage
counts running campaigns as done. Ctrl+C during a launch leaves a pod waiting for its start file.
`_share_env_exports` says that it fails before anything is created, and is called after the pod
is (`controller_launcher.py:463`). Kept-alive sidecars keep a controller's pod Running
(`cluster_execution.rst:473` says that it completes). Two campaigns whose ids agree in the part
that names the pod share a pod.

*Set-up.* A set-up that failed half-way cannot be repeated, only cleaned up by naming its
provider; cleaning up GCP by name without its options fails after the rights and Kueue are gone.
The flag file is named after `--context` as typed: no option and the name of the active context
are two set-ups of one cluster. Applying the queues again does not release a queue on hold.

*Local runs and cache.* Two local campaigns on one host share container names. When the project
is edited between load and key, the old configurations are cached for the new files and stay so
until the next edit (`UpToDate` excludes these keys).

*Merging.* `merge-campaigns` looks for `<config>/config.yaml` (`merge_results.py:52`), and the
preparation writes `<config>/_config/config.yaml` (`execution.py:624`): it finds nothing to merge.

*Post-processing.* A later call replaces postprocessing.yaml and has no entries for bags it found
cached (`developer_guide.rst:495`). The provenance and data.db are of the newest campaign only. Two
rosbag steps would share one provenance file. A handler that cannot begin is dropped and its bag
cached as done; `plugin_configs[j]` then names the wrong handler (`rosbags_process.py:985`). The
cache file is not removed before its outputs are rewritten; with `--force` the fingerprint is
taken after the reading (`rosbags_process.py:849`). Bags in one directory share one cache file. A
killed worker leaves `imap_unordered` waiting for ever. `example.rst:195` says that the cache
is a hash of the results directory.

*Publication.* `--force` only sets a default for `overwrite`, which an explicit value in the .vast
file overrides (`configuration.rst:675` says otherwise). The record's id is saved in the newest
campaign only: publishing after another campaign has arrived creates another record.

*Transfer.* A GCS session of an archive of another length fails until it expires. WebDAV resumes an
archive that was compressed anew into a mixture. Downloads from GCS and Nextcloud do not recover
from a complete `.part` file (416). A dropped GCS connection is taken for the end of the file.
Extraction errors other than TarError escape. The `.part` file is named after the campaign
alone, whichever share it came from.

*Editor.* Cancelling in the configuration editor waits one second for a thread whose `quit` is
queued to the waiting thread itself: the wait always runs out and the thread is terminated, inside
the cache if it happens so (a `Kill` of `ConfigCache`).

*Index.* A store's time stamp moves with each commit: a rebuild that was interrupted leaves an index
newer than the results it lacks, which is not rebuilt without `--force`
(`campaign_index.py:54`).

## 7. What is not modelled

- *Data.* Manifests, configuration trees, archives, messages, formats, wording and logs;
  numeric strategies (random, Optuna, pyribs); what a share or a storage does inside a call.
- *Variations* and the navigation plug-ins: generation of parameters, floor plans, paths and
  obstacles. Geometry and random candidates, no shared state.
- *External systems* beyond what the code reads of them: Kubernetes, Kueue, Helm, object
  storage, shares, Zenodo, docker, Qt.
- *Store and index*: rebuilt in one pass by one process; the one thing that is hard about it,
  an interrupted rebuild, the code does not handle (section 6).
- *Configuration editor*: its one background thread calls the generation that `ConfigCache`
  models; the rest is presentation.
- *MCP server, notifications, metadata graph, project files, validation*: stateless queries
  and transformations of files.
- *Scripts inside the scenario pod*: run by the scenario container; `ScenarioJobs` has what the
  runner sees of them.
- *Merging of campaigns*: one pass over files by one process, which finds nothing to merge
  (section 6). What it would merge by, the identifiers, is in `ConfigCache`.
- *Pagination and back-end switches* of the storage deletion.
- *Several contexts* in one monitor command, and `--once`.

## 8. Plan

Done: channel and controller first (they decide whether a campaign's results arrive), then
batch runners and clean-up (they decide whether results are lost), the search loop, the
commands around them (launch, monitor, set-up), then what happens on the user's own machine
(local runs, the cache, the analyzer), and the way of the results (transfer,
post-processing, publication).

All safety properties of the runs are proved. Next: that the life of a campaign's pod in `CampaignPods`
(`stage`) is what `Controller` does, as a step simulation; what the commands of one set-up need
of another (`QueuesCoexist` holds when nobody cleans up); a composition of `BatchRunner`
and `SearchLoop`, in which a batch's results come from the runner.
