# Visual Hive: a verification project

Visual Hive inspects a web application (Playwright contracts, mutation runs,
repository analysis), leaves its evidence as JSON files under `.visual-hive/`,
derives issue candidates from that evidence, publishes them to GitHub and feeds
an external repair broker (Hive) with immutable capture bundles. This directory
models the parts of it whose correctness depends on order, failure and
concurrency, checks them with TLC and proves their safety with TLAPS.

`src/` below is the repository; paths are relative to it.

## Inventory

The program is a set of Node packages. There is no server in the middle and no
database: components meet in files under `.visual-hive/`, in GitHub issues, and
in child processes. Commands are separate processes, so two of them meet in the
file system and nowhere else. Hence the two kinds of hard behaviour: a command
dies between two writes and the next one starts from what it left; and two
commands run at the same time (a CI job and a developer, two webhook deliveries,
two broker retries), each acting on what it read before the other wrote.

| Component | Keeps | Operations | Meets others through | What makes it correct |
|---|---|---|---|---|
| Artifact index seal (`packages/cli/src/commands/artifacts.ts`, `packages/core/src/artifacts/index.ts`) | `.visual-hive/artifacts-index.json`, the lock `.visual-hive-artifacts-index.lock` | seal, list, recover a dead process's lock | the file system | an invocation that reports a seal was alone; a complete index of an earlier run is never taken for this one's |
| Issue lifecycle (`packages/core/src/issues/build.ts`) | `issues.json`, `issue-suppressions.json` | derive, from the reports and the previous `issues.json` | reports of other commands; the publisher reads its output | a finding keeps its status across runs and is resolved only when something looked again |
| Issue publisher (`packages/core/src/issues/publish.ts`) | GitHub issues | list, plan, create, update | GitHub API; the loop workflows (`packages/cli/src/commands/loop.ts`) | one open issue per finding, which says what the report says |
| Repair capture (`packages/playwright-adapter/src/repairRun.ts`) | `runs/run.<requestId>/`, `runs/exec.<nonce>/`, archives | capture, reuse, recover, archive | the Hive bundle writer; the broker | idempotent for one request, retriable after a failure, evidence not mixed |
| Hive bundle writer (`packages/core/src/hive/`) | a bundle directory | write by temporary directory and rename, verify | a step of a capture | published whole or not at all |
| Playwright runner, managed servers (`packages/playwright-adapter/src/`) | child processes, ports | start, probe, run, stop | child processes, HTTP | tests run against the server that was started; what is started is stopped or reported; a report is made of its own run's evidence |
| Mutation run (`packages/cli/src/commands/mutate.ts`) | `mutation-report.json`, a restored `report.json` | set up, mutate, score, tear down | runner, child processes, the baselines it shares with `run` | teardown after setup; the deterministic report is put back; no mutated page becomes a reference |
| Repair sessions (`packages/cli/src/commands/repair*.ts`, `packages/core/src/repair/store.ts`) | session directories, receipts | ingest, validate, publish a receipt by hard link | the broker | one session per task; receipts immutable and agreed upon |
| Repair contracts and verdicts (`packages/core/src/repair/`) | none | parse, digest, decide | called by the above | verdict precedence, event order |
| Control plane (`packages/control-plane/src/`) | the configuration and setup files, their audits, action history, decisions | run a command, edit, set up, decide; read artifacts | HTTP, child processes | a log holds what was done, in order; an audit tells how its file came to be; nothing is overwritten unasked |
| GitHub App (`packages/github-app/src/`) | GitHub issues and comments | handle a webhook | GitHub API | one issue per finding under redelivery |
| History, baselines, connections (`packages/core/src/{history,baselines,connections}/`) | one JSON log each | read, extend, write back | files | as the control plane's logs |
| Planner (`packages/core/src/planner/`) | `plan.json` | select contracts | `run` and `mutate` read the plan | plans of different modes fit together; an empty plan is intended |
| Verdict, layers, readiness; evidence, handoff, context; repository analysis; providers; LLM adapter; catalogues; CLI and MCP; scripts | documents they write once | pure functions from files to a document | files | the documents are right: unit tests do that well |

`PROJECT.json` lists them all with their sources, what is modelled and why the
rest is not, and under `hazards` each place where one of these behaviours bites.

## Modules

| Module | What it is |
|---|---|
| `ArtifactSeal`, `MCArtifactSeal`, `ArtifactSealProofs` | the seal, one process per invocation of `runArtifactsCommand`; its instance; its theorems |
| `SealTurns` | what the seal promises, abstractly: invocations seal in turn; `ArtifactSeal` implements it |
| `IssueLoop`, `MCIssueLoop`, `IssueLoopProofs` | derivation, publication, GitHub and the world they run in |
| `RepairCapture`, `MCRepairCapture`, `RepairCaptureProofs` | the capture directory of one request, one process per invocation |
| `CaptureChoice` | what a capture promises, abstractly: one is chosen; `RepairCapture` implements it |
| `TargetLifecycle`, `TargetLifecycleProofs` | servers and teardown commands of the targets, for `run` and `mutate` |
| `BoundRun` | the evidence of overlapping runs and mutations, and baselines |
| `MCBrowserRuns`, `BrowserRunsProofs` | the instance of the two above; the theorems of `BoundRun` and of the instance |
| `RepairStore` | the stored session of one repair task and the receipt of one validation |
| `ReceiptAgreement` | what such a receipt promises, abstractly; `RepairStore` implements it |
| `ControlPlane`, `ControlPlaneProofs` | concurrent requests that write files and the logs they extend |
| `GitHubApp`, `GitHubAppProofs` | webhook deliveries that publish issues |
| `ContractPlan` | which contracts a plan selects |
| `MCServers`, `ServersProofs` | the instance of `RepairStore`, `ControlPlane`, `GitHubApp` and `ContractPlan`; the theorems of the stored session, of the planner and of the instance |

`MCBrowserRuns` and `MCServers` check several components in one run, one at a
time: the first state chooses which component moves, and the others stay in a
single state. Nothing is claimed about their interaction; they share no file that
either model has. That each component behaves in the instance as its own
specification says is proved (`ServersCompose`, `BrowserCompose`), so what is proved
of the specification holds in the instance.

Definitions that begin with the comment "Mutant of" are deliberate bugs, next to
the definition they alter. No specification uses them: each shows that a property
fails once the code has that bug.

### ArtifactSeal

A process is one run of `artifacts`, with (`complete`) or without (`plain`)
`--complete`. The code's awaits separate the actions:
`acquireArtifactSealLock` is `CreateLock`, `WriteLock` (the payload comes after
the file exists), `ReadLock`, `Quarantine` (the rename by path) and `CheckStale`
(what was moved is compared with what was read); the body is `PublishReceipt`,
`CheckReceipt`, `Enumerate`, `PublishIndex`, `CheckPublished`, and
`PublishFailure` for the catch block; `releaseArtifactSealLock` is `ReadOwnLock`,
`RenameOwnLock`, `CheckReleased`. Any process can crash between any two, and any
write can fail.

* `lock` is the creator of the file at the lock's path, `aside[p]` of the file
  that `p` has renamed to its private path. A creator's name stands for the random
  token in the payload.
* `ino` is the inode number. It is kept apart from the token because a file system
  gives the number of a deleted file to the next one made, and stale-lock recovery
  compares numbers only (`sameIdentity`).
* `alive` is what `kill(pid, 0)` answers. Once an invocation has ended, its process
  id may answer or not: its host process may go on, and the id may be reused.
* `receipted`, `before` and `overlap` are history, for the properties.

`SealTurns` says nothing of files: an invocation begins, and whoever was sealing has
then lost its turn; one that kept its turn closes it; only a closed turn ends in a
reported seal. `ArtifactSeal` implements it with the turn (`Turn`) beginning at the
lock file's creation and closed by the rename of the invocation's own lock.

The tree walk and the content of the index are abstracted to whose index it is
and whether anything was omitted. An invocation that finds no `.visual-hive`
directory takes the failing branch of `Enumerate`.

### IssueLoop

A finding is its dedupe fingerprint. `defect` is what the product has, `covered`
what the evidence on disk looked at, `found` what it names. `BuildIssuesReport` is
the keyed map of `build.ts` 129-193 in one definition (`Keyed`): the status follows
from whether the finding is found now, whether the previous report had it live and,
for test-adequacy gaps, whether the current plan may omit it. `writeJson`
truncates and then writes, so a derivation has three steps and a crash leaves a
torn report, which `readOptional` turns into none at all.

`publish.ts` is `StartPublish`, `ListOpenIssues`, `BuildIssuePublishPlan`, one
`CreateIssue`, `UpdateIssue` or `CallFails` for each decision, and `Finish`. The
report is read twice, as in the code (98 and 152), and the listing is never
refreshed. Anything can happen in between: the product changes, a person closes an
issue or edits the suppressions, Hive takes the lifecycle over, a call fails.

`FreshWorkspace` is the next job on a runner of its own: the generated workflows
check the repository out and upload `.visual-hive/` as an artifact, and nothing
brings `issues.json` back. `Serial` says that the commands on a workspace run one
after another; where it is FALSE, a derivation may run while a publication does.

GitHub is modelled from its use: the listing returns open issues newest first, so
that the last one kept for a fingerprint (`mergeIssueRefs`) is the oldest, and it
is bounded by `ListLimit` (500 in the code). A create whose answer is lost has
happened: to GitHub, and to the model, it is a call that succeeded.

Left out: the separate setup issue, the publisher's filters and dry run, and how
each reader of a report words its finding.

### RepairCapture

A process is one invocation of `runPlaywrightRepairCapture` for one request and
the same inputs. `Look`, `Reuse`, `Judge` are `loadExistingCapture`; `RemoveExec`,
`ChooseArchive`, `MarkInterrupted`, `RenameAway` its recovery; `MakeDirectory` and
`WriteIntent` claim the request; `StartExecution` to `Complete` are
`executeCapture`, and `MarkFailure` the catch block. All files are written
exclusively (`wx`), so a file is its writer. Every path is resolved again at every
step: a process whose directory was archived goes on in whatever is there now, and
makes the directory anew when nothing is (`Ensure`). An archive takes one of eight
names for its reason (`FreeOrdinals`); without a free one the recovery stops where
it is, its execution directory already removed.

`expired` is time: the lease in the intent and the deadline the owner checks are
one instant, and it may pass at any step. `Judge` reads the intent, the failure
marker and the owner's liveness in one step; the interleaving that matters, between
the look for a completion and the judgement, is kept. `robbed`, `stale`, `cut`
and `maker` are history.

`CaptureChoice` says nothing of directories: while nothing disturbs the invocations
they choose one capture, which stays there to be returned, and whoever returns a
capture returns that one. `RepairCapture` implements it with the completed capture
that `loadExistingCapture` would verify as the one chosen (`Chosen`). What disturbs
is a lease that runs out under a running owner, or a recovery that acts on what it
did not judge (finding 5). From then on only this is left: what an invocation has
returned it does not take back.

### TargetLifecycle

A command is one `run` or one `mutate`; two of them have the same configuration
and so use the same addresses. The stages of a command are those of
`runPlaywrightContracts` (70-226) and `startMutationTargetSession` (183-253):
install, then for each target build and setup, its servers one by one, and its
teardown noted at the end; the look at the servers before and after the browser;
then servers stopped and teardowns run, last first. `run` collects errors and goes
on; in `mutate` the first failed stop ends the command with the rest undone, and
the model keeps both as they are.

`startManagedServer` is `Probes` (the address is asked first), `Spawns`,
`BecomesReady` or `NeverReady`; `stopProcessTree` is `Stopped` or `NotStopped`.
Between any two steps a child binds its address or ends, and an outsider binds or
leaves. `answers` is who holds the address, which no code can see. Nor does the
code see reliably that somebody does: any error of its request, the abort after
750 ms among them, reads as a free port (`isServerReachable`), so a probe may pass
with the address taken, which `raced` records, and a stop may be believed with it
still held. Timeouts are steps that may be taken. The stop is the POSIX one, by
process group; the Windows branch ignores a `taskkill` that failed and is not
modelled. `ready`, `torn`, `survived`, `dipped`
and `raced` are history.

### BoundRun

`ReadsPlan` to `Builds` follow one `run` from the plan through
`prepareBoundExecution` (clear, generate, read back), the generated specification
(binding, tests, result files), `verifyPreparedExecutionUnchanged` and
`buildReportFromPlaywrightOutput`. Runs share the specification, the result
directory and the screenshots, so a result file carries the run whose binding it
has. `mutate` tests in a directory of its own but against the same baselines, and
puts `report.json` back, or removes it when it could not read it
(`readOptionalReport`). Whether a baseline is there is asked twice
(`LooksForBaseline`, then `Missing`), with any step of another command in between.
A report is truncated and then written, so a write that fails leaves none
(`WritesReport`). `Approves` copies whatever screenshot is now at the path
the report names.

A screenshot is of the page or of a mutated page, which is what the properties
tell apart. The scope of a run is its runnable plan: that a target which did not
start fails the report as well is in `TargetLifecycle` (`trouble`).

### RepairStore and ReceiptAgreement

Invocations name one task and one validation. `LooksForSession` to `Cleans` are
`runRepairTaskContextCommand`: an ingest fills a temporary directory and renames
it, which fails on a directory with anything in it, and then looks again.
`MakesSession` to `Published` are `runRepairValidateCommand`: its directories are
made whether or not the task is there; the time is that of a receipt that is there,
or its own; `writeImmutable` compares, or writes a temporary file, links and
unlinks it, and `assertPublishedReceipt` waits for the second name to go. Any of
them can die between two steps, and any operation on a file can fail, the removal of
a temporary name included: `erred` and `stuck` remember whose did. A receipt is its generation time and its inputs;
a validator stands for its clock reading.

`ReceiptAgreement` says nothing of files: a value is published once, and whoever
returns has agreed to it. `RepairStore` implements it with the published receipt
as value and, for a validator that is done, its own bytes as what it agreed to.

### ControlPlane

The requests that write: saving the configuration, applying a coverage
recommendation, the setup's configuration, document and bundle, one command or a
profile of them, and a decision. All are handlers of one Node process that
interleave at their awaits, so the agenda of a request is a list of files and logs,
and for each: does the file exist, read it, truncate, fill; read the log, truncate,
fill. `writeFile` is not atomic: another handler, or a restart, can come in
between, and a fill over another's open file may leave a torn one (`clobbered`).
A log that does not parse counts as empty, except that a decision fails on it. A
write that fails while the process goes on is not an action of its own: on disk it
leaves what a restart leaves, a file truncated or an entry missing.

A configuration is the set of edits it holds. `disturbed`, `appended` and `before`
are history. Workflow templates, provider decisions, connections and baseline
approvals follow the same pattern and are not modelled again.

### GitHubApp

A delivery is handled by `Receives` (`actionsForEvent`), `GetsToken`, and for each
action `ChecksOwner` (the marker `.hive/integrated.json`), `Searches` and
`WritesIssue`. A call may fail, may throw past the handler, and may have been obeyed
though its answer is lost. The listing is one page, newest first (`Page`, 100 in
the code), of open and closed issues alike. Two deliveries of the same action are
a redelivery. Repositories gain and lose markers meanwhile. An issue is matched
by its finding; that the code looks for the fingerprint anywhere in a body, among
issues that still carry the `visual-hive` label, is left out.

### ContractPlan

`createPlan` as a set: `Selected` is the contracts that are not excluded by name or
by ignored files, that their mode, a rule for a changed file or a name selects, and
whose target is fit. `PlansContracts` is `runPlanCommand`, which fails on an empty
plan unless only ignored files changed. Patterns stand for the files they match;
reasons, severities and the provider policy select nothing.

## What each run checks

| Run | Instance | States | Shows |
|---|---|---|---|
| `ArtifactSeal` | 3 invocations, 3 inode numbers | 695,870 | `SealsInTurn`, `EarlierSealRevoked`, `SealStands` |
| `ArtifactSealExclusion` | the same | counterexample of 16 states | `OneSealer` fails |
| `IssueLoop` | a contract finding and a gap, 1 publisher, 4 issues, 2 outside events, 1 fault | 1,141,469 | `OneOpenIssue`, `CleanPublicationMirrors` |
| `IssueLoopLive` | the same, with fairness | 1,141,469 | `ActiveIsPublished` |
| `IssueLoopReappear` | 3 outside events, no fault | counterexample | `ReappearingReusesIssue` fails |
| `IssueLoopResolution` | 1 event, 1 fault | counterexample, with fairness | `ResolutionReachesIssue` fails |
| `IssueLoopRerun` | 1 event, 1 fault | counterexample | `ResolvedOnlyAfterRerun` fails |
| `RepairCapture` | 3 invocations, 2 archives per reason | 961,658 | `LeaseProtectsOwner`, `Retriable`, `FreshCaptureIsOwn`, `ChoosesOnce` |
| `RepairCaptureIdempotent` | 2 invocations | counterexample | `OneResult` fails |
| `RepairCaptureIntent` | 2 invocations | counterexample | `FailureKeepsIntent` fails |
| `BrowserRuns` | 2 runs, 1 mutation, 2 contracts, missing baselines failing in CI; a run and a mutate, a target with 2 servers and one with none | 2,232,951 | `ReportIsOwn`, `NoMutatedBaseline`, `MutationKeepsReport`; `LeftoverReported`, `TeardownsTried`, `PassedServed`, `OwnServer` |
| `Servers` | 2 requests of every kind, a history of 1; 2 deliveries, 2 repositories, 1 finding and the setup issue, a page of 1; 2 ingests, 2 validators, 2 inputs; every setting of 1 contract, 1 target, 2 files | 2,064,580 | `LogsKeep`, `AuditReplays`, `UnforcedSpares`; `OneIssue`, `HiveRespected`, `AllAnswered`; `IngestedOnce`, `ReceiptRepeats`, `NothingLeft`, `StoreAgrees`; `PlansRelate` |

*Why the bounds are enough.* Three invocations are the least for which one leaves
a dead lock or a dead capture and two others recover it at once, and the races of
both protocols are of that kind. Three inode numbers allow every invocation a
number of its own and also the reuse of a freed one. One contract finding and one
gap exercise both rules of resolution and let two decisions of one plan
interleave. Four issues are as many as two findings can be given in these runs
with the events allowed; two events and one fault are enough for a finding to go
and come back, or to be closed or suppressed, with a failed call between, and the
counterexamples that need more name it. `MaxIssues`, `MaxChanges`, `MaxFaults` and
`ListLimit` are the only bounds of `IssueLoop`; `ArchiveLimit` is the code's own (8).
The other models are finite as they are, once the sets are.

Two runs overlap in every way a third could see, since a run meets another only
through shared files; one mutation against two runs has a report restored over a
newer one. A target with two servers has a first one running while the second
fails; the target without servers stands for one that is only set up and torn
down. Two requests suffice for the control plane because its logs are read and
written whole: whatever a third does, it does to what one of two left. A history
of one entry stands for 50, and a page of one issue for 100: both are reached.
Contracts are selected independently of one another, so one of them meets every
case of the planner. `BrowserRuns` starts with missing baselines failing in CI, the
default, because `NoMutatedBaseline` has that as its condition and the other
properties do not depend on it; baselines are updated or not. In `Servers` the first
validator's input is fixed: inputs are only compared, so the second's is the same or
another. All safety properties of the passing runs are also proved
without these bounds.

*Symmetry.* Invocations, inode numbers, runs, contracts, requests, deliveries and
ingests are interchangeable: no definition tells one from another, and the runs that
use symmetry check no liveness property. In `Servers` the pairs of three components
change places at once, which is enough because only one of them moves.

*Deadlock.* Every run but those of `IssueLoop` sets `CHECK_DEADLOCK FALSE`:
invocations, requests and deliveries end, and nothing need happen afterwards. `IssueLoop` checks for it.

*Fairness* (`IssueLoop`, `FairSpec`). Fair is only that a command which was started
goes on to its end: the write of a derivation, and the calls of a publication. That
commands are started is not assumed of the program, because nothing in the
repository sees to it. The generated detection workflow has a schedule
(`loop.ts` 229-255); the generated publisher (257-274) is a single `echo`, no workflow
has a concurrency group or a queue, and none carries `issues.json` from one runner
to the next. So `ActiveIsPublished` and `ResolutionReachesIssue` have it as their
premise (`Repeated`): whoever operates the loop brings about, again and again, a full
detection, a derivation, and a publication that gets through its decisions, on one
workspace. Failures, crashes and new runners may come in between, as many as
`MaxFaults` and `MaxChanges` allow. A Hive marker stops publication for good, so both
are about findings not under Hive.

## What the properties say

* `SealsInTurn`. Exclusion itself fails (below). What the seal needs survives: an
  invocation never reports success once another has taken a lock, at any point up to
  the rename that gives up its own, between the release's read and its rename
  included. In particular (`OvertakenNeverSeals`, proved and not checked apart) two
  reported seals were never in progress together.
* `EarlierSealRevoked`, `SealStands`. A receipt takes every earlier seal down and
  keeps it down through crashes and errors; a reported seal stays on disk until the
  next receipt, unless a plain listing or an overtaken invocation writes over it,
  which the code allows.
* `OneOpenIssue`. With one publisher, no failed, lost or repeated call and no
  torn report makes two open issues for one finding: the listing, not the report's
  status, decides between create and update. With two publishers it is false, and
  nothing in the code or in the generated workflows keeps them apart.
* `CleanPublicationMirrors`. At the end of a publication that no fault or person
  touched, GitHub says what the plan said.
* `ActiveIsPublished`. Where the loop is kept going, a defect that stays ends up
  with an open issue labelled active, whatever failed or was lost before.
* `LeaseProtectsOwner`, `ChoosesOnce`, `Retriable`. Undisturbed - nobody past its
  deadline, and no recovery acting on a judgement gone stale - no running owner
  loses its directory; one capture is chosen, stays whole with all its evidence and
  is what every other invocation returns (`Idempotent`, proved and not checked
  apart, is its corollary for the results); and no crash or failure other than a
  half-written intent or completion blocks the request for good, until the eight
  archive names for the outcome of its last attempt are taken. Then every later
  invocation is refused.
* `FreshCaptureIsOwn`. Without any such condition: an invocation that kept its
  directory and reports a fresh capture left nobody else's file in it, even with
  evicted invocations writing at the same path.
* `LeftoverReported`, `TeardownsTried`. Whatever fails on the way, a child that is
  still running when its command has ended outlived a stop that was reported, and
  `run` tears down exactly the targets it had started. `mutate` may leave servers
  and teardowns undone, and then reports a failed cleanup.
* `PassedServed`, `OwnServer`. A `run` without an error had all its servers for as
  long as the browser tested; and a ready server answers itself, unless another
  process took its address between the probe and the answer, or held it without
  answering the probe in time. The exception is real: the readiness probes cannot
  tell who answers.
* `ReportIsOwn`. Overlapping runs clear and overwrite each other's specification
  and results, yet a report is never made of another run's files: the binding is
  compared in the browser and again when the files are read.
* `NoMutatedBaseline`. With baselines neither updated nor allowed to be made in CI,
  no mutated page becomes a reference, by a test or by an approval. With either
  setting the code does make one, so the condition is part of the property. So is
  `crossed`: a baseline that another command makes between the two looks of a
  mutation is overwritten with the mutated page, even with the default settings.
* `MutationKeepsReport`. A mutation that nobody overlapped and that ends without an
  error leaves `report.json` as it was, or removes it when it could not read it.
  Overlapped, it puts the older report back over the newer one.
* `LogsKeep`, `AuditReplays`, `UnforcedSpares`. A log that can be read holds entries
  that were written, once each and in order, whatever came between; all of them
  within the bound, and an audit that replays to the file, and no unforced setup
  over an existing file, when nothing came between. The condition is there because
  nothing locks a file.
* `OneIssue`, `HiveRespected`, `AllAnswered`. Redelivery and lost answers make no
  second issue of a finding within a page, except by two handlers that searched at
  once; a repository that has had a marker ever since the delivery came is left
  alone; an answered delivery accounts for every action.
* `IngestedOnce`, `NothingLeft`, `ReceiptRepeats`, `StoreAgrees`. Racing ingests
  create one session and all find it whole, and one fails only by an error of its own
  or after a validation made the directory; whatever fails, no temporary name stays
  behind, except by a crash or where it cannot be removed; a later validation of the same inputs makes the same bytes; and the whole
  protocol of links implements an agreement on one receipt.
* `PlansRelate`. A full plan covers those of pull requests, canaries and mutations;
  ignored files change nothing next to others; and an empty plan, which `run`
  reports as passed without a browser, drops only contracts that run on pull
  requests and were not asked for by name.

## Findings

1. **Two sealers** (`ArtifactSealExclusion`). `quarantineStaleArtifactSealLock`
   renames whatever is at the path, and then compares inode numbers only. p1 dies
   with the lock; p2 and p3 both read it; p2 removes it and takes a lock, which
   gets the freed number; p3 renames that live lock aside, finds the number it
   expects, deletes it and takes the lock. Both index, which artifacts.ts:131
   means to exclude. `SealsInTurn` is why no wrong seal is reported.
2. **A closed issue is not reused** (`IssueLoopReappear`).
   docs/issue-publishing-policy.md:31 says a reappearing finding updates the
   existing issue; only open issues are listed.
3. **A resolution has one chance** (`IssueLoopResolution`). A `resolved_candidate`
   is dropped by the next derivation; if the publication in between fails, the
   issue stays active for good.
4. **Resolved without a rerun** (`IssueLoopRerun`). A missing, torn or partial
   report reads as one without findings, against
   docs/issue-centric-architecture.md:51.
5. **Two captures for one request** (`RepairCaptureIdempotent`). The completion is
   looked for before the owner's liveness: an owner that completes and exits in
   between is archived and captured again, against
   docs/repair-session-integration.md:144.
6. **A failure marker without an intent** (`RepairCaptureIntent`). An owner that
   outlived its lease and was archived makes the directory anew to hold its
   marker; every later invocation then refuses it, against
   docs/repair-session-integration.md:206.

A remark outside the runs: docs/repair-session-integration.md:148 says that
execution directories are removed after a completed capture; no code does so, and
`Reuse` needs them to be there.

Other remarks, on behaviour that no document contradicts and that the models keep as
it is:

* `repair validate` before the ingest makes the session directory, and every later
  ingest fails as "incomplete". A process that dies between link and unlink leaves
  a receipt with two names, and every later validation refuses it.
* With `updateSnapshots`, or `failOnMissingBaselineInCI` off, a mutation may write
  a mutated screenshot as the baseline. An approval copies the screenshot that is
  there now, whatever the report said of it.
* A torn `llm-decisions.json` makes every later decision fail; torn histories and
  audits read as empty and are replaced. A setup bundle that fails halfway leaves its
  configuration, and is then refused without force.
* After eight archives of failed attempts, or eight of interrupted ones, a request
  can never be captured again; the recovery that finds out has already removed the
  execution directory.
* A mutation deletes a `report.json` that it could not read.
* The webhook server's update never reopens an issue, and an error thrown by a call
  loses the remaining actions of that delivery.
* `plan` that selects nothing fails and leaves an older `plan.json`, which a later
  `run` still reads. A pull request of ignored files with a contract asked for by
  name whose target is not fit is an intended empty plan, and reported as passed.

## What is proved

For any set of invocations, requests, deliveries, inode numbers and findings, and any
bounds:

| Theorem | Property | Assumes |
|---|---|---|
| `ArtifactSealProofs!TypeCorrect`, `OvertakenFails`, `ReceiptRevokes`, `SealIsKept`, `SealsAreInTurn` | `TypeOK`, `OvertakenNeverSeals`, `EarlierSealRevoked`, `SealStands`, `SealsInTurn` | `SealAssumption` |
| `IssueLoopProofs!TypeCorrect` | `TypeOK` | `FindingsAssumption`, `BoundsAssumption` |
| `IssueLoopProofs!NoDuplicateOpenIssue`, `GitHubMirrorsPlan` | `OneOpenIssue`, `CleanPublicationMirrors` | also `SinglePublisher`, `ListsEveryIssue` |
| `RepairCaptureProofs!TypeCorrect`, `OwnersAreProtected`, `CaptureIsIdempotent`, `CaptureIsRetriable`, `FreshCaptures`, `OneIsChosen` | `TypeOK`, `LeaseProtectsOwner`, `Idempotent`, `Retriable`, `FreshCaptureIsOwn`, `ChoosesOnce` | `CaptureAssumption` |
| `TargetLifecycleProofs!TargetTypes`, `LeftoversReported`, `TargetsTornDown`, `PassedRunsServed`, `ServersAreOwn` | `TargetTypeOK`, `LeftoverReported`, `TeardownsTried`, `PassedServed`, `OwnServer` | `TargetAssumption` |
| `BrowserRunsProofs!BoundTypes`, `ReportsAreOwn`, `BaselinesUnmutated`, `MutationsKeepReport` | `BoundTypeOK`, `ReportIsOwn`, `NoMutatedBaseline`, `MutationKeepsReport` | `BoundAssumption` |
| `ControlPlaneProofs!ControlTyped`, `ControlLogsKeep`, `ControlAuditReplays`, `ControlUnforcedSpares` | `ControlTypeOK`, `LogsKeep`, `AuditReplays`, `UnforcedSpares` | `ControlAssumption` |
| `ServersProofs!StoreTypes`, `SessionIngestedOnce`, `ReceiptsRepeat`, `NothingIsLeft`, `StoreImplements` | `StoreTypeOK`, `IngestedOnce`, `ReceiptRepeats`, `NothingLeft`, `StoreAgrees` | `StoreAssumption` |
| `GitHubAppProofs!AppTypes`, `FindingHasOneIssue`, `OwnerIsRespected`, `DeliveriesAnswered` | `AppTypeOK`, `OneIssue`, `HiveRespected`, `AllAnswered` | `AppAssumption` |
| `ServersProofs!PlanTypes`, `PlansAreRelated` | `PlanTypeOK`, `PlansRelate` | `PlanAssumption` |
| `ServersProofs!ServersCompose`, `ServersTypes` | each component behaves in the instance as its specification; `ServersTyped` | those of the four components |
| `BrowserRunsProofs!BrowserCompose`, `BrowserTypes` | the same of the two; `BrowserTyped` | those of the two components |

The named `ASSUME`s say only that `None`, `Torn` and `Unreadable` are not processes
or reports, that gaps are findings, that findings are finite and bounds natural
numbers, that a plan names no target twice and no address serves two services, that
sets of different kinds are apart, and that at least one command is kept and the
kinds of request are those there are (`ControlAssumption`). `SinglePublisher` and
`ListsEveryIssue` are hypotheses of the two theorems that need them, and both are
needed: without the first, two publishers list before either creates; without the
second, the issue beyond the limit is created again.

The arguments:

* **Seal.** A property such as `OvertakenNeverSeals` is not inductive: it must be
  known why the overtaken process fails. The invariant adds that its lock file is
  no longer at the path and never will be (`OvertakenHasNoLock`: a file leaves the
  path by rename and only its creation puts one there), that locks are created in an
  order (`CreationOrder`), that one that did not overlap a later one is done
  (`EarlierIsDone`), and that a published index stays its owner's until a later
  receipt (`PublishedStands`). For the refinement, the lock at the path is the last
  one made (`LockIsLast`), so whoever renames its own away has not lost its turn: that
  step is `Close`, the creation of a lock `Begin`, and the check of the release `Seal`
  or `GiveUp`. Every other step leaves all turns alone or gives one up (`TurnGoesOn`).
* **Issue loop.** `OneOpenIssue` needs a fact about the publisher's memory, since
  the listing is stale by the time it is used: while the publisher holds no number
  for a finding it has yet to publish, there is no open issue of it
  (`UnknownMeansNone`). With a single publisher nothing else can open one in
  between, and people only close them. `KnownIsOpen` is the counterpart for the
  findings it does hold a number for, as long as nobody closed an issue, and
  `DoneMirrors` says that GitHub already shows every decision carried out.
* **Capture.** `KeepsDirectory` says what an invocation that was not robbed can
  count on finding; `RecoversEnded`, that recoveries are after ended owners while
  nothing is disturbed; `ReturnsWhatIsThere` and `KeepsExecution`, that a returned
  capture and the evidence it needs are still in place; `NothingHalfWritten`, that a
  directory has its owner's intent or is about to. The refinement adds that
  invocations answer last (`AnswersLast`), and that undisturbed a completion stands
  over a whole capture even where an intent or another completion was torn
  (`CompletedIsWhole`): an exclusive write never meets an empty place in a verified
  capture (`VerifiedIsFull`), and a recovery that would take it away disturbs by
  definition.
* **Targets.** `LeftoverReported` speaks of a command that has ended; on the way
  there every living child must be started, being started, the survivor of a
  reported stop or `mutate`'s to report (`AllAccounted`). `TeardownsKept`: the
  targets started are those torn down or noted. `DipsNoticed`: a run that lost a
  server has an error or is still testing without it, since children do not come
  back. `OwnServer` needs that no service is started twice (`AllApart`, from
  `TargetAssumption`) and that the address of one being started is free or its own
  unless raced (`AllServe`).
* **Browser runs.** The report may be one a mutation puts back, so what holds of
  `report` must hold of every saved report (`OwnReports`), and its run must be done
  so that its verdicts no longer change. `NoMutatedImage` covers the screenshots an
  approval may copy, and `SavedIsThere` that a mutation nobody overlapped holds the
  report that is there, unless it could not read it.
* **Control plane.** None of its three properties says what a request in the middle
  of its work holds, and that decides what it will write. `ItemInv` does, for each
  file and each log, as long as nothing came between its handlers: at most one
  request is at it, and it has come as far as `InHand` says. What it compared with is
  what the entries say the file is (`Made`), its text goes with that, and the log is
  complete but for the one entry to come, which is the last of what it has extended;
  and with nobody at it, file and log agree. `Tells` chains the entries. What holds
  after a disturbance too is apart: an extended log (`ExtendedInv`) and a readable one
  (`LogInv`) come, in order and without repetition, from what was ever appended.
  `ComesFrom` is an order-preserving map between two sequences, so the lemmas about it
  (`ComesFromLonger`, `NewestComeFrom`, `ComesFromBetween`) are stated once, for any
  sequences. A step of one request leaves other items as they were, or enters an item
  where another is and so disturbs it (`StepLeavesOthers`, `StepEnters`); what is left
  is the request at its own undisturbed item, step by step (`ItemAlone`, `ItemGoesOn`,
  `ItemCompleted`), and a restart, which disturbs every item it leaves half-written
  (`RestartKeeps`). An entry that another handler appends
  first changes nothing of what a request has extended (`ComesFromBetween`).
* **Stored session.** `Settled`: whoever is past the comparison has the bytes of the
  receipt, which is why the refinement's `Agree` step agrees to what is published.
  `TakesTime`: who came after the receipt took its time. `Owned`: temporary names
  belong to invocations under way, to crashed ones, or to those that could not remove
  them. `Stored` says what a directory nobody validated
  in can be. `StoreImplements` then maps each step: `Links` to `Publish`, the last
  step of a validation to `Agree`, all others to stuttering.
* **Webhooks.** `FoundNothing` is the counterpart of the issue loop's
  `UnknownMeansNone` with many handlers: one that found nothing is the only one to
  have looked, and there is still nothing on the page. `KnowsOwner`, `Accounted` and
  `IsThere` carry what a handler knows across the loop over its actions.
* **Plan.** No induction to speak of: after `PlanInvariant`, three lemmas about
  `Selected`, one for each part of `PlansRelate`.
* **Instances.** The first state chooses a component, and the others stutter; so the
  instance's steps are steps or stutters of every component's own specification.

Each inductive invariant was checked by TLC before it was proved, the control plane's
on two requests and a history of one.

Only model-checked: the liveness property `ActiveIsPublished` (fairness and ENABLED
are beyond the prover) and the six counterexamples. No module with theorems has a
RECURSIVE operator, and nothing is proved by induction over data: sequences are
reasoned about by their indices.

## Not modelled, and the plan

What could come next, in this order:

1. For the publisher and the webhook server an abstract tracker, as `SealTurns` and
   `CaptureChoice` are for the seal and the capture: for each finding, no issue, an
   open one or closed ones, and which step may add one.
2. For the control plane an abstract log that only ever grows and its bounded view,
   with what `disturbed` excuses stated as a step that drops entries.
3. The control plane's remaining writers (workflow templates, provider decisions,
   connections, baseline approvals and rejections) and the run history. They read,
   extend and write one JSON file as the modelled ones do, and would add places to
   `ControlPlane` and no new behaviour.
4. The setup-issue publisher (`writeSetupIssuePublishArtifacts`), a second and
   simpler publisher next to `IssueLoop`'s.
5. The evidence receipts of `repairCapture.ts`, which use the capture and the
   store's links.

Not modelled for good:

* Most of the source by lines: static repository analysis (`packages/core/src/repo/`,
  `setup/`, `security/`, `risk/`, `flows/`, `contracts/`, `coverage/`), the Hive
  export (`hive/build.ts`), context, handoff and agent packets, the control plane's
  reader and its web client, and the registration of commands (`cli/src/index.ts`).
  These build one document from others: no state between calls, no order, no
  failure beyond a throw. A model would be their text again.
* Formatting, sanitizing and schema code, prompt texts, displays, and the
  comparison of pixels.
* External services beyond what the code's use of them says.
