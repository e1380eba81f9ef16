# openOii: a TLA+ model of the workflow runs

openOii turns a story idea into an animated short. A *run* takes a project
through fifteen stages (outline, characters, shots, images, critique, videos,
final cut); after most of them the user approves the result or asks for changes.
Runs last for hours, cost money at every provider call, and outlive the processes
that serve them. This directory models what has to stay true of a run and of the
project's data while two programs, several HTTP handlers, browser tabs and users
act on them at once.

Paths below are relative to the repository; `engine`, `backend` and `frontend`
stand for `src/engine/src`, `src/backend/app` and `src/frontend/app`.

## The system

    browser  <-- HTTP, WebSocket -->  Gateway (FastAPI)  <-- loopback HTTP -->  engine (Node)
                                           \                                      /
                                            +------- one SQLite file (WAL) ------+

| component | state it keeps | operations | who it meets, and where |
|---|---|---|---|
| run lease and outcome (`engine/index.ts`, `shared-db.ts`; `backend/api/v1/routes/runs.py`, `db/session.py`) | `agentrun.status`, `error`, `cancel_requested_at`, lease owner/token/expiry, `execution_attempt`; the engine's `pipelines` map, the runner's abort flag, the heartbeat timer | acquire, renew, reclaim, release, fence, commit; start, resume, cancel, dismiss, reconcile, `init_db` | engine and Gateway write the same row from two connections; the Gateway writes what it loaded before an await |
| workflow runner (`engine/pipeline/runner.ts`, `agents/index.ts`) | checkpoints, target checkpoints, critique rounds, the artifacts | the stage loop, reviews, redos, resume, targeted and recomposing runs, completion, failure | the lease at every write, providers in between |
| approval gates (`runner.ts`, `backend/services/run_signals.py`, `main.py`) | `confirm_requested`, `gate_feedback`, `awaiting_payload`, receipts in `message` | open, approve, request changes, redo, leave | the user clicks on a card that is as old as the event stream is late |
| stage attempts, frozen input (`engine/db.ts`, `shared-db.ts`) | `engine_stage_attempts`, the snapshot of an attempt, the revisions it wrote | begin, reuse, complete, fail; compare-and-set writes | crashes between a side effect and its record; users edit the project while a stage works |
| versions of an entity (`version_service.py`, `revision.py`, `shots.py`, the inspector and the cards) | `version_id`, `artifactversion`, drafts in tabs | save, approve, rollback, delete, redraw | forms as old as the cache, a redraw that froze its input minutes ago |
| event log and tail (`db.ts`, `main.py`, `ws/manager.py`, `frontend/hooks`) | `engine_run_events`, a cursor per connection, the tab's cache | append, compact, tail, replay, project, refetch | reconnects, batches, compaction, broadcasts outside the log |
| run admission and previous version (`runs.py`, `run_lifecycle.py`, `generation_entry.py`, `project_versions.py`) | the set of a project's runs, the version captured at the start | check, insert, dispatch, settle, restore | concurrent requests, an executor that still works |
| providers and media store (`engine/media`, `llm.ts`, `ai-operation.ts`, `file_cleaner.py`) | one request and its counters; files, `media_object` rows | post, poll, copy, publish, register, commit, sweep | lost answers, deadlines, aborts; a stage that has a file it has not referenced yet |
| settings (`config_service.py`, `config.py`, `provider_resolution.py`, `run_context.py`, `engine/media/media.ts`, `SettingsModal.tsx`) | `configitem` rows, the Gateway's `Settings` object, the snapshot of a run | seed, list, save, apply, check, pin, resolve | two programs resolve the same values in two languages |
| chat assistant (`engine/agent`, `chat.py`, `assistantChat.ts`) | one conversation per project, an open confirmation card | send, confirm, abort, refetch | timeouts, aborts, reloads, deaths of the engine |
| engine supervision (`backend/services/engine_client.py`) | the child process, its fingerprint, its owner id | spawn, probe, shut down | crashes, two engines on one database |
| recovery surface, CRUD routes, export and audio, pages | | | status of each in `PROJECT.json` |

What is hard here: the Gateway's handlers read a row, await a network call and
write; `updateRun` checks the fence in one statement and writes in the next; a
lease lapses while its owner is asleep and the owner wakes up; a cancel races with a
completion; the signal columns outlive the gate they were meant for; a stage writes
minutes after it read; a crash can come between any two commits; a tab shows what
three channels brought it in any order. `PROJECT.json` lists these hazards at their
lines, each with the properties that are about it.

## Modules

| module | models | theorems |
|---|---|---|
| `RunLease` | ownership and outcome of one run | `RunLeaseProofs` |
| `ApprovalGate` | the gates of one run, the signal columns and the user | `ApprovalGateProofs` |
| `Pipeline` | abstract: what a run promises about its stages | |
| `Workflow` | the fifteen stages of one run, full, recomposing or targeted; implements `Pipeline` | `WorkflowProofs` |
| `StageWrites` | stage attempts, frozen input, compare-and-set against users' edits | `StageWritesProofs` |
| `VersionHistory` | one shot under forms, handlers, redraws and its versions | `VersionHistoryProofs` |
| `RunAdmission` | which runs a project has side by side; the previous version | |
| `ProviderCall` | one request to a provider, the media store and its sweep | `ProviderCallProofs` |
| `ProviderSettings` | the settings, their two readers, the snapshot of a run | `ProviderSettingsProofs` |
| `EventTail` | the event log, the Gateway's tail and a tab | `TabProofs` |
| `ChatAgent` | the assistant, its cards and a tab | `TabProofs` |
| `MC*` | the instances for TLC | |

Each module takes the others' subjects as a free choice and says so in its header:
`RunLease` has statuses and lets an executor enter and leave gates freely;
`ApprovalGate` and `Workflow` have one runner that may die at any statement, and take
from `RunLease` that a dead run is declared so; `StageWrites` follows one path
through the stages that `Workflow` has all of; `ProviderCall` has one request
where the other modules have a step. `Workflow` is shown to implement `Pipeline`
with the mapping at its end (`P == INSTANCE Pipeline WITH ...`): checkpoints are the
stages that stand, the statuses of the row are its outcome, and the stage the request
starts at is the run's first one (past the last one for a targeted run).

### RunLease

One action per handler step. A Gateway handler is a *load* step (`LoadCandidate`,
`CancelRun`, `ResumeRun`) that keeps the columns it will look at, and a *write*
step that uses them: that is what the ORM session does, and the window between the
two is where the code is exposed. An executor is `begin` (lease taken), `work`,
`gate`, `write_*` (the fence of `updateRun` passed, its UPDATE not yet run),
`ending` (before `releaseRunLease`), `done` or `dead`. The engine's guarded
statements are single actions, since each is one UPDATE or one synchronous
transaction.

Abstractions: the lease clock is one bit, `run.live`; `Lapse` clears it at any time,
which covers a suspended box, a jumping clock and a dead owner. The lease token is
the attempt number (`acquireRunLease` draws a UUID and increments
`execution_attempt` in the same UPDATE). Stages are one `work` state. The error
column holds who wrote it, because `reclaimRunLease` looks at the text. Another run
of the project is one flag: targeted runs are admitted beside a full run, so it
changes freely.

### ApprovalGate

The runner's `pc` names its next statement, so that a crash, a cancel, a click or a
request can come between any two of them: `clear` (`clearConfirmSignal`), `await`
(status), `payload` (awaiting payload and event), `poll`, then either `approved`,
`leave`, `confirm` (payload, status, checkpoint) or `apply`, `redo`, `finish`, `answer`
(receipt, redo, `clearGateFeedback`, receipt). `passed` grows with the gate's
checkpoint, and a resume continues after the last one. The browser shows `seen`,
which follows `card` whenever the user's tab catches up; the user acts only on a
card.

Abstractions: an artifact is its version number; the two stages of a compose redo are
one step; whether a request can be applied at all (`planGateFeedback`) is a free
choice; a lost lease is a crash here.

### Workflow

`pc` is what the runner does (`down`, `loop`, `work`, `gate`, `critique`, `sendback`,
`redo`, `over`), `ctx` its memory, lost in a crash, `ck` and `tck` the checkpoints of
stages and of single artifacts, `have` the artifacts. A commit that makes an
artifact is one action with everything the agent's transaction does: what it
replaces, what it deletes or marks superseded, its target checkpoint. A critique
is a verdict per image and a `SendBack` that invalidates the checkpoints from the
render stage on. Targeted runs have actions of their own (`BeginTargets` ...
`TargetsComplete`), as `runTargeted` has code of its own. `POST /runs/recompose` starts an
untargeted run in auto mode at the merge (`req.start`): `StartRun` invalidates from there
on and leaves the stages before it alone, so such a run has two checkpoints at its end.

A change request is in the row (`ask`, the column `gate_feedback`) from `RequestChanges` until
`finish()`, at the end of `RedoDone` or `RedoFails`. `Redo` is what the gate does with a request it
finds; a crash in between leaves the request, so the resumed gate starts on it again, drops the
target checkpoints of all it names and draws them from nothing.

The history variables say what was made from something replaced since (`stale`), what people
approved (`approved`), what was drawn for the standing demand (`spent`), what of that was drawn
by a redo that a crash cut short (`lost`), what a redo has replaced so far (`touched`) and that
one failed after it had (`broken`).

`RecoverySummary`, `AvailableActions` and `ValidCommand` are the projection of
`run_recovery.py`; `ResumesWhereShown` compares it with `LastCompleted` and
`Next1`, from which the engine continues. Left out: the workflow version in
`resumable`, the commands of older rows, edits by others while a run works (also
the deletion of a waiting target), the work inside a redo that fails between two
artifacts of one commit.

### StageWrites

Shots stand for every versioned entity; the stages are plan, keyframes, gate,
review and clips. `attempts` is `engine_stage_attempts` in order; `eng.frozen` the
snapshot an attempt reads, `eng.own` the revision of the project it wrote itself. A target is asked
of a provider under the key of the running attempt (`used`); the answer is a later step,
so an edit, a deletion, a crash or a failed provider comes in between. A review asks the
critic once or twice per picture (a reply without a score, or a suspicious one, is
asked again), notes the verdict at the live revision, and may send the shot back
to be drawn again within the same stage; when no critic with eyes can be reached every
picture is marked unseen. A clip's own loop of retakes is one demand under one key.
A change request (`ask`) outlives a crash as in `Workflow`; its redo begins an attempt of its own
each time (`forceNew`), although the one of the first try is still started (`ask.broken` notes
that, `SecondTry` is what it allows).

### VersionHistory

A row is known by its revision: `rows[r]` is what revision r held. A tab may show
any revision at any time (three channels fill its cache in no order). Forms and inline
editors keep a draft and what it was based on; a handler reads (with the check of
`expected_revision`, and of the readiness for an approval), then writes with a
compare on the revision it read. The engine freezes, draws or gives up; a redrawn
character takes the picture down; a rollback, of the shot or of a character it shows,
applies a version. All texts are one text; keyframe, clip and sound are one
picture; one request per tab; a screen's lock during runs and the project row are
left out; version numbers are taken as unique.

### RunAdmission

The rows of one project's runs in the order of their creation, each with what it is
*on* (full, a shot, a character, the project). A request is a chain of handler steps
with what it has loaded in `req`: reconcile the newest active row, decide the entry,
check the resource, insert, dispatch; the dispatch may fail or be refused. A regenerate
captures the version it replaces; cancelled, it is settled by the handler that
cancels, by a read of `runs/current` or by the next start. Content is a version
number. The lease is a flag, a run at a gate counts as running, one shot and one
character stand for all, a restore is one write, the reasons of a refusal are not
told apart, the check of the providers is `ProviderSettings`'.

### ProviderCall

A request has one of five shapes (text with one repair; an image with the picture in the
answer; a task to poll; doubao, whose POST is never retried; ffmpeg) and stands at one
of its steps: before the POST, waiting, under way, copying, linked, answered. The
store is `disk` (files under `managed-v1`), `rows` (`media_object`) and `aged` (rows older
than the sweep's grace); `shown` and `history` are the columns that name files. The
executor's abort, deadline, lease and death are actions; the sweep is `Boot`,
`Scan`, `Unlink` file by file, `EndSweep`. One executor makes one request at a time; fixture
and static addresses are left out; a request lasts less than the sweep's 24 hours; a
404 on a poll, which tries another address, counts as a pending poll.

### ProviderSettings

`row` is `configitem`, `runtime` the Gateway's `Settings` object, `env` the environment
of both programs, `dialog` what a tab's form holds and last fetched, `save` a PUT
between its commit and its two later reads. Four fields stand for all: the provider, an address,
a secret, a switch. A value is what was typed: a provider may have capitals, a switch
be "yes" or no switch at all, and a variable of the environment that is set to nothing (`Blank`)
seeds an empty row. Each reader translates it in its own way: `Parsed` is what
`Settings` makes of it, `Spelled` and `Picked` what the Gateway's resolution makes of that;
`EngineValue`, `KnownProvider`, `IsTrue`, `AsBoolean` are the engine's, from `configValue` and
`resolveMediaSettings`.

`Settings.model_validate` raises on a switch that is none (`Accepted`). A save then has
committed its rows and ends with the object as it was (`ApplyFails`), and so does every later
save, whoever makes it; a start of the Gateway ends there (`up`). `loose` says that since the
Gateway started a value was cleared or two saves overlapped, two more cases in which its object
may differ from the rows. A full run is checked, its snapshot pinned, and executed later and
again, unless the snapshot has no address and the engine throws; a targeted run has no
snapshot. Left out: an environment the class refuses, numbers (refused like a switch), `.env`
values that are not in the process environment, a project's own provider override, short secrets,
the verdict of the text probe (left open).

### EventTail

`log` maps ids to events; appending a frame or a status compacts the older one. The
Gateway's end of a connection is `off`, `accepted`, `greeted`, `tailing` or `mute` (the tail
failed, the socket still answers). `socket` is what was sent and not received. The
tab, `page`, has the cursor (kept over reloads), the projection of the run, one query with its
answer, and the flag that an event overtook that query. Left out: an event whose
application throws in the tab (`useWebSocket.ts:167` reports it; the next event takes the cursor past
it), caches of characters and shots, the message feed, deletion of the project and reuse of its
id, refetches on focus, the limit of five reconnects.

### ChatAgent

`saved` is both the table and the agent's memory. `agent.at` is `idle`, `model`,
`tools`, `card` (a card is open) or `write` (a tool changes the project). A call is known
by the place its result will have; a reading tool is one step; a reply is text or
calls, not both; a refused message changes nothing; an abort travels in no time. The
tab's entry is patched by events and filled by a query with the semantics of the query
library (the first fetch under way is kept when invalidated, later ones are cancelled).
`tab.missed` is the history of the three cases in which the tab is known to stay behind.

## What is checked

| run | instance | properties |
|---|---|---|
| `RunLease` | 2 engines, 2 handlers, 2 execution attempts, symmetric; 4.2 M states | `CancelledOnlyOnRequest`, `NoLeakedLease`, `AbandonedNeverOwns`, `NoSuccessAfterCancel`, `NoLeaseAfterCancel` |
| `RunLeaseLive` | 1 engine, 1 handler, 2 attempts, fair; 21 k states | `CancelSettles`, `ZombieSettles` |
| `ApprovalGate` | 2 gates, 2 requests, 2 versions per gate, fair; 1.2 M states | `ApprovalOfStandingVersion`, `AnsweredOnce`, `AwaitingMatchesRunner`, `FeedbackResolves`, `ApprovalTakesEffect` |
| `Workflow` | 1 character, 2 shots, 1 review round, 2 crashes or failures, 1 redo, fair; 400 k states | `RedrawDropsDerived`, `ReadyIsCurrent`, `ResumesWhereShown`, `ImplementsPipeline`, `MadeFromApproved`, `DrawnOnce`, `ComesToRest` |
| `StageWrites` | 2 shots, new or finished, 1 review round, 2 disturbances, fair; 1.9 M states | `OneKeyPerDemand`, `OwnWritesPass`, `FrameReplacesItsRow`, `GetsThrough` |
| `VersionHistory` | 2 tabs, 2 texts (one complete), 4 changes, symmetric tabs; 560 k states | `DrawnOverIsKept`, `FormReplacesWhatItShowed` |
| `SwapBackReturns` | the same | what a comment says of "back to the previous version", refuted |
| `RunAdmission` | 1 user and an open tab, 2 runs, 2 writes, 2 deaths, fair; 130 k states | `StopSettles`, `ZombiesEnd` |
| `ProviderCall` | 5 shapes, 2 file names, 1 retry, 2 copies, 2 polls, 2 failed polls, 2 runs, 1 kill, 1 boot, fair; 460 k states | `UnregisteredOnlyByKill`, `MentionsResolve`, `AbortIsSilent`, `AbortEnds` |
| `ProviderSettings` | 2 dialogs, 1 full and 1 targeted run, 2 addresses, 1 secret, 1 blank value, 2 edits, symmetric tabs; 3.1 M states | `BothSeeTheSame`, `AdmittedCanPay`, `KeepsItsProvider` |
| `EventTail` | batches of 2, 4 writes, 1 lost connection, reload or failed tail, fair; 1.8 M states | `NoneSkipped`, `GateIsTakenDown` |
| `ChatAgent` | 4 messages of context, 2 replies per turn, 1 call per reply, 6 messages, 1 fault, fair; 280 k states | `NoOrphanedResult`, `RunsAsConfirmed`, `ComesToRest`, `ShowsConversation` |

- `CancelledOnlyOnRequest`: the heartbeat of an executor that lost its lease aborts
  the runner through the flag a user's cancel uses; only the fence inside
  `commitCancellation` keeps that from being recorded as a cancel.
- `NoLeakedLease`, `AbandonedNeverOwns`: an executor gives its lease back also when it
  had expired, and one whose heartbeat gave up never owns it again.
- `NoSuccessAfterCancel`, `NoLeaseAfterCancel`: once the intent is durable, no
  interleaving of completion, resume, reclaim and restart undoes it.
- `CancelSettles`: the intent alone ends the run, for good, when signals are lost
  and engines die, and although `updateRun` may still overwrite the status.
  `ZombieSettles`: a row that nobody serves does not stay active.
- `ApprovalOfStandingVersion`: an approval recorded at another gate, or before a
  redo replaced what it approved, does not carry over, through crashes and resumes.
- `AnsweredOnce`: the order inside `finish()`; a crash cannot make the engine redo
  a stage for a request it has reported on. `AwaitingMatchesRunner`: what a reload
  replays as the open card. `FeedbackResolves`, `ApprovalTakesEffect`: no request
  wedges its gate, and a later request cannot overtake an approval.
- `ImplementsPipeline`: whatever crashes, redos, reviews and resumes do, stages come to
  stand in their order, only a review takes them back, and only a run with every stage from
  its first one standing succeeds: all fifteen of a full run, the last two of one that composes
  again, none of a targeted one. This is where a checkpoint kept by mistake, a
  resume after a hole and a cut stage loop would show.
- `MadeFromApproved`: in a run with people at its gates nothing is drawn from an image nobody
  approved. `DrawnOnce`: nothing is drawn twice for one demand, except the images of a redo
  that a crash cut short, once more for each crash.
- `RedrawDropsDerived`, `ReadyIsCurrent`: after a targeted redraw nothing but the final cut is
  left that was made from the former version, and "ready" means the final video is of what
  there is (but for a plan without shots, and a redo that failed halfway).
- `ResumesWhereShown`: the page, in Python, and the resume, in TypeScript, mean the same stage.
- `OneKeyPerDemand`: after a crash a provider is asked again under the key of before, for
  every shot that still exists, except for the images of a redo the crash cut short: they have
  a second key until the request is answered, and they alone.
  `OwnWritesPass`: a stage never conflicts with itself. `FrameReplacesItsRow`: a keyframe
  does not overwrite an edit. `GetsThrough`: edits, deletions and crashes do not wedge a run.
- `DrawnOverIsKept`: what a run replaces is in the history. `FormReplacesWhatItShowed`: a save
  of the form replaces the text its author looked at.
- `StopSettles`: a stopped regenerate gives its previous version back. `ZombiesEnd`: the
  same as `ZombieSettles`, with two runs of which only the newest is reconciled.
- `UnregisteredOnlyByKill`, `MentionsResolve`: between publishing, registering, naming and
  sweeping, no file is lost that something still names and none is left behind but by a
  kill. `AbortIsSilent`, `AbortEnds`: an abort ends a request between any two steps, without
  another paid one.
- `BothSeeTheSame`: once no save is under way and no row is refused, both programs mean the same
  by every setting that is spelled as both read it (`Misread` lists the other spellings), through
  failed saves and starts. `AdmittedCanPay`: what the check accepts the engine could use at that
  moment; it says nothing of the hours after. `KeepsItsProvider`: the snapshot is what runs.
- `NoneSkipped`: no event is lost between watermark, batches, compaction and reconnects.
  `GateIsTakenDown`: a card for a gate that was left goes away, also without a tail.
- `RunsAsConfirmed`: a tool that changes the project starts only on the card of that very call.
  `NoOrphanedResult`: what the model is shown begins with a question. `ComesToRest`,
  `ShowsConversation`: the assistant never stays busy and the tab comes to show it.

Each property has a mutant in the modules: a definition marked "mutant" that changes
one mapped definition the way a plausible bug would, and under which TLC finds the
property violated. Types are not among the properties of the runs: they are the first
part of each inductive invariant that is proved (`TypeOK`, `Typed`, `Shape`).

### Bounds

`RunLease`: two attempts are an old executor and its successor, the case every lease argument
is about; two engines are a zombie and the engine that replaced it; two handlers are
the race of one with another. The liveness instance has one of each, which keeps crash,
respawn, resume and reconcile. `ApprovalGate`: two gates let a signal outlive its gate,
two requests let one follow another, two versions let one redo happen at each gate, and
a redo beyond the bound can only fail. `Workflow`: two shots, of which one shows the
character, tell apart what a redrawn character takes down; one review round of each
critic with `GuardLimit` 21 is the tightest loop `GuardAssumption` allows; two crashes
are one during the repair of another. `StageWrites`: two disturbances are a crash and an edit, or
two crashes; two shots are the one being written and another. `VersionHistory`: four changes
let two tabs save around a redraw and a rollback. `RunAdmission`: two runs and two deaths; the
writes tell the old content from the new. `ProviderCall`: every counter of the code has a small
limit of the same kind, one kill and one boot make a sweep meet what a dead engine
left, two names let one file be swept while another is written. `ProviderSettings`: two dialogs
with one edit each overlap, and one edit refused and one more mend it or meet it; three environments set
nothing, a secret and a provider, or everything in spellings of its own. `EventTail`: batches of two among four events split a log that is
compacted meanwhile. `ChatAgent`: a context of four among six messages cuts a turn. `CHECK_DEADLOCK
FALSE` stands where the system stops for good (a run ends, the bounds are used up).

### Fairness, and why the code justifies it

- An executor never sits between two steps: provider calls, polls and gates have
  deadlines (`stageOperationTimeoutMs`, `CONFIRM_TIMEOUT_MS`). Weak fairness of
  `Progress(t)`, of `Run` in the gate model, where the 30-minute timeout itself
  is not assumed to fire, and of `EngineStep` in `Workflow` and `StageWrites`.
- A handler that began answers: its HTTP calls and statements have timeouts (`Handle`,
  `Proceed`, `EndCancelled`: the engine stops when it is told).
- Nobody renews a dead owner's lease, so it lapses.
- The open project is polled (`useRunState.ts`: at a gate, on focus, after what the user does),
  and the grace period after a clock jump and failing probes do not recur forever: strong
  fairness of `Poll` and `SettleDead`, weak fairness of `Current` in `RunAdmission`.
- The gate model assumes that the engine does not crash forever: a request whose redo
  kills the engine each time is redone after each resume.
- `StageWrites`: people who want the film resume a stopped run and answer a gate
  (`PersonStep`); `GetsThrough` says nothing of others.
- `ProviderCall`: timers fire and an aborted request rejects; that a provider ever answers
  is not assumed.
- `EventTail`: the engine announces what it wrote, the Gateway and the tab take their steps.
- `ChatAgent`: the model and the tools end (their requests have timeouts), the timer of a card
  fires, an accepted message, the tail and the query deliver. Of the person nothing is assumed.

## What is proved

TLAPS checks the theorems for every value of the constants; what they assume is the
named `ASSUME`s of the modules, which TLC evaluates at the instances above. Each inductive
invariant was model-checked before it was proved.

`RunLeaseProofs` proves every safety property of the run `RunLease` for any number of
engines and handlers and any `MaxAttempts`. `TypeCorrect` is inductive on its own. The
other invariants are not: the inductive one, `IInv`, adds

- `Issued`: the attempts that began are exactly those up to the row's count, and the
  lease names one of them, so a new acquisition never reuses a token;
- `Requested`: a cancelling or cancelled row has the cancel flag, and `Intended`: so
  does the row of a handler that loaded or wrote a cancel;
- `Abandoned`: an executor that was aborted without a cancel does not hold the token,
  and its heartbeat is off, so `Renew` and `Reclaim` cannot give it back;
- `Released`: the token in the row is not one of an executor that ended.

Each part is proved by its own lemma over the actions that can disturb it; two lemmas
(`TokenMoves`, `ExecutorMoves`) say once how any step may change the token and an
executor, and `CancelStays` that the flag is never taken back. The action properties
follow from `TypeOK` and a case split over the actions.

`ApprovalGateProofs` proves every invariant of the run `ApprovalGate` for any
set of requests, any number of gates and any bound on versions. `IInv` adds

- `Position`: the checkpointed gates are exactly those before the runner's, until the
  last one is passed, so that the resume point of a dead run is the gate it stood at
  (lemma `ResumeGate`) and the gate being redone has no checkpoint yet;
- `Placed`: the awaiting payload is of the runner's gate, and gone before it leaves it;
- `Taken`: what the runner answers was sent, and the row has given it up when the
  receipt is written, so no request is reported on and pending at once;
- `Standing`: an approval the runner may take, between the clearing of the flag and
  the poll, or took, on its way out of the gate, is of the version that stands. It
  is false before the clearing, which is why the order of `runGate` matters.

`WorkflowProofs` proves, for any cast and any bounds that satisfy `GuardAssumption`, every safety
property of the run `Workflow`. Its first invariant, `IInv`, carries `ImplementsPipeline` and
`DrawnOnce`: the checkpoints have no hole (`NoHole`), all stages before the runner's own
stand (`Position`), from the run's first one on, the loop's counter stays below one step per stage and three per
review that sent work back (`Guarded`: without it a cut loop would complete the
run with stages missing), and what has a target checkpoint is on no list of work (`Drawn`). For
`DrawnOnce`, what was drawn for the standing demand has its target checkpoint or was drawn by a
redo that was cut short (`Demands`); that needs where a request may wait: the last checkpoint is the
one before its gate, so a resume comes to that gate before it draws anything (`AskedAtGate`). The lemmas `StartRefines`, `StageRefines`,
`SendBackRefines` and `EndRefines` map each action to one of `Pipeline`'s or to a stutter.
The other four properties stand on it, each with what it needs beside it:

- `MadeFromApproved`: what the stage at work may still draw is of its own kind (`KindStage`),
  nothing is drawn ahead of its stage (`NoneAhead`), and a gate behind the runner that no
  review or redo reopened carries the approval of what stands (`Signed`).
- `ResumesWhereShown`: what the page reads, status and payload, is of the runner's stage when
  the runner stops, at each of the statements at which it may stop.
- `RedrawDropsDerived`: the lemmas on `StaleAfter` and `NothingElseStale` say what one commit can
  leave stale; in a targeted run that is taken down with what is replaced, or is the final cut.
- `ReadyIsCurrent` needs the longest argument. A stage that stands has nothing stale of
  its own (`Current`), because the target checkpoints it relied on are of this run
  (`OfThisRun`) and the list of targets was cut only by what was drawn in it (`Narrowed`).
  The merge is never passed over (`Whole`), a redo at the last gate has a merge of
  its own (`Merged`), a run cannot end before a redo that was cut short is done, because nothing
  can be asked for after the last approval (`Finished`), a run that composes again has
  thirteen stages behind it (`Behind`), and a project is ready only before a run has begun its work or from its
  merge on (`ReadySince`).

`StageWritesProofs` proves the safety properties of the run `StageWrites` for any
shots, review rounds, edits and crashes. A second key for one demand needs a second
attempt of the stage. The invariant says that a stage has two only when every shot is drawn
(`Single`: only a redo opens another), that a picture is missing only before the first
drawing is over (`Missing`, with `Early` and `Scoped`), that a key is of an attempt that began
(`Keyed`), and that a picture somebody has a key for is asked again by that attempt alone
(`Wanted`, with `AtWork`), or by the second try of the redo that left the key. A request waits at the
gate it was made at until its redo has answered it (`Waiting`), so no other stage runs while
two keys are open. `FrameReplacesItsRow` rests on `Frozen`: a frozen row with the revision of the live
one is that row. `OwnWritesPass` rests on `Own`: the rows the execution counts as its own are those
it wrote last, so a write of a stage conflicts only with somebody else's.

`VersionHistoryProofs`, for any tabs, texts and number of changes: `RowsStay` says once that rows
are only appended, so that a revision compared at the write is a fact about what is replaced; the
invariant adds that a draft knows the text it replaces (`DraftsFit`) and that a request
under way carries what it read (`RequestsFit`).

`ProviderCallProofs`, for any limits and any files: the sweep removes only what it found
unnamed, and nothing is named anew while it runs, because the Gateway sweeps before it serves
and no executor works yet (`Sweeping`, `Stopped`); a file without an aged row cannot be swept
(`Young`); each kill leaves at most one file without a row (`Counted`).

`ProviderSettingsProofs`, for any dialogs, runs, addresses and secrets. The two resolutions
agree because only a secret can be without a row, and then the object has it from the environment
(`EmptyRows`), because a save under way has read what is stored now unless another overlapped it
(`ReadIsCurrent`), so that one that fails has met a row that is still refused, and because at rest
the object holds the parsed rows (`Laid`). A snapshot is made once, and executions work with
it (`SnapshotRules`).

`TabProofs` has what reaches a tab. Of `EventTail`, for any size of a batch and any writes,
compactions and lost connections: the messages with an id are on the socket in their order, all
past the tab's cursor (`InOrder`), what the Gateway has passed and the tab has not applied is
there (`OnTheWay`, also when the tail died behind it), and a batch has every row
up to its last (`Reading`), so the next message leaves nothing between itself and the
cursor (`NoneSkipped`). The watermark matters only for a tab without a cursor.

Of `ChatAgent`, for any limits: the call a card asks about is the next one of the newest
reply (`CardIsNext`), so an answer to it, confirmed by its place, starts that call and no
other (`ApprovalIsConfirmed`). Every saved result follows its call with nothing but results
between (`Paired`), and the window of messages the model is shown is cut at a question, so it
never begins between the two (`NoOrphanedResult`).

Only model-checked: liveness, which is out of the prover's reach (ENABLED and fairness), and so
all that is checked of `RunAdmission`. Every invariant and every action property of a
passing run is a theorem.

## What the runs found

One run is kept as a counterexample; `PROJECT.json` quotes the comment it refutes.
`SwapBackReturns`: "back to the previous version" is meant to be its own inverse. The engine
records the row before a redraw, the rollback records the row after it was applied, so after one
redo the click fetches the row from before the first picture and what was shown is lost.

### Also seen

Behaviours of the code met while modelling. The model has them unless the
entry says otherwise; no property forbids them.

Runs and gates:
- A cancel handler that loaded the row before the completion writes `cancelling` over
  `succeeded`, then settles it and restores the version before (`runs.py:620`; the docstring
  at `runs.py:579` says terminal runs are left alone).
- `_reconcile_active_candidate` decides from a row it loaded before two awaited probes: a
  run whose lease was taken meanwhile is declared failed and loses its lease (`runs.py:324`).
  A read between a start's commit and its dispatch does the same to a queued row.
- After a suspended box wakes up, the executor's own fence ends it before the heartbeat can
  take the free lease back.
- A click on the card from before a redo approves the version after it, when it arrives
  after the gate reopened: `trigger_confirm_signal` has no gate or version in its
  condition (`run_signals.py:35`, `runner.ts:1127`).
- A request accepted between `consumeConfirmSignal` and the status `running` is applied at the
  next gate (`runner.ts:1175`, `runs.py:695`); its receipt may carry the label of an earlier
  read (`run_signals.py:90`).
- A crash between giving a request up and its receipt leaves "regenerating" on the screen.
- A redo that a crash cut short is started over by the resumed gate, because its request is in the
  row until `finish()` (`runner.ts:1242`, `1359`). It drops all its target checkpoints (`1274`) and
  draws again what it had drawn, under a second key, because `forceNew` passes over the attempt that
  is still started (`1286`, `db.ts:221`): `runner.ts:269` and `db.ts:47` say that `forceNew` is for
  a new demand and never for crash recovery. Each further crash repeats it. The attempt of the first try
  stays started for good; a later render of the same stage that is no redo (a review sends a shot back)
  takes it up, with the input and the key of then, and may end in a conflict over it.

Stages:
- A redo at the last gate whose later clip or merge fails has replaced the earlier clip,
  though its receipt says that the previous version is still in place (`runner.ts:1294`).
- A targeted run that crashes after it drew and before its critique succeeds unreviewed
  (the comment near `runner.ts:986` says it is not). `critique_enabled = false` is ignored by a full
  run. `critique_max_rounds` has no upper bound (`config.py:119`): nine rounds would exceed
  the loop's 64 steps. A planner that returns no shots leaves the old cut, and the run succeeds.
- A verdict that comes back late is written at the live revision, of whatever text and
  picture the shot has by then (`agents/index.ts:1044`, against `shots.py:127`). A critic whose
  repeated call fails loses its first verdict.
- A shot deleted in the middle of its own redo may be asked for under two keys. A plan
  replayed after a crash inserts its shots again; a replay may take its own write to the
  project for somebody else's. `beginStageAttempt` reuses an older started attempt though its
  comment says otherwise (`db.ts:225`). One `Idempotency-Key` serves all images of an attempt.
- The commit of a clip overwrites an edited duration (ADR-0008). A keyframe is chained on the one
  before, but a redraw of that one does not mark it. Rows of `artifactversion` survive
  a deletion, so a reused rowid inherits a history.
- The recovery page: a targeted run that failed after its first target checkpoint is named by
  its agent; one whose gate timed out is shown at the next production stage; a crash at the
  last gate without a card shows the merge (`run_recovery.py:90`). These are left out of
  `ResumesWhereShown`. Resume is offered for a targeted run whose target was deleted.

Runs beside each other:
- Two start requests, or a start and a redraw, both pass their checks before either inserts
  (`runs.py:445`, `run_lifecycle.py:84`); a resume checks no other run. An interrupted full run is not
  offered any more after a later targeted run; a failed targeted run blocks a start.
- A stopped regenerate is not settled when a redraw that ran meanwhile ends after it
  (`runs.py:303`, against `project_versions.py:5`). A capture may be applied twice, or
  over a newer run, when a cancel races a start (`runs.py:632`, `runs.py:913`).

Versions:
- The editor inside a card keeps its draft when another text arrives and sends the newest
  revision: it overwrites a text its author never saw (`WorkflowCards.tsx:403`; `revision.py:33`
  says such a save is rejected).
- Rollback does not record what it replaces, does not reset the review and answers a lost race
  with a 500. Approve has no `expected_revision`. A shot's update after its deletion puts its
  card back, and of two updates the older may stay on screen (`applyServerEvent.ts:14`). What is
  typed while an automatic save is under way is dropped. Not in the model: `project_updated`
  carries a revision without the fields; `delete_reference_image` deletes by index.

Providers and files:
- Polls and copies of a doubao clip start after the deadline (against `ai-operation.ts:23`); a
  paid answer that comes after it is thrown away; a lost answer to a POST may be paid twice. A
  refused registration repeats the download up to three times.
- A crash in the sweep between the unlinks and the commit leaves rows without files for
  ever (`file_cleaner.py:113`); temporary directories of a killed engine stay (not in the model).

Settings:
- A value the `Settings` class refuses, like a switch that is neither on nor off, is committed
  before it is refused (`routes/config.py:150`, `config.py:298`): the save answers with an error, the
  Gateway keeps its old object, every later save of anything fails the same way, and the next
  start ends in an exception nobody handles (`db/session.py:104`) until the row is mended by hand.
- The two programs read some spellings apart. `Real` is `real` to the Gateway
  (`provider_resolution.py:37`) and an unknown provider, hence none, to an engine without a
  snapshot (`media.ts:205`). A switch set to `yes`, `on` or `1` is on in the Gateway and off there
  (`media.ts:268`). A row seeded from an empty variable (`config_service.py:253`) hides the default
  from the Gateway, so a snapshot has no address and the engine throws (`media.ts:233`), while a
  targeted run takes the default.
- An emptied field deletes the row, but the Gateway's object keeps the value until it starts
  again (`config_service.py:416`; the dialog says the save is in force). Two overlapping saves may be applied in the
  wrong order. The mask of a secret may be saved as the secret; "hide" keeps it visible.
- A targeted run has no snapshot: it ignores a project's provider and falls back silently
  where a full run is refused (`run_lifecycle.py:113`). A resumed run has the pinned address with
  the secret of now. A snapshot may mix a provider resolved before a save with an address after it.

Tab and assistant:
- The first answer to a reloaded tab is dropped when any run's event arrives meanwhile: a
  waiting gate is not shown (`useRunState.ts:52`). A run ended by the Gateway has no ending in the
  log, so a replay after its broadcast revives it on screen. Any exception ends the tail with the
  socket open (`main.py:372`). Cursors are kept by project id, and ids may be reused.
- An abort before a card opens is not heard by it (`agent/index.ts:225`). After a death of the engine
  in a turn, an end announced before the tab's first fetch, or an answer to a send after the
  end, the tab keeps saying that the assistant thinks. A crash leaves a call without a result
  (`agent/index.ts:274`). A turn of more than the context's messages does orphan a result.
- Not in the model: a deleted project's id given again finds the old conversation.

## Not modelled, and why

- Prompts, parsing of answers, vendors' protocols, image, audio and video processing, export:
  sequential I/O and data whose failures reach the models as "the request failed".
- Projects, universes, styles, assets, uploads: single statements. Characters' forms: the
  shot's form once more. Drawing, layout and the message feed of the pages.
- The health polling, fingerprints and shutdown of the engine process: process I/O.
- Streaming of text to the tab, beyond the one frame the log keeps.
- Full compositions (a lease under `Workflow`, a `ProviderCall` in each step of
  `StageWrites`): their products are beyond TLC; the interfaces are the free choices named above.

## Where it could go on

Safety properties of `RunAdmission` worth a proof; characters beside shots in `StageWrites`; a
project's own provider override; an abstract life cycle of a run that both `RunLease`
and `Workflow` implement.
