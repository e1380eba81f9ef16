------------------------------ MODULE RunLease ------------------------------
(***************************************************************************)
(* Ownership and outcome of ONE durable workflow run (a row of agentrun).  *)
(*                                                                         *)
(* Two programs write the row, each with its own SQLite connection:        *)
(*   - the engine (engine/src/index.ts, shared-db.ts, pipeline/runner.ts): *)
(*     takes the execution lease, starts an executor, renews the lease     *)
(*     every 30 s and commits progress and the outcome;                    *)
(*   - the gateway (backend/app/api/v1/routes/runs.py, db/session.py):     *)
(*     creates the row, asks the engine to start or resume it, records a   *)
(*     cancel, and declares a run dead when nobody holds its lease.        *)
(* A gateway handler loads the row through the ORM and writes it after an  *)
(* await, so a handler is a read step, which keeps what it saw in gw[q],   *)
(* and a later write step.  The lease clock is abstracted to one bit:      *)
(* run.live says lease_expires_at > now.                                   *)
(***************************************************************************)
EXTENDS Naturals

CONSTANTS
    Engines,        \* engine processes that may have the database open
    NoEngine,       \* the engine of an execution attempt that never began
    Requests,       \* concurrent HTTP handlers of the gateway
    MaxAttempts     \* bound: how often the lease is acquired in a behaviour

ASSUME MaxAttemptsAssumption == MaxAttempts \in Nat

VARIABLES
    run,            \* the agentrun row
    other,          \* another run of the project has an active status
    ex,             \* executors, indexed by the execution attempt that began them
    up,             \* which engine processes answer HTTP
    gw              \* gateway handlers and what each one read

vars == <<run, other, ex, up, gw>>

-----------------------------------------------------------------------------
(* Values *)

NoToken == 0
\* acquireRunLease draws a fresh UUID and increments execution_attempt in the
\* same UPDATE, so the attempt number stands for the lease token.
Token == 1..MaxAttempts

Active == {"queued", "running", "waiting_for_approval", "cancelling"}
Terminal == {"succeeded", "failed", "cancelled"}

\* Who wrote "failed", which is what the error text is read for: runs.py's
\* LEASE_EXPIRED_ERROR and EXECUTOR_GONE_ERROR, init_db's text, a stage's own.
ErrorText == {"none", "lease_expired", "executor_gone", "init_db", "stage"}

RunRow == [status: Active \cup Terminal, error: ErrorText, cancel: BOOLEAN,
           token: Token \cup {NoToken}, live: BOOLEAN,
           attempt: 0..MaxAttempts]

\* Where an executor is.  "write_*": updateRun passed the fence's SELECT and has
\* not run its UPDATE yet.  "ending": the runner returned or threw; the lease is
\* not released yet.
Working == {"begin", "work", "gate", "write_running", "write_waiting"}
Executor == [pc: Working \cup {"idle", "ending", "done", "dead"},
             engine: Engines \cup {NoEngine}, abort: BOOLEAN, beating: BOOLEAN]

Handler == [pc: {"idle", "dispatch", "probe", "cancel", "settle", "signal", "dismiss"},
            status: Active \cup Terminal, token: Token \cup {NoToken},
            live: BOOLEAN, cancel: BOOLEAN]

\* An executor that is not in any process: never begun, done or dead.
NoExecutor(pc) == [pc |-> pc, engine |-> NoEngine, abort |-> FALSE, beating |-> FALSE]

Idle == [pc |-> "idle", status |-> "queued", token |-> NoToken,
         live |-> FALSE, cancel |-> FALSE]
\* What a handler still reads, after its await, of the row its SELECT loaded.
LoadedCandidate == [Idle EXCEPT !.pc = "probe", !.token = run.token,
                                !.live = run.live, !.cancel = run.cancel]
LoadedForCancel == [Idle EXCEPT !.pc = "cancel", !.status = run.status, !.live = run.live]

\* Values, and a live lease has a token.
TypeOK ==
    /\ run \in RunRow
    /\ run.live => run.token # NoToken
    /\ other \in BOOLEAN
    /\ ex \in [Token -> Executor]
    /\ up \in [Engines -> BOOLEAN]
    /\ gw \in [Requests -> Handler]

-----------------------------------------------------------------------------
(* Reads shared by the engine's guarded statements *)

Owns(t) == run.token = t /\ run.live
Free == run.token = NoToken \/ ~run.live
CancelSeen == run.cancel \/ run.status \in {"cancelling", "cancelled"}
CommitAllowedByFence(t) == Owns(t)    \* mutant: the commit looks at the lease only
CommitAllowed(t) == Owns(t) /\ ~CancelSeen

\* An entry of the engine's in-memory `pipelines` map.
Alive(t) == ex[t].pc \in Working \cup {"ending"}
HasPipeline(e) == \E t \in Token : ex[t].engine = e /\ Alive(t)

-----------------------------------------------------------------------------
(* The engine: starting a pipeline *)

AcquireAllowed ==
    /\ ~run.cancel
    /\ run.status \notin {"cancelling", "cancelled"}
    /\ Free

\* POST /runs and POST /runs/:id/resume once acquireRunLease took the lease.
StartPipeline(q, e) ==
    /\ gw[q].pc = "dispatch" /\ up[e]
    /\ ~HasPipeline(e) /\ AcquireAllowed
    /\ run.attempt < MaxAttempts
    /\ LET t == run.attempt + 1 IN
         /\ run' = [run EXCEPT !.attempt = t, !.token = t, !.live = TRUE]
         /\ ex' = [ex EXCEPT ![t] = [pc |-> "begin", engine |-> e,
                                     abort |-> FALSE, beating |-> TRUE]]
    /\ gw' = [gw EXCEPT ![q] = Idle]
    /\ UNCHANGED <<other, up>>

\* The same endpoints when the engine already runs it, or the lease is refused:
\* a leaseless run whose cancel was requested is settled on the spot.
RefuseStart(q, e) ==
    /\ gw[q].pc = "dispatch" /\ up[e]
    /\ HasPipeline(e) \/ ~AcquireAllowed
    /\ run' = IF ~HasPipeline(e) /\ run.cancel /\ run.status \in Active /\ Free
              THEN [run EXCEPT !.status = "cancelled"] ELSE run
    /\ gw' = [gw EXCEPT ![q] = Idle]
    /\ UNCHANGED <<other, ex, up>>

-----------------------------------------------------------------------------
(* The engine: one executor *)

Goto(t, pc) == ex' = [ex EXCEPT ![t].pc = pc]

\* run_started, committed with its event (emitter.commit).
RunStarted(t) ==
    /\ ex[t].pc = "begin" /\ CommitAllowed(t)
    /\ run' = [run EXCEPT !.status = "running", !.error = "none"]
    /\ Goto(t, "work")
    /\ UNCHANGED <<other, up, gw>>

\* Loop head (fence, then shouldCancel) and the fence of the updateRun that
\* follows it: a production stage writes "running", a gate writes
\* "waiting_for_approval", and a decided gate writes "running" again.
CheckFence(t) ==
    /\ Owns(t) /\ ~ex[t].abort /\ ~CancelSeen
    /\ \/ ex[t].pc \in {"work", "gate"} /\ Goto(t, "write_running")
       \/ ex[t].pc = "work" /\ Goto(t, "write_waiting")
    /\ UNCHANGED <<run, other, up, gw>>

\* The UPDATE of updateRun: no condition but the id.
WriteStatus(t) ==
    /\ \/ /\ ex[t].pc = "write_running"
          /\ run' = [run EXCEPT !.status = "running"]
          /\ Goto(t, "work")
       \/ /\ ex[t].pc = "write_waiting"
          /\ run' = [run EXCEPT !.status = "waiting_for_approval"]
          /\ Goto(t, "gate")
    /\ UNCHANGED <<other, up, gw>>

\* run_completed: completeRun inside the transaction that checked the commit.
CompletedRow == [run EXCEPT !.status = "succeeded"]
CompleteRun(t) ==
    /\ ex[t].pc \in {"begin", "work"} /\ ~ex[t].abort /\ CommitAllowed(t)
    /\ run' = CompletedRow
    /\ Goto(t, "ending")
    /\ UNCHANGED <<other, up, gw>>

\* run_failed: a stage threw or a gate timed out.
FailRun(t) ==
    /\ ex[t].pc \in {"begin", "work", "gate"} /\ ~ex[t].abort /\ CommitAllowed(t)
    /\ run' = [run EXCEPT !.status = "failed", !.error = "stage"]
    /\ Goto(t, "ending")
    /\ UNCHANGED <<other, up, gw>>

\* shouldCancel, then finishCancelled: its transaction checks only the fence.
CancelCommitUnfenced(t) == TRUE    \* mutant: finishCancelled without its fence
CancelCommitAllowed(t) == Owns(t)
FinishCancelled(t) ==
    /\ ex[t].pc \in {"begin", "work", "gate"}
    /\ ex[t].abort \/ CancelSeen
    /\ run' = IF CancelCommitAllowed(t) THEN [run EXCEPT !.status = "cancelled"] ELSE run
    /\ Goto(t, "ending")
    /\ UNCHANGED <<other, up, gw>>

\* assertExecutionFence threw ("execution lease lost"), or the setup failed.
LoseLease(t) ==
    /\ \/ ex[t].pc \in {"begin", "work", "gate"} /\ ~Owns(t)
       \/ ex[t].pc = "begin"
    /\ Goto(t, "ending")
    /\ UNCHANGED <<run, other, up, gw>>

\* The runner's `finally`: releaseRunLease matches owner and token, not expiry.
ReleasedRowIfOwned(t) ==    \* mutant: an expired lease is not released
    IF Owns(t) THEN [run EXCEPT !.token = NoToken, !.live = FALSE] ELSE run
ReleasedRow(t) ==
    IF run.token = t THEN [run EXCEPT !.token = NoToken, !.live = FALSE] ELSE run
Release(t) ==
    /\ ex[t].pc = "ending"
    /\ run' = ReleasedRow(t)
    /\ ex' = [ex EXCEPT ![t] = NoExecutor("done")]
    /\ UNCHANGED <<other, up, gw>>

-----------------------------------------------------------------------------
(* The engine: the heartbeat of one executor *)

ReclaimDespiteCancel(t) ==    \* mutant: only the status is looked at
    /\ \/ run.status \in {"queued", "running"}
       \/ run.status = "failed" /\ run.error = "lease_expired"
    /\ Free
    /\ ~other
ReclaimAllowed(t) ==
    /\ ~run.cancel
    /\ \/ run.status \in {"queued", "running"}
       \/ run.status = "failed" /\ run.error = "lease_expired"
    /\ Free
    /\ ~other

BeatsOn(t) == ex[t].pc \in {"work", "gate"}    \* mutant: the timer is never cleared
Beats(t) == ex[t].pc \in {"work", "gate"} /\ ex[t].beating

\* renewRunLease: owner and token match, even after the expiry.
Renew(t) ==
    /\ Beats(t) /\ run.token = t
    /\ run' = [run EXCEPT !.live = TRUE]
    /\ UNCHANGED <<other, ex, up, gw>>

Reclaim(t) ==
    /\ Beats(t) /\ run.token # t /\ ReclaimAllowed(t)
    /\ run' = [run EXCEPT !.token = t, !.live = TRUE,
                 !.status = IF @ = "failed" THEN "running" ELSE @,
                 !.error = IF run.status = "failed" THEN "none" ELSE @]
    /\ UNCHANGED <<other, ex, up, gw>>

\* Neither: stop beating and abort the runner.
GiveUp(t) ==
    /\ Beats(t) /\ run.token # t /\ ~ReclaimAllowed(t)
    /\ ex' = [ex EXCEPT ![t].abort = TRUE, ![t].beating = FALSE]
    /\ UNCHANGED <<run, other, up, gw>>

ExecutorStep(t) ==
    \/ RunStarted(t) \/ CheckFence(t) \/ WriteStatus(t) \/ CompleteRun(t)
    \/ FailRun(t) \/ FinishCancelled(t) \/ LoseLease(t) \/ Release(t)
    \/ Renew(t) \/ Reclaim(t) \/ GiveUp(t)

-----------------------------------------------------------------------------
(* The environment of the engine *)

\* The lease's expiry time passes: a late heartbeat, a suspended box, a dead owner.
Lapse ==
    /\ run.token # NoToken /\ run.live
    /\ run' = [run EXCEPT !.live = FALSE]
    /\ UNCHANGED <<other, ex, up, gw>>

\* The backend stops the process it has started, or the process dies, and every
\* executor in it; its rows and lease stay behind.
Crash(e) ==
    /\ up[e]
    /\ up' = [up EXCEPT ![e] = FALSE]
    /\ ex' = [t \in Token |-> IF ex[t].engine = e /\ Alive(t)
                              THEN NoExecutor("dead") ELSE ex[t]]
    /\ UNCHANGED <<run, other, gw>>

\* ensure_engine_running spawns a process; it answers with a new owner id.
Spawn(e) ==
    /\ ~up[e]
    /\ up' = [up EXCEPT ![e] = TRUE]
    /\ UNCHANGED <<run, other, ex, gw>>

\* Another run of the project starts or ends.  A targeted run of one character or
\* shot is admitted while this one is active (assert_resource_idle asks about that
\* resource alone).
OtherRun ==
    /\ other' = ~other
    /\ UNCHANGED <<run, ex, up, gw>>

-----------------------------------------------------------------------------
(* The gateway: HTTP handlers *)

Finish(q) == gw' = [gw EXCEPT ![q] = Idle]

\* POST /runs/:id/resume: terminal runs and live leases are refused from the
\* loaded row; otherwise the engine is asked.
ResumeRun(q) ==
    /\ gw[q].pc = "idle"
    /\ run.status \notin {"succeeded", "cancelled"}
    /\ run.token = NoToken \/ ~run.live
    /\ gw' = [gw EXCEPT ![q].pc = "dispatch"]
    /\ UNCHANGED <<run, other, ex, up>>

\* The engine cannot be started or reached: 503, the row stays as it is.
DispatchFails(q) ==
    /\ gw[q].pc = "dispatch"
    /\ Finish(q)
    /\ UNCHANGED <<run, other, ex, up>>

\* GET runs/current and POST /runs load the active candidate before they probe.
LoadCandidate(q) ==
    /\ gw[q].pc = "idle" /\ run.status \in Active
    /\ gw' = [gw EXCEPT ![q] = LoadedCandidate]
    /\ UNCHANGED <<run, other, ex, up>>

\* engine_health, and engine_active_run_ids of the engine that answers.
Answers(e) == up[e]
Listed(e) == Answers(e) /\ HasPipeline(e)

\* engine_owner_gone: an engine answers, and the process of the loaded owner is dead.
ProcessDead(t) == t # NoToken /\ ex[t].pc = "dead"
OwnerGone(q, e) == Answers(e) /\ ProcessDead(gw[q].token)
ExecutorGone(q, e) == gw[q].live /\ OwnerGone(q, e)

\* The engine's run list has the run, the loaded lease is live, or the wall
\* clock just jumped and a lease holder gets a grace period.
KeepActive(q, e) ==
    /\ gw[q].pc = "probe"
    /\ \/ Listed(e)
       \/ gw[q].live /\ ~OwnerGone(q, e)
       \/ ~gw[q].cancel /\ ~gw[q].live /\ gw[q].token # NoToken
    /\ Finish(q)
    /\ UNCHANGED <<run, other, ex, up>>

\* The UPDATE of a dead candidate.  The ORM writes the columns that differ from
\* what was loaded: the lease only when one was loaded, whatever the row holds now.
\* (A cancelled row's error is NULL or left; only a failed row's is ever read.)
DeadRowUnlessCancelled(q, e) ==    \* mutant: a cancelled run is left to its executor
    IF gw[q].cancel THEN run
    ELSE [run EXCEPT !.status = "failed", !.token = NoToken, !.live = FALSE,
                     !.error = IF ExecutorGone(q, e) THEN "executor_gone" ELSE "lease_expired"]
DeadRowIfLeased(q, e) ==    \* mutant: a row that never had a lease is not dead
    IF gw[q].token = NoToken THEN run
    ELSE [run EXCEPT !.status = IF gw[q].cancel THEN "cancelled" ELSE "failed",
                     !.error = "lease_expired", !.token = NoToken, !.live = FALSE]
DeadRow(q, e) ==
    [run EXCEPT !.status = IF gw[q].cancel THEN "cancelled" ELSE "failed",
                !.error = IF gw[q].cancel THEN "none"
                          ELSE IF ExecutorGone(q, e) THEN "executor_gone"
                          ELSE "lease_expired",
                !.token = IF gw[q].token = NoToken THEN @ ELSE NoToken,
                !.live = IF gw[q].token = NoToken THEN @ ELSE FALSE]

\* The run list came back without the run, or the probe timed out.
DeclareDead(q, e) ==
    /\ gw[q].pc = "probe"
    /\ ~gw[q].live \/ OwnerGone(q, e)
    /\ run' = DeadRow(q, e)
    /\ Finish(q)
    /\ UNCHANGED <<other, ex, up>>

\* POST /runs/:id/cancel: the branch is chosen from the loaded row.
CancelRun(q) ==
    /\ gw[q].pc = "idle"
    /\ \/ run.status = "failed" /\ gw' = [gw EXCEPT ![q].pc = "dismiss"]
       \/ run.status \in Active /\ gw' = [gw EXCEPT ![q] = LoadedForCancel]
    /\ UNCHANGED <<run, other, ex, up>>

\* The conditional UPDATE of a dismissed run.
Dismiss(q) ==
    /\ gw[q].pc = "dismiss"
    /\ run' = IF run.status = "failed"
              THEN [run EXCEPT !.status = "cancelled", !.cancel = TRUE,
                               !.token = NoToken, !.live = FALSE]
              ELSE run
    /\ Finish(q)
    /\ UNCHANGED <<other, ex, up>>

\* First commit: the intent.  "cancelling" is written when it differs from the
\* loaded status, over whatever status the row has by now.
WriteIntent(q) ==
    /\ gw[q].pc = "cancel"
    /\ run' = [run EXCEPT !.cancel = TRUE,
                 !.status = IF gw[q].status = "cancelling" THEN @ ELSE "cancelling"]
    /\ gw' = [gw EXCEPT ![q] = [Idle EXCEPT !.pc = IF gw[q].live THEN "signal" ELSE "settle"]]
    /\ UNCHANGED <<other, ex, up>>

\* Second commit, when the loaded row had no live lease.
SettleCancelled(q) ==
    /\ gw[q].pc = "settle"
    /\ run' = [run EXCEPT !.status = "cancelled"]
    /\ Finish(q)
    /\ UNCHANGED <<other, ex, up>>

\* requestRunCancel: the engine writes the intent too, of an active run only.
CancelRequestedRow ==
    IF run.status \in Active
    THEN [run EXCEPT !.cancel = TRUE, !.status = "cancelling"] ELSE run

\* engine_cancel_run reached the engine: the intent, then the abort.
SignalCancel(q, e) ==
    /\ gw[q].pc = "signal" /\ up[e]
    /\ run' = CancelRequestedRow
    /\ ex' = [t \in Token |-> IF ex[t].engine = e /\ Alive(t)
                              THEN [ex[t] EXCEPT !.abort = TRUE] ELSE ex[t]]
    /\ Finish(q)
    /\ UNCHANGED <<other, up>>

\* The signal is lost: the durable intent is all there is.
LoseSignal(q) ==
    /\ gw[q].pc = "signal"
    /\ Finish(q)
    /\ UNCHANGED <<run, other, ex, up>>

\* The backend dies with its handlers; init_db reconciles before it serves again.
InitDbRow ==
    IF run.status \in Active /\ Free
    THEN [run EXCEPT !.status = IF run.cancel THEN "cancelled" ELSE "failed",
                     !.error = IF run.cancel THEN "none" ELSE "init_db",
                     !.token = NoToken, !.live = FALSE]
    ELSE run
RestartBackend ==
    /\ gw' = [q \in Requests |-> Idle]
    /\ run' = InitDbRow
    /\ UNCHANGED <<other, ex, up>>

RequestStep(q) ==
    \/ ResumeRun(q) \/ DispatchFails(q) \/ LoadCandidate(q)
    \/ CancelRun(q) \/ Dismiss(q) \/ WriteIntent(q) \/ SettleCancelled(q)
    \/ LoseSignal(q)
    \/ \E e \in Engines : \/ StartPipeline(q, e) \/ RefuseStart(q, e)
                         \/ KeepActive(q, e) \/ DeclareDead(q, e)
                         \/ SignalCancel(q, e)

-----------------------------------------------------------------------------
(* start_run committed the queued row and is about to dispatch it. *)
Init ==
    /\ run = [status |-> "queued", error |-> "none", cancel |-> FALSE,
              token |-> NoToken, live |-> FALSE, attempt |-> 0]
    /\ other = FALSE
    /\ ex = [t \in Token |-> NoExecutor("idle")]
    /\ up \in [Engines -> BOOLEAN]
    /\ \E q \in Requests :
          gw = [r \in Requests |-> IF r = q THEN [Idle EXCEPT !.pc = "dispatch"] ELSE Idle]

Next ==
    \/ \E q \in Requests : RequestStep(q)
    \/ \E t \in Token : ExecutorStep(t)
    \/ \E e \in Engines : Crash(e) \/ Spawn(e)
    \/ Lapse \/ OtherRun \/ RestartBackend

Spec == Init /\ [][Next]_vars

-----------------------------------------------------------------------------
(* Fairness *)

\* The runner's own steps: every provider call, poll and gate has a timeout
\* (stageOperationTimeoutMs, CONFIRM_TIMEOUT_MS), so an executor never just sits.
Progress(t) ==
    \/ RunStarted(t) \/ CheckFence(t) \/ WriteStatus(t) \/ CompleteRun(t)
    \/ FailRun(t) \/ FinishCancelled(t) \/ LoseLease(t) \/ Release(t)

\* A handler that began answers: its HTTP calls and statements have timeouts.
Continue(q) ==
    \/ DispatchFails(q) \/ Dismiss(q) \/ WriteIntent(q) \/ SettleCancelled(q)
    \/ LoseSignal(q)
    \/ \E e \in Engines : \/ StartPipeline(q, e) \/ RefuseStart(q, e)
                         \/ KeepActive(q, e) \/ DeclareDead(q, e)
                         \/ SignalCancel(q, e)

\* Nobody renews a dead owner's lease, so its expiry time comes.
DeadOwnerLapse == run.token # NoToken /\ ex[run.token].pc = "dead" /\ Lapse

\* The project is read again and again while it is open (useRunState.ts), and
\* neither the grace period nor a failing probe lasts forever.
Poll == \E q \in Requests : LoadCandidate(q)
SettleDead == \E q \in Requests, e \in Engines : ~HasPipeline(e) /\ DeclareDead(q, e)

Fairness ==
    /\ \A t \in Token : WF_vars(Progress(t))
    /\ \A q \in Requests : WF_vars(Continue(q))
    /\ WF_vars(DeadOwnerLapse)
    /\ SF_vars(Poll)
    /\ SF_vars(SettleDead)

LiveSpec == Spec /\ Fairness

-----------------------------------------------------------------------------
(* Safety *)

\* A run is shown as stopped only if somebody asked to stop it: an executor that
\* lost its lease (its heartbeat aborts it too) never records that as a cancel.
\* finishCancelled (runner.ts) writes "cancelled" with no look at the cancel flag.
CancelledOnlyOnRequest == run.status = "cancelled" => run.cancel

\* An executor that ended normally holds no lease.  A leaked lease would keep the
\* run "active", unresumable and undeletable for two minutes.
NoLeakedLease == run.token # NoToken => ex[run.token].pc \notin {"idle", "done"}

\* An executor whose heartbeat stopped never owns the lease again, so an abort
\* that the user did not ask for can commit nothing.
AbandonedNeverOwns ==
    \A t \in Token : ex[t].abort /\ ~run.cancel => run.token # t

\* Once a cancel is durable, no executor turns the run into a success.
NoSuccessAfterCancel ==
    [][run.cancel /\ run.status # "succeeded" => run'.status # "succeeded"]_vars

\* Once a cancel is durable, the lease passes to nobody: not to a new executor,
\* not to a resume, not to a heartbeat that finds it free.
NoLeaseAfterCancel ==
    [][run.cancel => run'.token \in {run.token, NoToken}]_vars

-----------------------------------------------------------------------------
(* Liveness *)

\* A durable cancel is honoured for good, whatever crashes, lapses, lost signals
\* or stale writes come between: the run reaches a terminal status and keeps one.
CancelSettles == run.cancel ~> [](run.status \in Terminal)

\* No zombie: an active row that no executor serves ends, or is served again.
ZombieSettles ==
    (run.status \in Active /\ \A t \in Token : ~Alive(t))
        ~> (run.status \in Terminal \/ \E t \in Token : Alive(t))

=============================================================================
