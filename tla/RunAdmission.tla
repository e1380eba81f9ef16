---------------------------- MODULE RunAdmission ----------------------------
(***************************************************************************)
(* The runs of one project and the versions they replace: which runs the    *)
(* gateway admits beside each other, and how a regenerate that is stopped,  *)
(* dismissed or regretted gives the previous version back (runs.py,         *)
(* run_lifecycle.py, project_versions.py).                                  *)
(*                                                                         *)
(* A full run replaces the project and keeps a capture of what was there; a *)
(* targeted run redraws a shot or a character or composes again.  The lease *)
(* of a run is a flag here: who holds it is the subject of RunLease.        *)
(***************************************************************************)
EXTENDS Naturals, Sequences, FiniteSets, FiniteSetsExt

CONSTANTS
    Users,       \* requests that may be under way at the same time
    Tab,         \* the open project, which reads runs/current
    MaxRuns,     \* bound: runs of the project
    MaxWrites,   \* bound: changes of its content
    MaxDeaths    \* bound: deaths of the engine

ASSUME HandlersAssumption == Tab \notin Users

VARIABLES
    runs,      \* the rows of agent_run, in the order of created_at
    content,   \* the version the project shows, 0 when it is empty
    req,       \* per request: where its handler stands, what it has loaded
    left       \* what the bounds leave

vars == <<runs, content, req, left>>

Handlers == Users \cup {Tab}
\* A run at a gate is running here.
ACTIVE_RUN_STATUSES == {"queued", "running", "cancelling"}
TERMINAL_RUN_STATUSES == {"cancelled", "succeeded", "failed"}

\* resource_type: the one shot, the one character, or the project (a
\* recomposition); a full run has none.
Full == "full"
Resources == {"shot", "character", "project"}

NoRun == 0
Rows == 1..Len(runs)
IdleRequest == [pc |-> "idle", run |-> NoRun, on |-> Full,
                st |-> "failed", live |-> FALSE, used |-> TRUE]

-----------------------------------------------------------------------------
(* Queries *)

Newest(S) == IF S = {} THEN NoRun ELSE Max(S)
NewestIn(statuses) == Newest({r \in Rows : runs[r].st \in statuses})
Active == NewestIn(ACTIVE_RUN_STATUSES)            \* _latest_run_for_project
LatestTerminal == NewestIn(TERMINAL_RUN_STATUSES)
LatestFull == Newest({r \in Rows : runs[r].on = Full})  \* _latest_full_run

\* The latest run to end, if it broke: an older failure must not come back.
LatestRecoverable ==
    IF LatestTerminal # NoRun /\ runs[LatestTerminal].st = "failed" THEN LatestTerminal ELSE NoRun

\* _previous_version, not applied yet.
HasPrevious(r) == runs[r].capture # 0 /\ ~runs[r].restored

Fresh == MaxWrites - left.writes + 1
Writes == left.writes > 0 /\ content' = Fresh /\ left' = [left EXCEPT !.writes = @ - 1]

Goto(h, pc) == req' = [req EXCEPT ![h] = [IdleRequest EXCEPT !.pc = pc]]
Finish(h) == req' = [req EXCEPT ![h] = IdleRequest]
\* The handler keeps the row as it read it.
Loaded(h, pc, r) ==
    req' = [req EXCEPT ![h] = [pc |-> pc, run |-> r, on |-> runs[r].on, st |-> runs[r].st,
                               live |-> runs[r].live, used |-> ~HasPrevious(r)]]

-----------------------------------------------------------------------------
(* The engine *)

Commit(r) ==
    /\ runs[r].st = "running" /\ runs[r].live
    /\ Writes
    /\ UNCHANGED <<runs, req>>

End(r) ==
    /\ runs[r].st = "running" /\ runs[r].live
    /\ \E st \in {"succeeded", "failed"} :
         runs' = [runs EXCEPT ![r].st = st, ![r].live = FALSE]
    /\ UNCHANGED <<content, req, left>>

\* finishCancelled.  It leaves the previous version to the gateway.
EndCancelled(r) ==
    /\ runs[r].st = "cancelling" /\ runs[r].live
    /\ runs' = [runs EXCEPT ![r].st = "cancelled", ![r].live = FALSE]
    /\ UNCHANGED <<content, req, left>>

EngineDies ==
    /\ left.deaths > 0 /\ left' = [left EXCEPT !.deaths = @ - 1]
    /\ runs' = [r \in Rows |-> [runs[r] EXCEPT !.live = FALSE]]
    /\ UNCHANGED <<content, req>>

-----------------------------------------------------------------------------
(* Giving the previous version back *)

\* _restore_previous_version: from the row as it was loaded.
RestoredRow(row) == [row EXCEPT !.restored = TRUE]
PutBack(h) ==
    IF req[h].used THEN UNCHANGED <<runs, content>>
    ELSE /\ content' = runs[req[h].run].capture
         /\ runs' = [runs EXCEPT ![req[h].run] = RestoredRow(@)]

\* _settle_stopped_run: only the latest of the runs that have ended.
SettlesFailed(st) == st = "failed"   \* mutant
Settles(st) == st = "cancelled"
ToSettle(latest) == latest # NoRun /\ Settles(runs[latest].st) /\ HasPrevious(latest)

\* _reconcile_active_candidate, of the newest active row.
ReconciledIfTold(row) == [row EXCEPT !.st = IF @ = "cancelling" THEN "cancelled" ELSE @]   \* mutant
Reconciled(row) == [row EXCEPT !.st = IF @ = "cancelling" THEN "cancelled" ELSE "failed"]
Reconcile == runs' = [runs EXCEPT ![Active] = Reconciled(@)]

\* GET runs/current: reconcile, then look at the latest run that has ended.
Current(h) ==
    /\ req[h].pc = "idle"
    /\ \/ /\ Active # NoRun /\ ~runs[Active].live /\ Reconcile
          /\ Goto(h, "current")
          /\ UNCHANGED <<content, left>>
       \/ /\ Active = NoRun /\ ToSettle(LatestTerminal)
          /\ Loaded(h, "settle", LatestTerminal)
          /\ UNCHANGED <<runs, content, left>>
CurrentEnded(h) ==
    /\ req[h].pc = "current"
    /\ IF ToSettle(LatestTerminal) THEN Loaded(h, "settle", LatestTerminal) ELSE Finish(h)
    /\ UNCHANGED <<runs, content, left>>
Settle(h) ==
    /\ req[h].pc = "settle"
    /\ PutBack(h) /\ Finish(h)
    /\ UNCHANGED left

-----------------------------------------------------------------------------
(* Starting runs *)

\* POST runs.  A reconciled run is offered for resuming: a conflict as well.
StartRun(h) ==
    /\ req[h].pc = "idle" /\ Len(runs) < MaxRuns
    /\ \/ /\ Active = NoRun
          /\ IF ToSettle(LatestTerminal) THEN Loaded(h, "startSettle", LatestTerminal)
             ELSE Goto(h, "startCheck")
          /\ UNCHANGED <<runs, content, left>>
       \/ /\ Active # NoRun /\ ~runs[Active].live /\ Reconcile
          /\ Goto(h, IF runs[Active].st = "cancelling" THEN "startCancelled" ELSE "current")
          /\ UNCHANGED <<content, left>>
StartCancelled(h) ==
    /\ req[h].pc = "startCancelled"
    /\ IF ToSettle(LatestTerminal) THEN Loaded(h, "startSettleLast", LatestTerminal)
       ELSE Goto(h, "startInsert")
    /\ UNCHANGED <<runs, content, left>>
StartSettle(h) ==
    /\ \/ req[h].pc = "startSettle" /\ Goto(h, "startCheck")
       \/ req[h].pc = "startSettleLast" /\ Goto(h, "startInsert")
    /\ PutBack(h)
    /\ UNCHANGED left
\* decide_generation_entry: not while the latest run to end can be resumed.
StartCheck(h) ==
    /\ req[h].pc = "startCheck"
    /\ IF LatestRecoverable # NoRun THEN Finish(h) ELSE Goto(h, "startInsert")
    /\ UNCHANGED <<runs, content, left>>

Row(on, capture) ==
    [on |-> on, st |-> "queued", live |-> FALSE, capture |-> capture, restored |-> FALSE]
Insert(h, row) ==
    /\ Len(runs) < MaxRuns
    /\ runs' = Append(runs, row)
    /\ req' = [req EXCEPT ![h] = [IdleRequest EXCEPT !.pc = "dispatch", !.run = Len(runs) + 1]]
\* capture_project_version: nothing of an empty project.
CaptureVersion == content
StartInsert(h) ==
    /\ req[h].pc = "startInsert"
    /\ Insert(h, Row(Full, CaptureVersion))
    /\ UNCHANGED <<content, left>>

\* assert_resource_idle: whatever else runs.
Busy(r) == runs[r].st \in {"queued", "running"}
Free(on) == ~\E r \in Rows : Busy(r) /\ runs[r].on = on
StartTarget(h, on) ==
    /\ req[h].pc = "idle" /\ Len(runs) < MaxRuns
    /\ content # 0 /\ Free(on)
    /\ req' = [req EXCEPT ![h] = [IdleRequest EXCEPT !.pc = "targetInsert", !.on = on]]
RegenerateShot(h) == StartTarget(h, "shot") /\ UNCHANGED <<runs, content, left>>
\* What the request changes of the character is saved before the run is made.
RegenerateCharacter(h) ==
    /\ StartTarget(h, "character")
    /\ Writes \/ UNCHANGED <<content, left>>
    /\ UNCHANGED runs
\* A recomposition asks that nothing is queued or running.
Recompose(h) ==
    /\ ~\E r \in Rows : Busy(r)
    /\ StartTarget(h, "project")
    /\ UNCHANGED <<runs, content, left>>
TargetInsert(h) ==
    /\ req[h].pc = "targetInsert"
    /\ Insert(h, Row(req[h].on, 0))
    /\ UNCHANGED <<content, left>>

\* POST resume: whatever else runs.
ResumeRun(h, r) ==
    /\ req[h].pc = "idle"
    /\ runs[r].st \notin {"succeeded", "cancelled"} /\ ~runs[r].live
    /\ Loaded(h, "resume", r)
    /\ UNCHANGED <<runs, content, left>>

\* The engine takes the lease, or answers that there is nothing to take; a run
\* to be stopped that nobody holds is settled.
Conflict(r) == runs[r].live \/ runs[r].st = "cancelled"
Take(r) ==
    IF Conflict(r) THEN UNCHANGED runs
    ELSE runs' = [runs EXCEPT ![r].st = IF @ = "cancelling" THEN "cancelled" ELSE "running",
                              ![r].live = runs[r].st # "cancelling"]
PostRun(h) ==
    /\ req[h].pc = "dispatch" /\ Take(req[h].run) /\ Finish(h)
    /\ UNCHANGED <<content, left>>
PostResume(h) ==
    /\ req[h].pc = "resume" /\ Take(req[h].run) /\ Finish(h)
    /\ UNCHANGED <<content, left>>
\* A command that does not stand, or whose targets are gone: the row stays.
CommandRefused(h) ==
    /\ req[h].pc \in {"dispatch", "resume"} /\ Finish(h)
    /\ UNCHANGED <<runs, content, left>>
\* The same when no engine answers.
EngineUnavailable(h) == CommandRefused(h)

-----------------------------------------------------------------------------
(* Stopping and going back *)

LoadForCancel(h, r) ==
    /\ req[h].pc = "idle" /\ runs[r].st \notin {"succeeded", "cancelled"}
    /\ Loaded(h, "cancel", r)
    /\ UNCHANGED <<runs, content, left>>
\* A broken run is dismissed if it is still failed; one with a lease is told.
CancelRun(h) ==
    LET r == req[h].run IN
    /\ req[h].pc = "cancel"
    /\ \/ /\ req[h].st = "failed" /\ runs[r].st # "failed"
          /\ Finish(h) /\ UNCHANGED runs
       \/ /\ req[h].st # "failed" /\ req[h].live
          /\ runs' = [runs EXCEPT ![r].st = "cancelling"]
          /\ Finish(h)
       \/ /\ IF req[h].st = "failed" THEN runs[r].st = "failed" ELSE ~req[h].live
          /\ runs' = [runs EXCEPT ![r].st = "cancelled", ![r].live = (req[h].st # "failed") /\ @]
          /\ req' = [req EXCEPT ![h].pc = "settle"]
    /\ UNCHANGED <<content, left>>

\* POST restore-previous: a finished run, nothing active, nothing newer.
Restorable(r) == runs[r].st \in TERMINAL_RUN_STATUSES /\ HasPrevious(r)
LoadForRestore(h, r) ==
    /\ req[h].pc = "idle" /\ Restorable(r)
    /\ Active = NoRun /\ r = LatestFull
    /\ Loaded(h, "settle", r)
    /\ UNCHANGED <<runs, content, left>>

\* A user edits the project.
Edit ==
    /\ Writes
    /\ UNCHANGED <<runs, req>>

-----------------------------------------------------------------------------
Init ==
    /\ runs = <<>> /\ content = 0
    /\ req = [h \in Handlers |-> IdleRequest]
    /\ left = [writes |-> MaxWrites, deaths |-> MaxDeaths]

EngineStep == \E r \in Rows : Commit(r) \/ End(r) \/ EndCancelled(r)
Ask(h) ==
    \/ StartRun(h) \/ RegenerateShot(h) \/ RegenerateCharacter(h) \/ Recompose(h)
    \/ \E r \in Rows : LoadForCancel(h, r) \/ LoadForRestore(h, r) \/ ResumeRun(h, r)
Proceed(h) ==
    \/ CurrentEnded(h) \/ Settle(h) \/ CancelRun(h)
    \/ StartCancelled(h) \/ StartSettle(h) \/ StartCheck(h) \/ StartInsert(h)
    \/ TargetInsert(h) \/ PostRun(h) \/ PostResume(h)
    \/ CommandRefused(h) \/ EngineUnavailable(h)
Next ==
    \/ EngineStep \/ EngineDies \/ Edit
    \/ Current(Tab)
    \/ \E h \in Users : Ask(h)
    \/ \E h \in Handlers : Proceed(h)

Spec == Init /\ [][Next]_vars

\* The engine stops when told; a request is answered; the open project is read
\* again (at a gate, on focus, after whatever the user does).
LiveSpec ==
    /\ Spec
    /\ \A r \in 1..MaxRuns : WF_vars(r \in Rows /\ EndCancelled(r))
    /\ \A h \in Handlers : WF_vars(Proceed(h))
    /\ WF_vars(Current(Tab))

-----------------------------------------------------------------------------
(* Properties *)

\* A regenerate that ended as cancelled gives its previous version back once
\* nothing runs, unless another run is made or resumed first.
StopSettles ==
    \A r \in 1..MaxRuns :
        (r = Len(runs) /\ runs[r].st = "cancelled" /\ HasPrevious(r) /\ Active = NoRun)
            ~> (Len(runs) > r \/ Active # NoRun \/ (r \in Rows /\ ~HasPrevious(r)))

\* A row that claims to be active but has no executor does not stay so, unless
\* a newer run is active.
ZombiesEnd ==
    \A r \in 1..MaxRuns :
        (r \in Rows /\ runs[r].st \in ACTIVE_RUN_STATUSES /\ ~runs[r].live)
            ~> (r \in Rows /\ (runs[r].st \notin ACTIVE_RUN_STATUSES \/ runs[r].live \/ Active > r))

=============================================================================
