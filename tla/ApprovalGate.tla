---------------------------- MODULE ApprovalGate ----------------------------
(***************************************************************************)
(* The approval gates of one run: runGate and applyGateFeedback in         *)
(* engine/src/pipeline/runner.ts, the signal columns of the agentrun row   *)
(* (engine/src/shared-db.ts), and the handlers that write them             *)
(* (backend/app/services/run_signals.py, the WebSocket in app/main.py).    *)
(*                                                                         *)
(* A gate shows the artifact of its stage to the user.  The user approves  *)
(* it, or requests changes: the engine then redoes the stage and comes     *)
(* back to the same gate.  Engine and gateway meet only in the row, one    *)
(* statement at a time; the user acts on the card the browser shows, which *)
(* follows the row by as much as the event stream is late.                 *)
(* Leases and the race for the terminal status are in RunLease.            *)
(***************************************************************************)
EXTENDS Naturals

CONSTANTS
    Feedbacks,      \* "request changes" submissions, by their uuid
    NoFeedback,
    LastGate,       \* gates are numbered in STAGE_ORDER
    MaxVersions     \* bound: how many versions a gate's artifact may reach

ASSUME GateAssumption == LastGate \in Nat \ {0} /\ MaxVersions \in Nat \ {0}
ASSUME NoFeedbackAssumption == NoFeedback \notin Feedbacks

VARIABLES
    row,            \* the gate columns of the agentrun row
    fb,             \* each submission and its receipt (a message row)
    version,        \* how often each gate's artifact was (re)made
    passed,         \* gates with a checkpoint
    eng,            \* where the runner is
    card,           \* the last approval card emitted, or none
    seen,           \* the card the browser shows
    mark,           \* history: what stood when the approval in the row was recorded
    basis           \* history: the mark of the approval each gate was left on

vars == <<row, fb, version, passed, eng, card, seen, mark, basis>>

-----------------------------------------------------------------------------
Gate == 1..LastGate
NoGate == 0
Version == 0..MaxVersions

Card == [gate: Gate \cup {NoGate}, version: Version]
NoCard == [gate |-> NoGate, version |-> 0]

Status == {"running", "waiting_for_approval", "cancelling",
           "succeeded", "failed", "cancelled"}
Over == {"succeeded", "failed", "cancelled"}
Row == [status: Status, cancel: BOOLEAN, confirm: BOOLEAN,
        feedback: Feedbacks \cup {NoFeedback}, awaiting: Gate \cup {NoGate}]

Outcome == {"revised", "not_applied", "failed"}
Submission == [state: {"unsent", "received", "regenerating"} \cup Outcome,
               made: Gate \cup {NoGate},      \* the gate it was accepted at
               at: Gate \cup {NoGate}]        \* the gate that answered it

\* Each pc names the statement the runner executes next.
Engine == [pc: {"down", "produce", "clear", "await", "payload", "poll", "approved", "leave",
                "confirm", "complete", "apply", "redo", "finish", "answer"},
           gate: Gate, fb: Feedbacks \cup {NoFeedback}, outcome: Outcome]

\* "old": the click was on the card of an earlier version of the same gate.
Mark == [gate: Gate \cup {NoGate}, version: Version, old: BOOLEAN]
NoMark == [gate |-> NoGate, version |-> 0, old |-> FALSE]

TypeOK ==
    /\ row \in Row
    /\ fb \in [Feedbacks -> Submission]
    /\ version \in [Gate -> Version]
    /\ passed \subseteq Gate
    /\ eng \in Engine
    /\ card \in Card /\ seen \in Card
    /\ mark \in Mark
    /\ basis \in [Gate -> Mark]
    \* The engine answers only what it took from the row.
    /\ eng.pc \in {"apply", "redo", "finish", "answer"} => eng.fb \in Feedbacks

-----------------------------------------------------------------------------
(* The runner: from the stage before a gate to the gate's poll loop *)

At(pc) == eng.pc = pc
Goto(pc) == eng' = [eng EXCEPT !.pc = pc]
CancelSeen == row.cancel \/ row.status \in {"cancelling", "cancelled"}

\* The stage the gate approves: run once, then found by its checkpoint.
Produce ==
    /\ At("produce") /\ ~CancelSeen
    /\ version' = [version EXCEPT ![eng.gate] = IF @ = 0 THEN 1 ELSE @]
    /\ Goto("clear")
    /\ UNCHANGED <<row, fb, passed, card, seen, mark, basis>>

\* clearConfirmSignal, at every opening of a gate.
KeptRow == row    \* mutant: an approval left over is not cleared
ClearedRow == [row EXCEPT !.confirm = FALSE]
ClearConfirm ==
    /\ At("clear")
    /\ row' = ClearedRow
    /\ mark' = IF row'.confirm THEN mark ELSE NoMark
    /\ Goto("await")
    /\ UNCHANGED <<fb, version, passed, card, seen, basis>>

WriteWaiting ==
    /\ At("await")
    /\ row' = [row EXCEPT !.status = "waiting_for_approval"]
    /\ Goto("payload")
    /\ UNCHANGED <<fb, version, passed, card, seen, mark, basis>>

\* setAwaitingPayload and the run_awaiting_confirm event.
OpenGate ==
    /\ At("payload")
    /\ row' = [row EXCEPT !.awaiting = eng.gate]
    /\ card' = [gate |-> eng.gate, version |-> version[eng.gate]]
    /\ Goto("poll")
    /\ UNCHANGED <<fb, version, passed, seen, mark, basis>>

\* gateSignals: everything a waiting gate asks of its row, in one read.
FeedbackPending == row.feedback # NoFeedback

\* waitForGateDecision: feedback first.
TakeFeedback ==
    /\ At("poll") /\ ~CancelSeen /\ FeedbackPending
    /\ eng' = [eng EXCEPT !.pc = "apply", !.fb = row.feedback]
    /\ UNCHANGED <<row, fb, version, passed, card, seen, mark, basis>>

TakeApproval ==
    /\ At("poll") /\ ~CancelSeen /\ ~FeedbackPending /\ row.confirm
    /\ row' = [row EXCEPT !.confirm = FALSE]
    /\ basis' = [basis EXCEPT ![eng.gate] = mark]
    /\ mark' = NoMark
    /\ Goto("approved")
    /\ UNCHANGED <<fb, version, passed, card, seen>>

\* The stage's error, or 30 minutes without a decision: the run fails, resumably.
FailRun ==
    /\ At("produce") \/ At("poll")
    /\ ~CancelSeen
    /\ row' = [row EXCEPT !.status = "failed"]
    /\ Goto("down")
    /\ UNCHANGED <<fb, version, passed, card, seen, mark, basis>>

\* An approved gate: payload, status, then run_confirmed and the checkpoint.
KeepPayload(r) == r    \* mutant: the card of the gate just left stays in the row
LeavePayload(r) == [r EXCEPT !.awaiting = NoGate]
DropPayload ==
    /\ At("approved")
    /\ row' = LeavePayload(row)
    /\ Goto("leave")
    /\ UNCHANGED <<fb, version, passed, card, seen, mark, basis>>

LeaveGate ==
    /\ At("leave")
    /\ row' = [row EXCEPT !.status = "running"]
    /\ Goto("confirm")
    /\ UNCHANGED <<fb, version, passed, card, seen, mark, basis>>

\* NEXT_STAGE, and the completion after the last gate.
After(g) == IF g = LastGate THEN [eng EXCEPT !.pc = "complete"]
            ELSE [eng EXCEPT !.pc = "produce", !.gate = g + 1]
ConfirmGate ==
    /\ At("confirm")
    /\ passed' = passed \cup {eng.gate}
    /\ card' = NoCard
    /\ eng' = After(eng.gate)
    /\ UNCHANGED <<row, fb, version, seen, mark, basis>>

CompleteRun ==
    /\ At("complete") /\ ~CancelSeen
    /\ row' = [row EXCEPT !.status = "succeeded", !.awaiting = NoGate]
    /\ Goto("down")
    /\ UNCHANGED <<fb, version, passed, card, seen, mark, basis>>

-----------------------------------------------------------------------------
(* The runner: applyGateFeedback *)

\* The receipt goes back to "received"; planGateFeedback finds nothing to redo.
RefuseFeedback ==
    /\ At("apply")
    /\ fb' = [fb EXCEPT ![eng.fb].state = "received"]
    /\ eng' = [eng EXCEPT !.pc = "finish", !.outcome = "not_applied"]
    /\ UNCHANGED <<row, version, passed, card, seen, mark, basis>>

\* Or it plans a redo: the run works again, and the card is withdrawn.
BeginRedo ==
    /\ At("apply")
    /\ fb' = [fb EXCEPT ![eng.fb].state = "regenerating"]
    /\ row' = [LeavePayload(row) EXCEPT !.status = "running"]
    /\ card' = NoCard
    /\ Goto("redo")
    /\ UNCHANGED <<version, passed, seen, mark, basis>>

\* A new forced attempt commits a new version.
Redo ==
    /\ At("redo") /\ ~CancelSeen
    /\ version[eng.gate] < MaxVersions
    /\ version' = [version EXCEPT ![eng.gate] = @ + 1]
    /\ eng' = [eng EXCEPT !.pc = "finish", !.outcome = "revised"]
    /\ UNCHANGED <<row, fb, passed, card, seen, mark, basis>>

RedoFails ==
    /\ At("redo") /\ ~CancelSeen
    /\ eng' = [eng EXCEPT !.pc = "finish", !.outcome = "failed"]
    /\ UNCHANGED <<row, fb, version, passed, card, seen, mark, basis>>

\* finish(): first the row gives the request up, then the receipt says how it ended.
Answered(id) == [fb EXCEPT ![id].state = eng.outcome, ![id].at = eng.gate]
ReceiptFirst == fb' = Answered(eng.fb) /\ UNCHANGED row    \* mutant: the other order
KeepFailedRequest ==    \* mutant: a request whose redo failed stays pending
    /\ row' = IF eng.outcome = "failed" THEN row ELSE [row EXCEPT !.feedback = NoFeedback]
    /\ UNCHANGED fb
GiveUpRequest == row' = [row EXCEPT !.feedback = NoFeedback] /\ UNCHANGED fb
FinishFeedback ==
    /\ At("finish")
    /\ GiveUpRequest
    /\ Goto("answer")
    /\ UNCHANGED <<version, passed, card, seen, mark, basis>>

WriteReceipt ==
    /\ At("answer")
    /\ fb' = Answered(eng.fb)
    /\ eng' = [eng EXCEPT !.pc = "clear", !.fb = NoFeedback, !.outcome = "revised"]
    /\ UNCHANGED <<row, version, passed, card, seen, mark, basis>>

\* shouldCancel at a boundary: finishCancelled.  A redo it interrupts is not answered.
Cancelled ==
    /\ eng.pc \in {"produce", "clear", "poll", "redo", "complete"} /\ CancelSeen
    /\ row' = [row EXCEPT !.status = "cancelled", !.awaiting = NoGate]
    /\ Goto("down")
    /\ UNCHANGED <<fb, version, passed, card, seen, mark, basis>>

-----------------------------------------------------------------------------
(* Crash, recovery, resume *)

\* The engine dies, or loses its lease, between any two statements.
Crash ==
    /\ ~At("down")
    /\ Goto("down")
    /\ UNCHANGED <<row, fb, version, passed, card, seen, mark, basis>>

\* The gateway finds the run without an executor.
DeclareDead ==
    /\ At("down") /\ row.status \notin Over
    /\ row' = [row EXCEPT !.status = IF row.cancel THEN "cancelled" ELSE "failed"]
    /\ UNCHANGED <<fb, version, passed, eng, card, seen, mark, basis>>

\* resume: from the stage after the last one with a checkpoint.
LastPassed == CHOOSE g \in passed : \A h \in passed : h <= g
ResumePoint == IF passed = {} THEN [eng EXCEPT !.pc = "produce", !.gate = 1]
               ELSE After(LastPassed)
Resume ==
    /\ At("down") /\ row.status \notin {"succeeded", "cancelled"} /\ ~CancelSeen
    /\ row' = [row EXCEPT !.status = "running"]
    /\ eng' = [ResumePoint EXCEPT !.fb = NoFeedback]
    /\ UNCHANGED <<fb, version, passed, card, seen, mark, basis>>

-----------------------------------------------------------------------------
(* The user, through the gateway *)

\* An event or a reload brings the browser up to date.
SeeCard ==
    /\ seen # card
    /\ seen' = card
    /\ UNCHANGED <<row, fb, version, passed, eng, card, mark, basis>>

RecordApproval ==
    /\ row' = [row EXCEPT !.confirm = TRUE]
    /\ mark' = [gate |-> eng.gate, version |-> version[eng.gate],
                old |-> seen.gate = eng.gate /\ seen.version # version[eng.gate]]
    /\ UNCHANGED <<fb, version, passed, eng, card, seen, basis>>

\* The WebSocket "confirm" message: trigger_confirm_signal has no condition.
ConfirmOverWebSocket == seen # NoCard /\ RecordApproval

\* approve_gate's conditional UPDATE: not with a request pending or being redone.
ApprovalAllowed ==
    /\ row.status = "waiting_for_approval" /\ ~FeedbackPending /\ ~row.cancel

\* POST /runs/:id/confirm (confirm_gate); a 409 changes nothing.
ApproveGate == seen # NoCard /\ ApprovalAllowed /\ RecordApproval

SubmitDespiteApproval ==    \* mutant: without the confirm_requested condition
    /\ row.status = "waiting_for_approval" /\ ~FeedbackPending /\ ~row.cancel
SubmitAllowed ==
    /\ row.status = "waiting_for_approval" /\ ~row.confirm
    /\ ~FeedbackPending /\ ~row.cancel
\* submit_gate_feedback: the request and its receipt, in one commit.  What it read of
\* the awaiting payload before its UPDATE only labels the receipt.
RecordFeedback(id) ==
    /\ row' = [row EXCEPT !.feedback = id]
    /\ fb' = [fb EXCEPT ![id].state = "received", ![id].made = eng.gate]
\* POST /runs/:id/gate-feedback (gate_feedback).
SubmitFeedback(id) ==
    /\ fb[id].state = "unsent" /\ seen # NoCard /\ SubmitAllowed
    /\ RecordFeedback(id)
    /\ UNCHANGED <<version, passed, eng, card, seen, mark, basis>>

\* The cancel intent (cancel_run); who ends the run is RunLease's subject.
CancelRun ==
    /\ row.status \notin Over /\ ~row.cancel
    /\ row' = [row EXCEPT !.cancel = TRUE, !.status = "cancelling"]
    /\ UNCHANGED <<fb, version, passed, eng, card, seen, mark, basis>>

-----------------------------------------------------------------------------
Init ==
    /\ row = [status |-> "running", cancel |-> FALSE, confirm |-> FALSE,
              feedback |-> NoFeedback, awaiting |-> NoGate]
    /\ fb = [id \in Feedbacks |-> [state |-> "unsent", made |-> NoGate, at |-> NoGate]]
    /\ version = [g \in Gate |-> 0]
    /\ passed = {}
    /\ eng = [pc |-> "produce", gate |-> 1, fb |-> NoFeedback, outcome |-> "revised"]
    /\ card = NoCard /\ seen = NoCard
    /\ mark = NoMark
    /\ basis = [g \in Gate |-> NoMark]

\* The runner's next statement.
Run ==
    \/ Produce \/ ClearConfirm \/ WriteWaiting \/ OpenGate \/ TakeFeedback \/ TakeApproval
    \/ DropPayload \/ LeaveGate \/ ConfirmGate \/ CompleteRun
    \/ RefuseFeedback \/ BeginRedo \/ Redo \/ RedoFails \/ FinishFeedback \/ WriteReceipt
    \/ Cancelled

User ==
    \/ SeeCard \/ ConfirmOverWebSocket \/ ApproveGate \/ CancelRun
    \/ \E id \in Feedbacks : SubmitFeedback(id)

Next == Run \/ FailRun \/ Crash \/ DeclareDead \/ Resume \/ User

Spec == Init /\ [][Next]_vars

\* The runner never sits between two statements (a gate may poll for long, so
\* its timeout is not assumed), a dead run is found when the project is read, and an
\* engine that dies at the same statement each time is not assumed to be repaired.
Fairness == WF_vars(Run) /\ WF_vars(DeclareDead) /\ <>[][~Crash]_vars
LiveSpec == Spec /\ Fairness

-----------------------------------------------------------------------------
(* Safety *)

\* A gate is left on an approval of the version that stands: one recorded at
\* another gate, or before a redo replaced what it approved, does not carry over,
\* whatever crashes and resumes come between.
ApprovalOfStandingVersion ==
    \A g \in passed : basis[g].gate = g /\ basis[g].version = version[g]

\* A request that was answered is never pending again, so no crash makes the
\* engine redo a stage it already reported on.
AnsweredOnce ==
    \A id \in Feedbacks : row.feedback = id => fb[id].state \in {"received", "regenerating"}

\* What a reload replays as the open card is the gate the runner stands at.
AwaitingMatchesRunner == ~At("down") => row.awaiting \in {NoGate, eng.gate}

-----------------------------------------------------------------------------
(* Liveness *)

\* A pending request is settled or outlived by the run: it never wedges its gate.
FeedbackResolves ==
    \A id \in Feedbacks : row.feedback = id ~> (row.feedback # id \/ row.status \in Over)

\* An approval recorded at an open gate with no request pending leaves that gate,
\* unless the runner dies or the run ends: no later request overtakes it.
ApprovalTakesEffect ==
    \A g \in Gate :
        (At("poll") /\ eng.gate = g /\ row.confirm /\ row.feedback = NoFeedback)
            ~> (g \in passed \/ At("down"))

=============================================================================
