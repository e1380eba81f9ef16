------------------------------ MODULE Workflow ------------------------------
(***************************************************************************)
(* One run of PipelineRunner (engine/src/pipeline/runner.ts) over the      *)
(* fifteen stages: what each stage makes (engine/src/agents/index.ts), the *)
(* checkpoints it leaves, the reviews that send images back, the redos a   *)
(* gate asks for, runs that only compose the clips again, targeted runs,   *)
(* and where a failed or crashed run is taken up again.                    *)
(*                                                                         *)
(* Who owns the run is RunLease's subject, the signals of a gate           *)
(* ApprovalGate's, and edits by others while a stage works StageWrites'.   *)
(***************************************************************************)
EXTENDS Naturals, FiniteSets

CONSTANTS
    Characters, Shots,
    Cast,           \* [Shots -> SUBSET Characters]: who is in the frame
    MaxRounds,      \* critique_max_rounds
    GuardLimit,     \* how many steps the stage loop takes (64 in the code)
    MaxCrashes,     \* bound: crashes and failures of one run
    MaxRedos        \* bound: change requests of one run

ASSUME CastAssumption == Cast \in [Shots -> SUBSET Characters]
ASSUME BoundsAssumption ==
    /\ MaxRounds \in Nat /\ GuardLimit \in Nat
    /\ MaxCrashes \in Nat /\ MaxRedos \in Nat
\* Fifteen stages, and three more for every round of either review.  The
\* setting has no upper bound in the code: nine rounds would break this.
ASSUME GuardAssumption == 15 + 6 * MaxRounds <= GuardLimit

VARIABLES
    req,            \* what was asked for
    run,            \* status and cancel flag of the row
    pc,             \* what the runner does
    ctx,            \* the runner's context: lost in a crash
    ck,             \* stages with a checkpoint
    tck,            \* artifacts with a target checkpoint
    ask,            \* the change request in the row, until its redo is over
    have,           \* the artifacts that exist
    project,        \* project.status
    left,           \* crashes and redos left, by the bounds
    stale,          \* history: artifacts made from something replaced since
    approved,       \* history: artifacts approved since they were made
    spent,          \* history: targets drawn and not asked for again since
    lost,           \* history: those of them that a redo drew which a crash cut short
    touched,        \* history: what has been replaced for the request in the row
    broken          \* history: a redo failed after it had replaced something

db == <<ck, tck, ask>>
history == <<stale, approved, spent, lost, touched, broken>>
vars == <<req, run, pc, ctx, db, have, project, left, history>>

-----------------------------------------------------------------------------
(* Stages, in STAGE_ORDER *)

PlanOutline == 1        OutlineApproval == 2
PlanCharacters == 3     CharactersApproval == 4
PlanShots == 5          ShotsApproval == 6
RenderCharacters == 7   CharacterImagesApproval == 8   CritiqueCharacterImages == 9
RenderShots == 10       ShotImagesApproval == 11       CritiqueShotImages == 12
ComposeVideos == 13     ComposeMerge == 14             ComposeApproval == 15

Stage == PlanOutline..ComposeApproval
NoStage == 16           \* NEXT_STAGE of the last one
Next1(s) == s + 1
Gates == {OutlineApproval, CharactersApproval, ShotsApproval,
          CharacterImagesApproval, ShotImagesApproval, ComposeApproval}
Critiques == {CritiqueCharacterImages, CritiqueShotImages}
From(s) == s..ComposeApproval

-----------------------------------------------------------------------------
(* Artifacts *)

Outline == <<"outline">>
Sheet == <<"characters">>
Board == <<"shots">>
Face(c) == <<"character_image", c>>
Frame(s) == <<"shot_image", s>>
Clip(s) == <<"shot_video", s>>
Cut == <<"cut">>

Faces == {Face(c) : c \in Characters}
Frames == {Frame(s) : s \in Shots}
Clips == {Clip(s) : s \in Shots}
Media == Faces \cup Frames \cup Clips
Artifact == {Outline, Sheet, Board, Cut} \cup Media

\* Everything an artifact is made from.
Basis(a) ==
    CASE a = Outline -> {}
      [] a = Sheet -> {Outline}
      [] a = Board -> {Outline, Sheet}
      [] a \in Faces -> {Outline, Sheet}
      [] a \in Frames -> {Outline, Sheet, Board} \cup {Face(c) : c \in Cast[a[2]]}
      [] a \in Clips -> {Outline, Sheet, Board, Frame(a[2])} \cup {Face(c) : c \in Cast[a[2]]}
      [] a = Cut -> Artifact \ {Cut}

\* What a commit leaves of the history when `new` is made and `gone` deleted.
StaleAfter(new, gone) ==
    {a \in (have \cup new) \ gone :
       IF a \in new THEN Basis(a) \cap stale # {}
                    ELSE a \in stale \/ Basis(a) \cap (new \cup gone) # {}}

-----------------------------------------------------------------------------
NoScope == {}           \* no targets: every entity
Request == [start : {PlanOutline, ComposeMerge},     \* startStage
            targets : SUBSET Media, force : BOOLEAN, auto : BOOLEAN,
            review : BOOLEAN]              \* critique_enabled
Targeted == req.targets # {}
Full(r) == r.start = PlanOutline

\* _valid_execution_command: characters with their images, shots with their
\* images or their clips, and nothing of both.
ValidCommand(r) ==
    /\ r \in Request
    /\ \E kind \in {Faces, Frames, Clips} : r.targets \subseteq kind

\* What the routes send: a full run, a few targets, or POST /runs/recompose.
Sent(r) ==
    /\ ValidCommand(r)
    /\ r.force => r.targets # {}
    /\ ~Full(r) => r.targets = {} /\ r.auto

\* The gate_feedback column: at most one request at a time.
NoAsk == [open |-> FALSE, ids |-> {}]
Asked(ids) == [open |-> TRUE, ids |-> ids]

Working == {"work", "redo"}
Pc == {"down", "loop", "gate", "critique", "sendback", "over"} \cup Working
Context == [stage : Stage \cup {NoStage}, guard : 0..GuardLimit,
            todo : SUBSET Artifact,
            scope : SUBSET Media,          \* targetCharacterIds / targetShotIds
            redraw : BOOLEAN,              \* forceCharacterRedraw
            faceRounds : 0..MaxRounds + 1, frameRounds : 0..MaxRounds + 1,
            gate : Stage \cup {NoStage},   \* the gate whose redo is running
            saved : SUBSET Media, savedRedraw : BOOLEAN]
Idle == [stage |-> NoStage, guard |-> 0, todo |-> {}, scope |-> NoScope, redraw |-> FALSE,
         faceRounds |-> 0, frameRounds |-> 0, gate |-> NoStage,
         saved |-> NoScope, savedRedraw |-> FALSE]
Run == [status : {"queued", "running", "succeeded", "failed", "cancelled"}, cancel : BOOLEAN]
ProjectStatus == {"draft", "planning", "ready", "superseded", "failed"}

TypeOK ==
    /\ req \in Request /\ run \in Run /\ pc \in Pc /\ ctx \in Context
    /\ ck \subseteq Stage /\ tck \subseteq Media /\ have \subseteq Artifact
    /\ ask \in [open : BOOLEAN, ids : SUBSET Media]
    /\ project \in ProjectStatus
    /\ left \in [crashes : 0..MaxCrashes, redos : 0..MaxRedos]
    /\ stale \subseteq have /\ approved \subseteq Artifact
    /\ spent \subseteq Media /\ lost \subseteq Media /\ touched \subseteq Artifact
    /\ broken \in BOOLEAN
    /\ ctx.gate # NoStage => pc = "redo"

-----------------------------------------------------------------------------
(* What a stage has to make: the filters at the head of each stage agent *)

InScope(as, scope) == IF scope \cap as = NoScope THEN as ELSE scope \cap as

Undrawn(kind, scope, redraw, done) ==
    {a \in InScope(kind, scope) : a \notin done /\ (a \in scope \/ redraw \/ a \notin have)}

Pending(s, scope, redraw, done) ==
    CASE s = PlanOutline -> {Outline}
      [] s = PlanCharacters -> {Sheet}
      [] s = PlanShots -> {Board}
      [] s = RenderCharacters -> Undrawn(Faces, scope, redraw, done)
      [] s = RenderShots -> Undrawn(Frames, scope, FALSE, done)
      [] s = ComposeVideos -> Undrawn(Clips, scope, FALSE, done)
      [] s = ComposeMerge -> IF Clips \cap have = {} THEN {} ELSE {Cut}
      [] OTHER -> {}

\* A stage's kind of entities, and where its review sends them back to.
OfFaces(s) == s \in {RenderCharacters, CritiqueCharacterImages}
KindOf(s) == IF OfFaces(s) THEN Faces ELSE Frames
RenderOf(s) == IF OfFaces(s) THEN RenderCharacters ELSE RenderShots
Rounds(s) == IF OfFaces(s) THEN ctx.faceRounds ELSE ctx.frameRounds

CancelSeen == run.cancel

\* dropTargetCheckpoints: what was asked for again is no longer done.
Dropped(again) == tck \ again

-----------------------------------------------------------------------------
(* Start and resume *)

Begin(stage, scope, redraw) ==
    /\ run' = [run EXCEPT !.status = "running"]
    /\ ctx' = [Idle EXCEPT !.stage = stage, !.scope = scope, !.redraw = redraw]
    /\ pc' = "loop"
    /\ UNCHANGED project

Succeed(p) ==
    /\ run' = [run EXCEPT !.status = "succeeded"]
    /\ project' = p
    /\ ctx' = Idle
    /\ pc' = "over"

Kept(s) == ck    \* mutant: the approval of the rejected images is kept
KeptRender(s) == ck \ From(Next1(s))    \* mutant: off by one
OnlyRendered(s) == ck \ {s}    \* mutant: the stages after it stand
\* invalidateCheckpointsFrom
Invalidated(s) == ck \ From(s)

\* runInner: from the stage the command names.  Of an earlier attempt at it
\* nothing is kept, and a full run forgets what has a target checkpoint too.
StartRun ==
    /\ pc = "down" /\ ~CancelSeen /\ ~Targeted
    /\ run.status = "queued" \/ ck = {}
    /\ run.status \in {"queued", "running", "failed"}
    /\ ck' = Invalidated(req.start)
    /\ tck' = IF Full(req) THEN {} ELSE tck
    /\ Begin(req.start, NoScope, Full(req))
    /\ UNCHANGED <<req, ask, have, left, history>>

\* resumeInner: on after the last checkpoint, whatever is missing before it.
LastCompleted == CHOOSE s \in ck : \A t \in ck : t <= s
ResumeRun ==
    /\ pc = "down" /\ ~CancelSeen /\ ~Targeted
    /\ run.status \in {"running", "failed"} /\ ck # {}
    /\ \/ /\ LastCompleted # ComposeApproval
          /\ Begin(Next1(LastCompleted), NoScope, Full(req))
       \/ /\ LastCompleted = ComposeApproval /\ Cut \notin have
          /\ Begin(ComposeMerge, NoScope, Full(req))
       \/ /\ LastCompleted = ComposeApproval /\ Cut \in have
          /\ Succeed("ready")
    /\ UNCHANGED <<req, db, have, left, history>>

\* runTargeted, first and recovering: what is there already is not redrawn.
Effective(recovering) ==
    {a \in req.targets \ tck : recovering \/ req.force \/ a \notin have}
StageFor(targets) ==
    CASE targets \subseteq Faces -> RenderCharacters
      [] targets \subseteq Frames -> RenderShots
      [] OTHER -> ComposeVideos
BeginTargets(targets) == Begin(StageFor(req.targets), targets, FALSE)
StartTargets ==
    /\ pc = "down" /\ ~CancelSeen /\ Targeted
    /\ run.status \in {"queued", "running", "failed"}
    /\ LET targets == Effective(run.status # "queued") IN
         IF targets = {} THEN Succeed(project)
                         ELSE BeginTargets(targets)
    /\ UNCHANGED <<req, db, have, left, history>>

-----------------------------------------------------------------------------
(* The stage loop: runFromStage, runStages *)

\* Only the loop over the fifteen stages is counted.
Counted(c) == IF Targeted THEN c ELSE [c EXCEPT !.guard = @ + 1]
Cut64 == ~Targeted /\ ctx.guard = GuardLimit

EnterStage ==
    /\ pc = "loop" /\ ~CancelSeen /\ ctx.stage # NoStage /\ ~Cut64
    /\ LET s == ctx.stage IN
         CASE s \in Gates -> ctx' = Counted(ctx) /\ pc' = "gate"
           [] s \in Critiques -> ctx' = Counted(ctx) /\ pc' = "critique"
           [] OTHER -> /\ ctx' = Counted([ctx EXCEPT
                                   !.todo = Pending(s, ctx.scope, ctx.redraw, tck)])
                       /\ pc' = "work"
    /\ UNCHANGED <<req, run, db, have, project, left, history>>

\* emitter.commit: what a stage made goes into the database, and with it go the
\* outputs it invalidates, its target checkpoint and the note on the project.
CommitAllowed == ~run.cancel
KeepStatus(p) == p    \* mutant: a redraw leaves the final video as it is
Superseded(p) == IF Cut \in have THEN "superseded" ELSE p
Uncheckpointed(a) == tck    \* mutant: the target checkpoint is not in the commit
Checkpointed(a) == tck \cup {a}

Commit(a, gone, done, p) ==
    /\ pc \in Working /\ a \in ctx.todo /\ CommitAllowed
    /\ ctx' = [ctx EXCEPT !.todo = @ \ {a}]
    /\ have' = (have \cup {a}) \ gone
    /\ tck' = done
    /\ project' = p
    /\ stale' = StaleAfter({a}, gone)
    /\ approved' = approved \ (gone \cup {a})
    /\ spent' = (spent \ gone) \cup ({a} \cap Media)
    /\ lost' = lost \ {a}
    /\ touched' = IF pc = "redo" THEN touched \cup {a} ELSE {}
    /\ UNCHANGED <<req, run, pc, ck, ask, left, broken>>

WriteOutline == Commit(Outline, {}, tck, "planning")

\* Characters the planner does not mention are deleted, new ones inserted.
PlanSheet == \E gone \in SUBSET Faces : Commit(Sheet, gone, tck, project)

\* applyShotPlan: wipe and recreate.
PlanBoard == Commit(Board, Frames \cup Clips, tck, project)

ClipLeft(s) == {}    \* mutant: the clip of the old keyframe stays
ClipOf(s) == {Clip(s)}
ShotsOf(c) == {s \in Shots : c \in Cast[s]}
DrawFace(c) ==
    Commit(Face(c), UNION {{Frame(s), Clip(s)} : s \in ShotsOf(c)},
           Checkpointed(Face(c)), Superseded(project))
DrawFrame(s) == Commit(Frame(s), ClipOf(s), Checkpointed(Frame(s)), Superseded(project))
ShootClip(s) == Commit(Clip(s), {}, Checkpointed(Clip(s)), Superseded(project))
MergeClips == Commit(Cut, {}, tck, "ready")

Make ==
    \/ WriteOutline \/ PlanSheet \/ PlanBoard \/ MergeClips
    \/ \E c \in Characters : DrawFace(c)
    \/ \E s \in Shots : DrawFrame(s) \/ ShootClip(s)

\* A production stage is done.
StageDone ==
    /\ pc = "work" /\ ~Targeted /\ ctx.todo = {} /\ ~CancelSeen
    /\ ck' = ck \cup {ctx.stage}
    /\ ctx' = [ctx EXCEPT !.stage = Next1(@)]
    /\ pc' = "loop"
    /\ UNCHANGED <<req, run, tck, ask, have, project, left, history>>

-----------------------------------------------------------------------------
(* Reviews: runCritique and what the loop does with its outcome *)

JudgedOnce(c, s) == c    \* mutant: the rounds are not counted
Judged(c, s) == IF OfFaces(s) THEN [c EXCEPT !.faceRounds = @ + 1]
                              ELSE [c EXCEPT !.frameRounds = @ + 1]

Reviewed == InScope(KindOf(ctx.stage), ctx.scope)

\* askCritic: a missing image has no verdict, and neither has one that nobody
\* could look at; no verdict is not a failing grade.
Verdicts == {v \in [Reviewed -> {"none", "passed", "failed"}] :
               \A a \in Reviewed : a \notin have => v[a] = "none"}
SentBack(v) == {a \in Reviewed : v[a] = "failed" /\ Rounds(ctx.stage) < MaxRounds}

\* Nothing is sent back: the targets of the last review are forgotten.
Pass ==
    /\ pc = "critique" /\ ~Targeted /\ ~CancelSeen
    /\ \E v \in Verdicts : SentBack(v) = {}
    /\ ctx' = [Judged(ctx, ctx.stage) EXCEPT !.scope = @ \ KindOf(ctx.stage),
                                             !.stage = Next1(@)]
    /\ ck' = ck \cup {ctx.stage}
    /\ pc' = "loop"
    /\ UNCHANGED <<req, run, tck, ask, have, project, left, history>>

\* What was sent back is drawn again, with the targets narrowed to it.
Narrow(again) ==
    /\ again # {}
    /\ ctx' = [Judged(ctx, ctx.stage) EXCEPT !.scope = (@ \ KindOf(ctx.stage)) \cup again]
    /\ tck' = Dropped(again)
    /\ spent' = spent \ again
    /\ UNCHANGED <<req, run, ck, ask, have, project, left, stale, approved, lost, touched, broken>>

Reject ==
    /\ pc = "critique" /\ ~Targeted /\ ~CancelSeen
    /\ \E v \in Verdicts : Narrow(SentBack(v))
    /\ pc' = "sendback"

SendBack ==
    /\ pc = "sendback"
    /\ ck' = Invalidated(RenderOf(ctx.stage))
    /\ ctx' = [ctx EXCEPT !.stage = RenderOf(@)]
    /\ pc' = "loop"
    /\ UNCHANGED <<req, run, tck, ask, have, project, left, history>>

-----------------------------------------------------------------------------
(* Gates: runGate and applyGateFeedback; the signals are in ApprovalGate *)

Shown(gate) ==
    CASE gate = OutlineApproval -> {Outline}
      [] gate = CharactersApproval -> {Sheet}
      [] gate = ShotsApproval -> {Board}
      [] gate = CharacterImagesApproval -> Faces
      [] gate = ShotImagesApproval -> Frames
      [] OTHER -> Clips \cup {Cut}

\* In auto mode the gate opens by itself, and nobody has looked; with a person,
\* a change request is never read as an approval.
Approve ==
    /\ pc = "gate" /\ ~CancelSeen /\ ~ask.open
    /\ ck' = ck \cup {ctx.stage}
    /\ approved' = IF req.auto THEN approved ELSE approved \cup Shown(ctx.stage)
    /\ ctx' = [ctx EXCEPT !.stage = Next1(@)]
    /\ pc' = "loop"
    /\ UNCHANGED <<req, run, tck, ask, have, project, left, stale, spent, lost, touched, broken>>

\* planGateFeedback: what the request may select, and the first stage to redo.
Selectable(gate) ==
    CASE gate = CharacterImagesApproval -> (SUBSET Faces) \ {NoScope}
      [] gate = ShotImagesApproval -> (SUBSET Frames) \ {NoScope}
      [] gate = ComposeApproval -> (SUBSET Clips) \ {NoScope}
      [] OTHER -> {NoScope}
RedoStage(gate) == IF gate = ComposeApproval THEN ComposeVideos ELSE gate - 1

\* submit_gate_feedback: refused while another request is in the row.
RequestChanges ==
    /\ pc = "gate" /\ ~CancelSeen /\ ~req.auto /\ ~ask.open /\ left.redos > 0
    /\ \E ids \in Selectable(ctx.stage) : ask' = Asked(ids) /\ spent' = spent \ ids
    /\ left' = [left EXCEPT !.redos = @ - 1]
    /\ UNCHANGED <<req, run, pc, ctx, ck, tck, have, project, stale, approved, lost,
                   touched, broken>>

\* runGate peeks the request and applyGateFeedback starts on it; after a crash
\* that cut the redo short it starts on the same request once more.
Redo ==
    /\ pc = "gate" /\ ~CancelSeen /\ ask.open
    /\ LET s == RedoStage(ctx.stage)
           scope == (ctx.scope \ Shown(ctx.stage)) \cup ask.ids
           redraw == ctx.redraw \/ s = RenderCharacters
       IN ctx' = [ctx EXCEPT !.gate = ctx.stage, !.stage = s, !.scope = scope,
                             !.redraw = redraw, !.saved = ctx.scope,
                             !.savedRedraw = ctx.redraw,
                             !.todo = Pending(s, scope, redraw, Dropped(ask.ids))]
    /\ tck' = Dropped(ask.ids)
    /\ pc' = "redo"
    /\ UNCHANGED <<req, run, ck, ask, have, project, left, history>>

ForgetRedo(c) == [c EXCEPT !.stage = c.gate, !.scope = c.saved, !.redraw = c.savedRedraw,
                           !.todo = {}]    \* mutant: the gate stays noted
BackAtGate(c) == [ForgetRedo(c) EXCEPT !.gate = NoStage, !.saved = NoScope,
                                       !.savedRedraw = FALSE]

\* The redo at the last gate has a second stage, the merge.  The request is
\* cleared after the last one (finish), not before.
RedoDone ==
    /\ pc = "redo" /\ ctx.todo = {} /\ ~CancelSeen
    /\ ck' = ck \cup {ctx.stage}
    /\ IF ctx.stage = ComposeVideos
       THEN /\ ctx' = [ctx EXCEPT !.stage = ComposeMerge,
                          !.todo = Pending(ComposeMerge, ctx.scope, ctx.redraw, tck)]
            /\ pc' = "redo" /\ UNCHANGED <<ask, touched>>
       ELSE /\ ctx' = BackAtGate(ctx)
            /\ pc' = "gate" /\ ask' = NoAsk /\ touched' = {}
    /\ UNCHANGED <<req, run, tck, have, project, left, stale, approved, spent, lost, broken>>

\* "The previous version is still in place; say so and keep waiting."
RedoFails ==
    /\ pc = "redo" /\ ~CancelSeen
    /\ ctx' = BackAtGate(ctx)
    /\ pc' = "gate"
    /\ ask' = NoAsk /\ touched' = {}
    /\ broken' = (broken \/ touched # {})
    /\ UNCHANGED <<req, run, ck, tck, have, project, left, stale, approved, spent, lost>>

-----------------------------------------------------------------------------
(* Targeted runs: runStages and critiqueTargets.  One stage, no gate, no      *)
(* stage checkpoint; a clip was reviewed when it was shot.                   *)

TargetsDone ==
    /\ pc = "work" /\ Targeted /\ ctx.todo = {} /\ ~CancelSeen
    /\ \/ /\ req.review /\ ctx.stage # ComposeVideos
          /\ pc' = "critique" /\ ctx' = ctx
       \/ /\ ~(req.review /\ ctx.stage # ComposeVideos)
          /\ pc' = "loop" /\ ctx' = [ctx EXCEPT !.stage = NoStage]
    /\ UNCHANGED <<req, run, db, have, project, left, history>>

TargetsPass ==
    /\ pc = "critique" /\ Targeted /\ ~CancelSeen
    /\ \E v \in Verdicts : SentBack(v) = {}
    /\ ctx' = [Judged(ctx, ctx.stage) EXCEPT !.stage = NoStage]
    /\ pc' = "loop"
    /\ UNCHANGED <<req, run, db, have, project, left, history>>

TargetsReject ==
    /\ pc = "critique" /\ Targeted /\ ~CancelSeen
    /\ \E v \in Verdicts : Narrow(SentBack(v))
    /\ pc' = "loop"

TargetsComplete ==
    /\ pc = "loop" /\ Targeted /\ ctx.stage = NoStage /\ ~CancelSeen
    /\ Succeed(project)
    /\ UNCHANGED <<req, db, have, left, history>>

-----------------------------------------------------------------------------
(* Endings *)

\* The loop is over: every stage was passed, or it was cut.
Complete ==
    /\ pc = "loop" /\ ~Targeted /\ ~CancelSeen
    /\ ctx.stage = NoStage \/ Cut64
    /\ \/ Cut \in have /\ Succeed("ready")
       \/ /\ Cut \notin have
          /\ run' = [run EXCEPT !.status = "failed"] /\ project' = "failed"
          /\ pc' = "down" /\ ctx' = Idle
    /\ UNCHANGED <<req, db, have, left, history>>

Down ==
    /\ pc' = "down" /\ ctx' = Idle
    /\ left' = [left EXCEPT !.crashes = @ - 1]
    /\ UNCHANGED <<req, db, have, stale, approved, spent, touched, broken>>

\* A stage throws, or nobody answers at the gate for 30 minutes.
StageFails ==
    /\ pc \in {"work", "critique", "gate"} /\ ~Targeted /\ ~CancelSeen /\ left.crashes > 0
    /\ run' = [run EXCEPT !.status = "failed"]
    /\ project' = "failed"
    /\ Down /\ UNCHANGED lost

\* A targeted run that fails says nothing of the project.
TargetsFail ==
    /\ pc \in {"work", "critique"} /\ Targeted /\ ~CancelSeen /\ left.crashes > 0
    /\ run' = [run EXCEPT !.status = "failed"]
    /\ Down /\ UNCHANGED <<project, lost>>

\* The engine dies, or loses its lease: nothing is written, and a request that
\* was being worked on is still in the row.
Crash ==
    /\ pc \notin {"down", "over"} /\ left.crashes > 0
    /\ Down /\ UNCHANGED <<run, project>>
    /\ lost' = IF pc = "redo" THEN lost \cup (ask.ids \cap spent) ELSE lost

\* The user's cancel, and where it is seen: between two steps, or because the
\* provider call it aborts throws.
CancelRun ==
    /\ pc # "over" /\ ~run.cancel
    /\ run' = [run EXCEPT !.cancel = TRUE]
    /\ UNCHANGED <<req, pc, ctx, db, have, project, left, history>>
FinishCancelled ==
    /\ pc # "over" /\ CancelSeen
    /\ run' = [run EXCEPT !.status = "cancelled"]
    /\ pc' = "over" /\ ctx' = Idle
    /\ UNCHANGED <<req, db, have, project, left, history>>

-----------------------------------------------------------------------------
\* A project with all its media, and one where some were never made.
Complete0(missing) ==
    {a \in Artifact : a \notin missing /\ Basis(a) \cap missing = {}}

\* Recomposing: every shot has its clip, and the final video is missing, current
\* or, after a redraw, made from clips replaced since.
ToRecompose ==
    /\ Shots # {}
    /\ \/ have = Artifact \ {Cut} /\ stale = {} /\ project = "draft"
       \/ have = Artifact /\ stale = {} /\ project = "ready"
       \/ have = Artifact /\ stale = {Cut} /\ project = "superseded"
ToMake ==
    /\ IF Targeted THEN \E missing \in SUBSET req.targets : have = Complete0(missing)
                   ELSE have \in {{}, Artifact}
    /\ project = IF Cut \in have THEN "ready" ELSE "draft"
    /\ stale = {}

Init ==
    /\ req \in {r \in Request : Sent(r)}
    /\ run = [status |-> "queued", cancel |-> FALSE]
    /\ pc = "down" /\ ctx = Idle
    /\ ck = {} /\ tck = {} /\ ask = NoAsk
    /\ IF Full(req) THEN ToMake ELSE ToRecompose
    /\ left = [crashes |-> MaxCrashes, redos |-> MaxRedos]
    /\ approved = {} /\ spent = {} /\ lost = {} /\ touched = {} /\ broken = FALSE

Step ==
    \/ StartRun \/ ResumeRun \/ StartTargets
    \/ EnterStage \/ Make \/ StageDone
    \/ Pass \/ Reject \/ SendBack
    \/ TargetsDone \/ TargetsPass \/ TargetsReject \/ TargetsComplete
    \/ Approve \/ RequestChanges \/ Redo \/ RedoDone \/ RedoFails
    \/ Complete \/ FinishCancelled

Next == Step \/ StageFails \/ TargetsFail \/ Crash \/ CancelRun

Spec == Init /\ [][Next]_vars

\* The engine goes on with what it is at; a person need not answer a gate, and
\* nobody need take up a run that has stopped.
EngineStep ==
    \/ EnterStage \/ Make \/ StageDone
    \/ Pass \/ Reject \/ SendBack
    \/ TargetsDone \/ TargetsPass \/ TargetsReject \/ TargetsComplete
    \/ (req.auto /\ Approve) \/ Redo \/ RedoDone \/ RedoFails
    \/ Complete \/ FinishCancelled

LiveSpec == Spec /\ WF_vars(EngineStep)

-----------------------------------------------------------------------------
(* What the project's page says of a run that stopped, from its rows:        *)
(* build_recovery_summary (backend/app/services/run_recovery.py)             *)

Production == Stage \ (Gates \cup Critiques)      \* PRODUCTION_STAGE_SEQUENCE
ProductionAfter(s) == {t \in Production : s < t}
First(S) == CHOOSE s \in S : \A t \in S : s <= t
Last(S) == CHOOSE s \in S : \A t \in S : t <= s

CompletedStages == ck \cap Production

\* The stage after the last completed one; the last one has none after it.
\* With none completed, the stage of the command.
InferCurrentStage ==
    IF CompletedStages = {} THEN req.start
    ELSE LET last == Last(CompletedStages)
         IN  IF ProductionAfter(last) = {} THEN last ELSE First(ProductionAfter(last))

\* Target checkpoints are no stages: a targeted run that has one is named by
\* its agent, which is the same for both kinds of images.
TargetedStage ==
    IF tck = {} THEN StageFor(req.targets)
    ELSE IF req.targets \subseteq Clips THEN ComposeVideos ELSE RenderCharacters

\* The card of the gate at which the run stopped, if its row still has it.
CardsLeft == {NoStage} \cup ({Next1(LastCompleted)} \cap Gates)

CurrentStage(card) ==
    IF card # NoStage THEN card ELSE IF Targeted THEN TargetedStage ELSE InferCurrentStage
PreservedStages(card) == CompletedStages \ {CurrentStage(card)}

RecoverySummary(card) ==
    [current |-> CurrentStage(card), preserved |-> PreservedStages(card),
     resumable |-> run.status # "succeeded" /\ ValidCommand(req)]
\* build_recovery_control_surface
AvailableActions(summary) == {"cancel"} \cup (IF summary.resumable THEN {"resume"} ELSE {})

-----------------------------------------------------------------------------
(* Properties *)

\* Through reviews that send work back, redos, crashes and resumes, the
\* checkpoints describe a run as Pipeline promises it: no hole a resume would
\* skip, and success only with every stage standing from the run's first one.
P == INSTANCE Pipeline WITH
        LastStage <- ComposeApproval,
        ReviewedStages <- {RenderCharacters, RenderShots},
        done <- ck,
        outcome <- IF run.status \in {"queued", "running"} THEN "active" ELSE run.status,
        first <- IF Targeted THEN NoStage ELSE req.start
ImplementsPipeline == P!Spec

\* This step commits artifact a.
Makes(a) == pc \in Working /\ pc' = pc /\ a \in ctx.todo \ ctx'.todo

\* A full run with a person at its gates spends money on a keyframe or a clip
\* only when that person approved the images it is made from, as they are now.
MadeFromApproved ==
    [][~Targeted /\ ~req.auto =>
         \A a \in Frames \cup Clips : Makes(a) => Basis(a) \cap Media \subseteq approved]_vars

\* No image or clip is generated twice for one demand, whatever crashes: a
\* resume draws what is missing and nothing that the run has drawn.  The one
\* exception: the images of a redo that a crash cut short.  The request is still
\* in the row, and the resumed gate starts on it from nothing, once per crash.
DrawnOnce == [][\A a \in Media : Makes(a) => a \notin spent \ lost]_vars

\* A redraw of single artifacts leaves nothing behind that was made from their
\* former versions, except the final video, which is marked.
RedrawDropsDerived == Targeted => stale \subseteq {Cut}

\* A project is shown as ready only while its final video is made from what
\* the project has now; a redo that failed halfway is told apart (broken), and
\* a plan without shots merges nothing and keeps the old video.
ReadyIsCurrent == project = "ready" /\ ~broken /\ Shots # {} => stale = {}

\* The engine never spins: from any state it comes to rest at a gate with a
\* person, at the end of the run, or down.
Resting == pc \in {"down", "over"} \/ (pc = "gate" /\ ~req.auto /\ ~ask.open)
ComesToRest == []<>Resting

\* The page tells the user the truth about a stopped run: it names the gate or
\* the first stage with work that a resume comes to (the merge when there is
\* none), lists no stage as kept that the resume runs again, and of the run's
\* own stages none as lost that it does not.
ResumesAt == IF LastCompleted = ComposeApproval THEN ComposeMerge ELSE Next1(LastCompleted)
ResumesWhereShown ==
    pc = "down" /\ ~Targeted /\ run.status \in {"running", "failed"} /\ ck # {} =>
      \A summary \in {RecoverySummary(card) : card \in CardsLeft} :
        /\ "resume" \in AvailableActions(summary)
        /\ summary.current >= ResumesAt \/ ProductionAfter(ResumesAt - 1) = {}
        /\ summary.preserved \cap From(ResumesAt) = {}
        /\ (Production \cap From(req.start)) \ From(ResumesAt)
              \subseteq summary.preserved \cup {summary.current}

=============================================================================
