--------------------------- MODULE WorkflowProofs ---------------------------
(* Theorems about Workflow, for every cast, every number of review rounds     *)
(* and every bound on crashes and redos: a run implements Pipeline, no image  *)
(* or clip is generated twice for one demand or from images that were not     *)
(* approved, the page of a stopped run says where a resume takes it up, a     *)
(* redraw leaves nothing stale, and a ready project has a current film.       *)
EXTENDS Workflow, TLAPS

(***************************************************************************)
(* The inductive invariant.  That success has every stage standing needs   *)
(* three things nobody sees in the database: the stages before the one the *)
(* runner is at stand (so an advance leaves no hole), the loop cannot run  *)
(* out of steps before the last stage, and a runner never works on what    *)
(* has a target checkpoint.                                                *)
(***************************************************************************)

Ctx == [stage : 1..16, guard : Nat, todo : SUBSET Artifact,
        scope : SUBSET Media, redraw : BOOLEAN,
        faceRounds : Nat, frameRounds : Nat, gate : 1..16,
        saved : SUBSET Media, savedRedraw : BOOLEAN]

Shape ==
    /\ run \in Run
    /\ pc \in Pc
    /\ ctx \in Ctx
    /\ ck \subseteq 1..15 /\ tck \subseteq Media
    /\ req.targets \subseteq Media /\ req.start \in {1, 14}
    /\ ask \in [open : BOOLEAN, ids : SUBSET Media]

Stands(first, set, n) == \A t \in 1..15 : first <= t /\ t < n => t \in set
NoHole == \A s \in ck : req.start <= s /\ Stands(req.start, ck, s)

Up == pc \notin {"down", "over"}

\* Where the runner can be, by what it is doing.
Phase ==
    /\ pc = "down" => run.status \in {"queued", "running", "failed"}
    /\ pc = "over" => run.status \in {"succeeded", "cancelled"}
    /\ Up => run.status = "running"
    /\ run.status = "queued" => ck = {}
    /\ pc = "gate" => ctx.stage \in Gates /\ ~Targeted
    /\ pc = "redo" => /\ ctx.gate \in Gates /\ ~Targeted
                      /\ \/ ctx.stage = ctx.gate - 1
                         \/ ctx.gate = 15 /\ ctx.stage = 13
    /\ pc = "critique" => ctx.stage # 16 /\ (~Targeted => ctx.stage \in Critiques)
    /\ pc = "sendback" => ctx.stage \in Critiques /\ ~Targeted
    /\ pc = "work" => ctx.stage \notin Gates \cup Critiques \cup {NoStage}
    /\ req.start = 14 => req.auto
    /\ ask.open => ~req.auto
    /\ Targeted => req.start = 1 /\ ck = {} /\ ctx.stage \in {7, 10, 13, 16}

\* Every stage before the runner's own stands, from the run's first one; before
\* its gate, during a redo.
Position ==
    Up /\ ~Targeted => /\ req.start <= ctx.stage /\ Stands(req.start, ck, ctx.stage)
                       /\ pc = "redo" => Stands(req.start, ck, ctx.gate)

\* One step of the loop per stage, and three more for each review that sent
\* work back: never more than the loop may take.
Cap(rounds) == IF rounds > MaxRounds THEN MaxRounds ELSE rounds
Detours(c) == 3 * (Cap(c.faceRounds) + Cap(c.frameRounds))
Guarded ==
    Up /\ ~Targeted =>
        /\ pc = "loop" => ctx.guard <= ctx.stage - 1 + Detours(ctx)
        /\ pc \in {"work", "critique", "gate"} => ctx.guard <= ctx.stage + Detours(ctx)
        /\ pc = "redo" => ctx.guard <= ctx.gate + Detours(ctx)
        /\ pc = "sendback" => ctx.guard <= ctx.stage - 3 + Detours(ctx)

StageInv == Shape /\ NoHole /\ Phase /\ Position /\ Guarded

\* Nothing that has a target checkpoint is on the list of what to make.
Drawn ==
    /\ ctx.todo \cap tck = {}
    /\ ctx.todo # {} => pc \in Working
    /\ ctx.todo \cap Media # {} => ctx.stage \in {7, 10, 13}
    /\ ~Targeted /\ ck = {} => tck = {}

IInv == StageInv /\ Drawn

-----------------------------------------------------------------------------
USE DEF Stage, NoStage, Gates, Critiques, PlanOutline, OutlineApproval, PlanCharacters,
        CharactersApproval, PlanShots, ShotsApproval, RenderCharacters,
        CharacterImagesApproval, CritiqueCharacterImages, RenderShots, ShotImagesApproval,
        CritiqueShotImages, ComposeVideos, ComposeMerge, ComposeApproval

LEMMA InitInv == Init => IInv
<1> SUFFICES ASSUME Init PROVE IInv
  OBVIOUS
<1>1. Shape
  <2>1. req.targets \subseteq Media /\ req.start \in {1, 14}
    BY DEF Init, Request
  <2>2. ctx \in Ctx
    BY DEF Init, Ctx, Idle, NoScope
  <2> QED BY <2>1, <2>2 DEF Init, Shape, Run, Pc, NoAsk
<1>2. NoHole /\ Position /\ Guarded
  BY DEF Init, NoHole, Position, Guarded, Up
<1>3. Phase
  <2>1. (Targeted => req.start = 1) /\ (req.start = 14 => req.auto)
    BY DEF Init, Sent, Full, Targeted, Request
  <2> QED BY <2>1 DEF Init, Phase, Up, Idle, NoAsk
<1>4. Drawn
  BY DEF Init, Drawn, Up, Idle
<1> QED BY <1>1, <1>2, <1>3, <1>4 DEF IInv, StageInv

\* A production commits one artifact of the list, an image or a clip with its
\* target checkpoint, and nothing of the run's own position.
CommitsOne(a) ==
    /\ a \in ctx.todo /\ pc \in Working
    /\ ctx' = [ctx EXCEPT !.todo = ctx.todo \ {a}]
    /\ UNCHANGED <<req, run, pc, ck, ask>>
    /\ tck' = tck \cup ({a} \cap Media)
    /\ spent' \subseteq spent \cup ({a} \cap Media)
    /\ lost' = lost \ {a}

LEMMA MediaCommits ==
    ASSUME Shape, NEW a \in Media, NEW gone, NEW p, Commit(a, gone, Checkpointed(a), p)
    PROVE  \E b \in Artifact : CommitsOne(b)
<1>1. a \in Artifact
  BY DEF Artifact
<1>2. CommitsOne(a)
  BY DEF Commit, Checkpointed, CommitsOne
<1> QED BY <1>1, <1>2

LEMMA TextCommits ==
    ASSUME Shape, NEW a \in {Outline, Sheet, Board, Cut}, NEW gone, NEW p,
           Commit(a, gone, tck, p)
    PROVE  \E b \in Artifact : CommitsOne(b)
<1>1. a \notin Media
  BY DEF Outline, Sheet, Board, Cut, Media, Faces, Frames, Clips, Face, Frame, Clip
<1>2. CommitsOne(a)
  BY <1>1 DEF Commit, CommitsOne
<1>3. a \in Artifact
  BY DEF Artifact
<1> QED BY <1>2, <1>3

LEMMA MakeCommits ==
    ASSUME Make, Shape
    PROVE  \E a \in Artifact : CommitsOne(a)
<1>1. ASSUME NEW c \in Characters, DrawFace(c) PROVE \E a \in Artifact : CommitsOne(a)
  <2>1. Face(c) \in Media
    BY DEF Media, Faces
  <2> QED BY <2>1, <1>1, MediaCommits DEF DrawFace
<1>2. ASSUME NEW s \in Shots, DrawFrame(s) \/ ShootClip(s)
      PROVE  \E a \in Artifact : CommitsOne(a)
  <2>1. Frame(s) \in Media /\ Clip(s) \in Media
    BY DEF Media, Frames, Clips
  <2> QED BY <2>1, <1>2, MediaCommits DEF DrawFrame, ShootClip
<1>3. CASE WriteOutline
  BY <1>3, TextCommits DEF WriteOutline
<1>4. CASE PlanSheet
  BY <1>4, TextCommits DEF PlanSheet
<1>5. CASE PlanBoard
  BY <1>5, TextCommits DEF PlanBoard
<1>6. CASE MergeClips
  BY <1>6, TextCommits DEF MergeClips
<1> QED BY <1>1, <1>2, <1>3, <1>4, <1>5, <1>6 DEF Make

-----------------------------------------------------------------------------
(* What the common parts of the actions leave *)

LEMMA IdleShape == Idle \in Ctx /\ Idle.stage = 16 /\ Idle.todo = {}
BY DEF Idle, Ctx, NoScope

LEMMA NoAskShape == NoAsk \in [open : BOOLEAN, ids : SUBSET Media] /\ ~NoAsk.open
BY DEF NoAsk

LEMMA RunStatus ==
    ASSUME Shape, NEW st \in {"queued", "running", "succeeded", "failed", "cancelled"},
           run' = [run EXCEPT !.status = st]
    PROVE  run' \in Run /\ run'.status = st
BY DEF Shape, Run

\* The runner at stage s, right after a start or a resume.
Begun(s) ==
    /\ run' \in Run /\ run'.status = "running"
    /\ ctx' \in Ctx /\ ctx'.stage = s /\ ctx'.guard = 0 /\ ctx'.todo = {}
    /\ ctx'.faceRounds = 0 /\ ctx'.frameRounds = 0
    /\ pc' = "loop"

LEMMA BeginLeaves ==
    ASSUME Shape, NEW s, s \in 1..15, NEW scope \in SUBSET Media, NEW redraw \in BOOLEAN,
           Begin(s, scope, redraw)
    PROVE  Begun(s)
<1>1. run' \in Run /\ run'.status = "running"
  BY RunStatus DEF Begin
<1>2. ctx' = [Idle EXCEPT !.stage = s, !.scope = scope, !.redraw = redraw] /\ pc' = "loop"
  BY DEF Begin
<1>3. ctx' \in Ctx
  <2>1. ctx' = [stage |-> s, guard |-> 0, todo |-> {}, scope |-> scope, redraw |-> redraw,
                faceRounds |-> 0, frameRounds |-> 0, gate |-> 16, saved |-> {},
                savedRedraw |-> FALSE]
    BY <1>2 DEF Idle, NoScope
  <2> QED BY <2>1 DEF Ctx
<1> QED BY <1>1, <1>2, <1>3 DEF Idle, Begun

LEMMA SucceedLeaves ==
    ASSUME Shape, NEW p, Succeed(p)
    PROVE  /\ run' \in Run /\ run'.status = "succeeded"
           /\ ctx' = Idle /\ pc' = "over"
BY RunStatus DEF Succeed

LEMMA DownLeaves == ASSUME Down PROVE ctx' = Idle /\ pc' = "down"
BY DEF Down

LEMMA Types ==
    ASSUME Shape
    PROVE  /\ ctx.stage \in 1..16 /\ ctx.gate \in 1..16 /\ ctx.guard \in Nat
           /\ ctx.faceRounds \in Nat /\ ctx.frameRounds \in Nat
           /\ ctx.todo \in SUBSET Artifact
           /\ ctx.scope \in SUBSET Media /\ ctx.saved \in SUBSET Media
           /\ ctx.redraw \in BOOLEAN /\ ctx.savedRedraw \in BOOLEAN
BY DEF Shape, Ctx

LEMMA LastIsLast ==
    ASSUME Shape, ck # {}
    PROVE  LastCompleted \in ck /\ \A t \in ck : t <= LastCompleted
<1>1. \E s \in ck : \A t \in ck : t <= s
  <2> SUFFICES ASSUME \A s \in ck : \E t \in ck : s < t PROVE FALSE
    BY DEF Shape
  <2>1. \A s \in ck : s \in 1..15
    BY DEF Shape
  <2>2. 15 \notin ck
    BY <2>1
  <2>3. 14 \notin ck /\ 13 \notin ck
    BY <2>1, <2>2
  <2>4. 12 \notin ck /\ 11 \notin ck
    BY <2>1, <2>2, <2>3
  <2>5. 10 \notin ck /\ 9 \notin ck
    BY <2>1, <2>2, <2>3, <2>4
  <2>6. 8 \notin ck /\ 7 \notin ck
    BY <2>1, <2>2, <2>3, <2>4, <2>5
  <2>7. 6 \notin ck /\ 5 \notin ck
    BY <2>1, <2>2, <2>3, <2>4, <2>5, <2>6
  <2>8. 4 \notin ck /\ 3 \notin ck
    BY <2>1, <2>2, <2>3, <2>4, <2>5, <2>6, <2>7
  <2> QED BY <2>1, <2>2, <2>3, <2>4, <2>5, <2>6, <2>7, <2>8
<1> QED BY <1>1 DEF LastCompleted

LEMMA PendingArtifacts ==
    ASSUME NEW s, NEW scope, NEW redraw, NEW done
    PROVE  Pending(s, scope, redraw, done) \subseteq Artifact
<1>1. ASSUME NEW kind \in SUBSET Media, NEW r PROVE Undrawn(kind, scope, r, done) \subseteq Artifact
  <2>1. InScope(kind, scope) \subseteq kind
    BY DEF InScope
  <2> QED BY <2>1 DEF Undrawn, Artifact
<1>2. Faces \subseteq Media /\ Frames \subseteq Media /\ Clips \subseteq Media
  BY DEF Media
<1> QED BY <1>1, <1>2 DEF Pending, Artifact

LEMMA KindShape == \A s : KindOf(s) \subseteq Media
BY DEF KindOf, Media

LEMMA ShownShape == \A g : Selectable(g) \subseteq SUBSET Media
BY DEF Selectable, Media, NoScope

-----------------------------------------------------------------------------
(* Typing of the next state, one lemma per action *)

LEMMA StartRunLeaves ==
    ASSUME Shape, StartRun
    PROVE  /\ Begun(req.start) /\ ck' = ck \ (req.start..15) /\ tck' \in {tck, {}}
           /\ UNCHANGED <<req, ask, spent>>
<1> DEFINE one == req.start
           redraw == Full(req)
<1>1. one \in 1..15 /\ {} \in SUBSET Media /\ redraw \in BOOLEAN
  BY DEF Shape, Full
<1> HIDE DEF one, redraw
<1>2. Begin(one, {}, redraw)
  BY DEF StartRun, NoScope, one, redraw
<1>3. Begun(one)
  BY <1>1, <1>2, BeginLeaves
<1> QED BY <1>3 DEF StartRun, one, history, Invalidated, From

LEMMA ResumeRunLeaves ==
    ASSUME Shape, ResumeRun
    PROVE  /\ UNCHANGED <<req, ck, tck, ask, spent>>
           /\ ck # {} /\ ~Targeted
           /\ \/ LastCompleted < 15 /\ Begun(LastCompleted + 1)
              \/ LastCompleted = 15 /\ Begun(14)
              \/ /\ LastCompleted = 15
                 /\ run' \in Run /\ run'.status = "succeeded"
                 /\ ctx' = Idle /\ pc' = "over"
<1> DEFINE redraw == Full(req)
<1>1. UNCHANGED <<req, ck, tck, ask, spent>> /\ ck # {} /\ ~Targeted
  BY DEF ResumeRun, db, history
<1>2. LastCompleted \in 1..15
  BY <1>1, LastIsLast DEF Shape
<1>3. {} \in SUBSET Media /\ redraw \in BOOLEAN
  BY DEF Full
<1> HIDE DEF redraw
<1>4. CASE LastCompleted # 15
  <2> DEFINE next == LastCompleted + 1
  <2>1. next \in 1..15 /\ LastCompleted < 15
    BY <1>2, <1>4
  <2> HIDE DEF next
  <2>2. Begin(next, {}, redraw)
    BY <1>2, <1>4 DEF ResumeRun, NoScope, redraw, next, Next1
  <2>3. Begun(next)
    BY <2>1, <2>2, <1>3, BeginLeaves
  <2> QED BY <1>1, <2>1, <2>3 DEF next
<1>5. CASE LastCompleted = 15 /\ Cut \notin have
  <2> DEFINE merge == 14
  <2>1. merge \in 1..15
    OBVIOUS
  <2> HIDE DEF merge
  <2>2. Begin(merge, {}, redraw)
    BY <1>5 DEF ResumeRun, NoScope, redraw, merge
  <2>3. Begun(merge)
    BY <2>1, <2>2, <1>3, BeginLeaves
  <2> QED BY <1>1, <1>5, <2>3 DEF merge
<1>6. CASE LastCompleted = 15 /\ Cut \in have
  <2>1. Succeed("ready")
    BY <1>6 DEF ResumeRun
  <2> QED BY <1>1, <1>6, <2>1, SucceedLeaves
<1> QED BY <1>4, <1>5, <1>6

LEMMA StartTargetsLeaves ==
    ASSUME Shape, StartTargets
    PROVE  /\ UNCHANGED <<req, ck, tck, ask, spent>>
           /\ Targeted
           /\ \/ \E s \in {7, 10, 13} : Begun(s)
              \/ /\ run' \in Run /\ run'.status = "succeeded"
                 /\ ctx' = Idle /\ pc' = "over"
<1>1. UNCHANGED <<req, ck, tck, ask, spent>> /\ Targeted
  BY DEF StartTargets, BeginTargets, db, history
<1> DEFINE targets == Effective(run.status # "queued")
           stage == StageFor(req.targets)
<1>2. stage \in {7, 10, 13} /\ stage \in 1..15
  BY DEF StageFor
<1>3. targets \in SUBSET Media /\ FALSE \in BOOLEAN
  BY DEF Effective, Shape
<1>4. Succeed(project) \/ Begin(stage, targets, FALSE)
  BY DEF StartTargets, BeginTargets
<1> HIDE DEF targets, stage
<1>5. Begin(stage, targets, FALSE) => Begun(stage)
  BY <1>2, <1>3, BeginLeaves
<1> QED BY <1>1, <1>2, <1>4, <1>5, SucceedLeaves

\* The context but for the fields named.
SameRounds == ctx'.faceRounds = ctx.faceRounds /\ ctx'.frameRounds = ctx.frameRounds

LEMMA EnterStageLeaves ==
    ASSUME Shape, EnterStage
    PROVE  /\ UNCHANGED <<req, run, ck, tck, ask, spent>>
           /\ pc = "loop" /\ ctx.stage # 16
           /\ ctx' \in Ctx /\ ctx'.stage = ctx.stage /\ SameRounds
           /\ ctx'.guard <= ctx.guard + 1
           /\ \/ pc' = "gate" /\ ctx.stage \in Gates /\ ctx'.todo = ctx.todo
              \/ pc' = "critique" /\ ctx.stage \in Critiques /\ ctx'.todo = ctx.todo
              \/ /\ pc' = "work" /\ ctx.stage \notin Gates \cup Critiques
                 /\ ctx'.todo = Pending(ctx.stage, ctx.scope, ctx.redraw, tck)
<1> DEFINE todo == Pending(ctx.stage, ctx.scope, ctx.redraw, tck)
<1>1. todo \in SUBSET Artifact
  BY PendingArtifacts
<1>2. /\ UNCHANGED <<req, run, ck, tck, ask, spent>>
      /\ pc = "loop" /\ ctx.stage # 16
  BY DEF EnterStage, db, history
<1>3. \/ pc' = "gate" /\ ctx.stage \in Gates /\ ctx' = Counted(ctx)
      \/ pc' = "critique" /\ ctx.stage \in Critiques /\ ctx' = Counted(ctx)
      \/ /\ pc' = "work" /\ ctx.stage \notin Gates \cup Critiques
         /\ ctx' = Counted([ctx EXCEPT !.todo = todo])
  BY DEF EnterStage
<1> HIDE DEF todo
<1>4. ASSUME NEW c \in Ctx, ctx' = Counted(c)
      PROVE  /\ ctx' \in Ctx /\ ctx'.guard <= c.guard + 1
             /\ ctx'.stage = c.stage /\ ctx'.todo = c.todo
             /\ ctx'.faceRounds = c.faceRounds /\ ctx'.frameRounds = c.frameRounds
  <2>1. CASE Targeted
    BY <1>4, <2>1 DEF Counted, Ctx
  <2>2. CASE ~Targeted
    <3> DEFINE g == c.guard + 1
    <3>1. g \in Nat
      BY DEF Ctx
    <3>2. ctx' = [c EXCEPT !.guard = g]
      BY <1>4, <2>2 DEF Counted
    <3> HIDE DEF g
    <3>3. ctx' \in Ctx
      BY <3>1, <3>2 DEF Ctx
    <3>4. ctx'.guard = g
      BY <3>1, <3>2 DEF Ctx
    <3> QED BY <3>2, <3>3, <3>4 DEF g, Ctx
  <2> QED BY <2>1, <2>2
<1>5. [ctx EXCEPT !.todo = todo] \in Ctx /\ ctx \in Ctx
  BY <1>1 DEF Shape, Ctx
<1>6. CASE pc' \in {"gate", "critique"}
  <2>1. ctx' = Counted(ctx)
    BY <1>3, <1>6
  <2> QED BY <2>1, <1>2, <1>3, <1>4, <1>5, <1>6 DEF SameRounds
<1>7. CASE pc' = "work"
  <2> DEFINE c == [ctx EXCEPT !.todo = todo]
  <2>1. /\ c \in Ctx /\ c.guard = ctx.guard /\ c.stage = ctx.stage /\ c.todo = todo
        /\ c.faceRounds = ctx.faceRounds /\ c.frameRounds = ctx.frameRounds
    BY <1>5 DEF Shape, Ctx
  <2> HIDE DEF c
  <2>2. ctx' = Counted(c)
    BY <1>3, <1>7 DEF c
  <2>3. /\ ctx' \in Ctx /\ ctx'.guard <= ctx.guard + 1 /\ ctx'.stage = ctx.stage
        /\ ctx'.todo = todo /\ SameRounds
    BY <2>1, <2>2, <1>4 DEF SameRounds
  <2> QED BY <2>3, <1>2, <1>3, <1>7 DEF todo
<1> QED BY <1>3, <1>6, <1>7

LEMMA StageDoneLeaves ==
    ASSUME Shape, StageDone \/ TargetsDone, ctx.stage # 16
    PROVE  /\ UNCHANGED <<req, run, tck, ask, spent>>
           /\ pc = "work" /\ ctx.todo = {} /\ ctx'.todo = {}
           /\ ctx' \in Ctx /\ ctx'.guard = ctx.guard /\ SameRounds
           /\ \/ /\ ~Targeted /\ pc' = "loop"
                 /\ ck' = ck \cup {ctx.stage} /\ ctx'.stage = ctx.stage + 1
              \/ /\ Targeted /\ ck' = ck
                 /\ \/ pc' = "critique" /\ ctx'.stage = ctx.stage
                    \/ pc' = "loop" /\ ctx'.stage = 16
<1>1. UNCHANGED <<req, run, tck, ask, spent>> /\ pc = "work" /\ ctx.todo = {} /\ ctx \in Ctx
  BY DEF StageDone, TargetsDone, db, history, Shape
<1>2. ASSUME NEW n \in 1..16, ctx' = [ctx EXCEPT !.stage = n]
      PROVE  /\ ctx' \in Ctx /\ ctx'.guard = ctx.guard /\ SameRounds
             /\ ctx'.todo = {} /\ ctx'.stage = n
  BY <1>1, <1>2 DEF Ctx, SameRounds
<1>3. ctx.stage + 1 \in 1..16
  BY <1>1 DEF Ctx
<1>4. CASE ~Targeted
  <2> DEFINE n == ctx.stage + 1
  <2>1. ctx' = [ctx EXCEPT !.stage = n] /\ ck' = ck \cup {ctx.stage} /\ pc' = "loop"
    BY <1>4 DEF StageDone, TargetsDone, Next1
  <2> HIDE DEF n
  <2>2. n \in 1..16
    BY <1>3 DEF n
  <2>3. /\ ctx' \in Ctx /\ ctx'.guard = ctx.guard /\ SameRounds
        /\ ctx'.todo = {} /\ ctx'.stage = n
    BY <2>1, <2>2, <1>2
  <2> QED BY <1>1, <1>4, <2>1, <2>3 DEF n
<1>5. CASE Targeted
  <2>1. ck' = ck /\ (\/ pc' = "critique" /\ ctx' = ctx
                     \/ pc' = "loop" /\ ctx' = [ctx EXCEPT !.stage = 16])
    BY <1>5 DEF StageDone, TargetsDone, db
  <2>2. CASE ctx' = ctx /\ pc' = "critique"
    BY <1>1, <1>5, <2>1, <2>2 DEF SameRounds
  <2>3. CASE ctx' = [ctx EXCEPT !.stage = 16] /\ pc' = "loop"
    <3>1. /\ ctx' \in Ctx /\ ctx'.guard = ctx.guard /\ SameRounds
          /\ ctx'.todo = {} /\ ctx'.stage = 16
      BY <1>1, <2>3 DEF Ctx, SameRounds
    <3> QED BY <1>1, <1>5, <2>1, <2>3, <3>1
  <2> QED BY <2>1, <2>2, <2>3
<1> QED BY <1>4, <1>5

\* A review adds a round to one of the two counts: to the detours at most
\* three, and exactly three while that kind has rounds left.
LEMMA JudgedLeaves ==
    ASSUME NEW c \in Ctx, NEW s
    PROVE  /\ Judged(c, s) \in Ctx
           /\ Judged(c, s).stage = c.stage /\ Judged(c, s).todo = c.todo
           /\ Judged(c, s).guard = c.guard
           /\ Judged(c, s).scope = c.scope
           /\ Detours(c) <= Detours(Judged(c, s))
           /\ (IF OfFaces(s) THEN c.faceRounds ELSE c.frameRounds) < MaxRounds
                => Detours(Judged(c, s)) = Detours(c) + 3
<1>1. c.faceRounds \in Nat /\ c.frameRounds \in Nat /\ MaxRounds \in Nat
  BY BoundsAssumption DEF Ctx
<1>2. CASE OfFaces(s)
  <2> DEFINE n == c.faceRounds + 1
  <2>1. n \in Nat
    BY <1>1
  <2>2. Judged(c, s) = [c EXCEPT !.faceRounds = n]
    BY <1>2 DEF Judged
  <2> HIDE DEF n
  <2>3. /\ Judged(c, s) \in Ctx
        /\ Judged(c, s).stage = c.stage /\ Judged(c, s).todo = c.todo
        /\ Judged(c, s).guard = c.guard /\ Judged(c, s).scope = c.scope
        /\ Judged(c, s).faceRounds = n /\ Judged(c, s).frameRounds = c.frameRounds
    BY <2>1, <2>2 DEF Ctx
  <2> QED BY <1>1, <1>2, <2>3 DEF Detours, Cap, n
<1>3. CASE ~OfFaces(s)
  <2> DEFINE n == c.frameRounds + 1
  <2>1. n \in Nat
    BY <1>1
  <2>2. Judged(c, s) = [c EXCEPT !.frameRounds = n]
    BY <1>3 DEF Judged
  <2> HIDE DEF n
  <2>3. /\ Judged(c, s) \in Ctx
        /\ Judged(c, s).stage = c.stage /\ Judged(c, s).todo = c.todo
        /\ Judged(c, s).guard = c.guard /\ Judged(c, s).scope = c.scope
        /\ Judged(c, s).faceRounds = c.faceRounds /\ Judged(c, s).frameRounds = n
    BY <2>1, <2>2 DEF Ctx
  <2>4. Cap(c.frameRounds) <= Cap(n) /\ Cap(c.frameRounds) \in Nat /\ Cap(c.faceRounds) \in Nat
        /\ Cap(n) \in Nat
        /\ (c.frameRounds < MaxRounds => Cap(n) = Cap(c.frameRounds) + 1)
    BY <1>1 DEF Cap, n
  <2>5. Detours(c) <= Detours(Judged(c, s))
        /\ (c.frameRounds < MaxRounds => Detours(Judged(c, s)) = Detours(c) + 3)
    BY <2>3, <2>4 DEF Detours
  <2> QED BY <1>3, <2>3, <2>5
<1> QED BY <1>2, <1>3

LEMMA PassLeaves ==
    ASSUME Shape, Pass \/ TargetsPass, ctx.stage # 16
    PROVE  /\ UNCHANGED <<req, run, tck, ask, spent>>
           /\ pc = "critique" /\ pc' = "loop" /\ ctx'.todo = ctx.todo
           /\ ctx' \in Ctx /\ ctx'.guard = ctx.guard /\ Detours(ctx) <= Detours(ctx')
           /\ \/ ~Targeted /\ ck' = ck \cup {ctx.stage} /\ ctx'.stage = ctx.stage + 1
              \/ Targeted /\ ck' = ck /\ ctx'.stage = 16
<1> DEFINE c == Judged(ctx, ctx.stage)
<1>1. UNCHANGED <<req, run, tck, ask, spent>> /\ pc = "critique" /\ pc' = "loop" /\ ctx \in Ctx
  BY DEF Pass, TargetsPass, db, history, Shape
<1>2. /\ c \in Ctx /\ c.stage = ctx.stage /\ c.todo = ctx.todo /\ c.guard = ctx.guard
      /\ Detours(ctx) <= Detours(c)
  BY <1>1, JudgedLeaves
<1>3. \/ Targeted /\ ck' = ck /\ ctx' = [c EXCEPT !.stage = 16]
      \/ /\ ~Targeted /\ ck' = ck \cup {ctx.stage}
         /\ ctx' = [c EXCEPT !.scope = c.scope \ KindOf(ctx.stage), !.stage = c.stage + 1]
  BY DEF Pass, TargetsPass, db, Next1
<1> HIDE DEF c
<1>4. CASE Targeted
  <2>1. ctx' = [c EXCEPT !.stage = 16] /\ ck' = ck
    BY <1>3, <1>4
  <2>2. ctx' \in Ctx /\ ctx'.stage = 16 /\ ctx'.todo = c.todo /\ ctx'.guard = c.guard
        /\ ctx'.faceRounds = c.faceRounds /\ ctx'.frameRounds = c.frameRounds
    BY <1>2, <2>1 DEF Ctx
  <2> QED BY <1>1, <1>2, <1>4, <2>1, <2>2 DEF Detours
<1>5. CASE ~Targeted
  <2> DEFINE n == c.stage + 1
             sc == c.scope \ KindOf(ctx.stage)
  <2>1. n \in 1..16 /\ sc \in SUBSET Media
    BY <1>2 DEF Ctx
  <2>2. ctx' = [c EXCEPT !.scope = sc, !.stage = n] /\ ck' = ck \cup {ctx.stage}
    BY <1>3, <1>5
  <2> HIDE DEF n, sc
  <2>3. ctx' \in Ctx /\ ctx'.stage = n /\ ctx'.todo = c.todo /\ ctx'.guard = c.guard
        /\ ctx'.faceRounds = c.faceRounds /\ ctx'.frameRounds = c.frameRounds
    BY <1>2, <2>1, <2>2 DEF Ctx
  <2> QED BY <1>1, <1>2, <1>5, <2>2, <2>3 DEF Detours, n
<1> QED BY <1>4, <1>5

LEMMA RejectLeaves ==
    ASSUME Shape, Reject \/ TargetsReject
    PROVE  /\ UNCHANGED <<req, run, ck, ask>>
           /\ pc = "critique" /\ ctx'.todo = ctx.todo
           /\ pc' = IF Targeted THEN "loop" ELSE "sendback"
           /\ ctx' \in Ctx /\ ctx'.guard = ctx.guard /\ ctx'.stage = ctx.stage
           /\ Detours(ctx') = Detours(ctx) + 3
           /\ \E again \in SUBSET Media :
                 tck' = tck \ again /\ spent' = spent \ again
<1> DEFINE c == Judged(ctx, ctx.stage)
<1>1. UNCHANGED <<req, run, ck, ask>> /\ pc = "critique" /\ ctx \in Ctx
      /\ pc' = IF Targeted THEN "loop" ELSE "sendback"
  BY DEF Reject, TargetsReject, Narrow, Dropped, Shape
<1>2. PICK v \in Verdicts : Narrow(SentBack(v))
  BY DEF Reject, TargetsReject
<1>3. SentBack(v) \in SUBSET Media
  BY KindShape DEF InScope, Reviewed, SentBack
<1>4. Rounds(ctx.stage) < MaxRounds
  BY <1>2 DEF Narrow, Dropped, SentBack
<1>5. /\ c \in Ctx /\ c.stage = ctx.stage /\ c.todo = ctx.todo /\ c.guard = ctx.guard
      /\ Detours(c) = Detours(ctx) + 3
  BY <1>1, <1>4, JudgedLeaves DEF Rounds
<1>6. PICK again \in SUBSET Media :
         /\ ctx' = [c EXCEPT !.scope = (c.scope \ KindOf(ctx.stage)) \cup again]
         /\ tck' = tck \ again /\ spent' = spent \ again
  BY <1>2, <1>3 DEF Narrow, Dropped
<1> HIDE DEF c
<1> DEFINE sc == (c.scope \ KindOf(ctx.stage)) \cup again
<1>7. sc \in SUBSET Media
  BY <1>5 DEF Ctx
<1>8. ctx' = [c EXCEPT !.scope = sc]
  BY <1>6
<1> HIDE DEF sc
<1>9. ctx' \in Ctx /\ ctx'.stage = c.stage /\ ctx'.todo = c.todo /\ ctx'.guard = c.guard
      /\ ctx'.faceRounds = c.faceRounds /\ ctx'.frameRounds = c.frameRounds
  BY <1>5, <1>7, <1>8 DEF Ctx
<1> QED BY <1>1, <1>5, <1>6, <1>9 DEF Detours

LEMMA SendBackLeaves ==
    ASSUME Shape, SendBack
    PROVE  /\ UNCHANGED <<req, run, tck, ask, spent>>
           /\ pc = "sendback" /\ pc' = "loop" /\ ctx'.todo = ctx.todo
           /\ ctx' \in Ctx /\ ctx'.guard = ctx.guard /\ SameRounds
           /\ ctx'.stage = RenderOf(ctx.stage)
           /\ ck' = ck \ (RenderOf(ctx.stage)..15)
<1>1. /\ UNCHANGED <<req, run, tck, ask, spent>>
      /\ pc = "sendback" /\ pc' = "loop" /\ ctx \in Ctx
      /\ ctx' = [ctx EXCEPT !.stage = RenderOf(ctx.stage)]
      /\ ck' = ck \ (RenderOf(ctx.stage)..15)
  BY DEF SendBack, Invalidated, From, history, Shape
<1>2. RenderOf(ctx.stage) \in 1..16
  BY DEF RenderOf
<1> DEFINE n == RenderOf(ctx.stage)
<1> HIDE DEF n
<1>3. n \in 1..16 /\ ctx' = [ctx EXCEPT !.stage = n]
  BY <1>1, <1>2 DEF n
<1>4. /\ ctx' \in Ctx /\ ctx'.guard = ctx.guard /\ SameRounds
      /\ ctx'.stage = n /\ ctx'.todo = ctx.todo
  BY <1>1, <1>3 DEF Ctx, SameRounds
<1> QED BY <1>1, <1>4 DEF n

LEMMA ApproveLeaves ==
    ASSUME Shape, Approve, ctx.stage # 16
    PROVE  /\ UNCHANGED <<req, run, tck, ask, spent>>
           /\ pc = "gate" /\ pc' = "loop" /\ ctx'.todo = ctx.todo
           /\ ctx' \in Ctx /\ ctx'.guard = ctx.guard /\ SameRounds
           /\ ctx'.stage = ctx.stage + 1 /\ ck' = ck \cup {ctx.stage}
<1> DEFINE n == ctx.stage + 1
<1>1. /\ UNCHANGED <<req, run, tck, ask, spent>> /\ pc = "gate" /\ pc' = "loop" /\ ctx \in Ctx
      /\ ctx' = [ctx EXCEPT !.stage = n] /\ ck' = ck \cup {ctx.stage}
  BY DEF Approve, Next1, Shape
<1>2. n \in 1..16
  BY <1>1 DEF Ctx
<1> HIDE DEF n
<1>3. /\ ctx' \in Ctx /\ ctx'.guard = ctx.guard /\ SameRounds
      /\ ctx'.stage = n /\ ctx'.todo = ctx.todo
  BY <1>1, <1>2 DEF Ctx, SameRounds
<1> QED BY <1>1, <1>3 DEF n

LEMMA RequestChangesLeaves ==
    ASSUME Shape, RequestChanges
    PROVE  /\ UNCHANGED <<req, run, pc, ctx, ck, tck>> /\ pc = "gate"
           /\ ~ask.open /\ ask'.open
           /\ ask'.ids \in SUBSET Media /\ spent' = spent \ ask'.ids
           /\ ask' \in [open : BOOLEAN, ids : SUBSET Media]
BY ShownShape DEF RequestChanges, Asked

LEMMA RedoLeaves ==
    ASSUME Shape, Redo, ctx.stage \in Gates
    PROVE  /\ UNCHANGED <<req, run, ck, ask, spent>>
           /\ pc = "gate" /\ pc' = "redo" /\ ask.open
           /\ ctx' \in Ctx /\ ctx'.guard = ctx.guard /\ SameRounds
           /\ ctx'.gate = ctx.stage /\ ctx'.stage = RedoStage(ctx.stage)
           /\ ask.ids \in SUBSET Media /\ tck' = tck \ ask.ids
           /\ \E scope, redraw :
                 ctx'.todo = Pending(RedoStage(ctx.stage), scope, redraw, tck \ ask.ids)
<1> DEFINE s == RedoStage(ctx.stage)
           ids == ask.ids
           scope == (ctx.scope \ Shown(ctx.stage)) \cup ids
           redraw == ctx.redraw \/ s = RenderCharacters
           todo == Pending(s, scope, redraw, tck \ ids)
<1>1. /\ UNCHANGED <<req, run, ck, ask, spent>> /\ pc = "gate" /\ pc' = "redo" /\ ask.open
      /\ ctx \in Ctx /\ ids \in SUBSET Media
  BY DEF Redo, history, Shape
<1>2. s \in 1..16
  BY <1>1 DEF RedoStage
<1>5. scope \in SUBSET Media /\ redraw \in BOOLEAN
  BY <1>1 DEF Ctx
<1>6. todo \in SUBSET Artifact
  BY PendingArtifacts
<1>7. ctx' = [ctx EXCEPT !.gate = ctx.stage, !.stage = s, !.scope = scope,
                         !.redraw = redraw, !.saved = ctx.scope,
                         !.savedRedraw = ctx.redraw, !.todo = todo]
      /\ tck' = tck \ ids
  BY DEF Redo, Dropped
<1> HIDE DEF s, scope, redraw, todo
<1>8. ctx' = [stage |-> s, guard |-> ctx.guard, todo |-> todo, scope |-> scope,
              redraw |-> redraw, faceRounds |-> ctx.faceRounds,
              frameRounds |-> ctx.frameRounds, gate |-> ctx.stage,
              saved |-> ctx.scope, savedRedraw |-> ctx.redraw]
  BY <1>1, <1>7 DEF Ctx
<1>9. /\ ctx' \in Ctx /\ ctx'.guard = ctx.guard /\ SameRounds
      /\ ctx'.gate = ctx.stage /\ ctx'.stage = s /\ ctx'.todo = todo
  BY <1>1, <1>2, <1>5, <1>6, <1>8 DEF Ctx, SameRounds
<1> QED BY <1>1, <1>7, <1>9 DEF s, todo

LEMMA RedoEndLeaves ==
    ASSUME Shape, ctx' = BackAtGate(ctx)
    PROVE  /\ ctx' \in Ctx /\ ctx'.guard = ctx.guard /\ SameRounds
           /\ ctx'.stage = ctx.gate /\ ctx'.todo = {}
<1>1. ctx \in Ctx
  BY DEF Shape
<1>2. ctx' = [stage |-> ctx.gate, guard |-> ctx.guard, todo |-> {}, scope |-> ctx.saved,
              redraw |-> ctx.savedRedraw, faceRounds |-> ctx.faceRounds,
              frameRounds |-> ctx.frameRounds, gate |-> 16, saved |-> {},
              savedRedraw |-> FALSE]
  BY <1>1 DEF BackAtGate, ForgetRedo, Ctx, NoScope
<1> QED BY <1>1, <1>2 DEF Ctx, SameRounds

LEMMA RedoDoneLeaves ==
    ASSUME Shape, RedoDone
    PROVE  /\ UNCHANGED <<req, run, tck, spent>>
           /\ pc = "redo" /\ ctx.todo = {} /\ ck' = ck \cup {ctx.stage}
           /\ ctx' \in Ctx /\ ctx'.guard = ctx.guard /\ SameRounds
           /\ \/ /\ ctx.stage # 13 /\ pc' = "gate" /\ ask' = NoAsk
                 /\ ctx'.stage = ctx.gate /\ ctx'.todo = {}
              \/ /\ ctx.stage = 13 /\ pc' = "redo" /\ ask' = ask
                 /\ ctx'.stage = 14 /\ ctx'.gate = ctx.gate
                 /\ ctx'.todo = Pending(14, ctx.scope, ctx.redraw, tck)
<1>1. /\ UNCHANGED <<req, run, tck, spent>>
      /\ pc = "redo" /\ ctx.todo = {} /\ ck' = ck \cup {ctx.stage} /\ ctx \in Ctx
  BY DEF RedoDone, Shape
<1>2. CASE ctx.stage = 13
  <2> DEFINE todo == Pending(14, ctx.scope, ctx.redraw, tck)
  <2>1. todo \in SUBSET Artifact
    BY PendingArtifacts
  <2>2. ctx' = [ctx EXCEPT !.stage = 14, !.todo = todo] /\ pc' = "redo" /\ ask' = ask
    BY <1>2 DEF RedoDone
  <2> HIDE DEF todo
  <2>3. ctx' = [stage |-> 14, guard |-> ctx.guard, todo |-> todo, scope |-> ctx.scope,
                redraw |-> ctx.redraw, faceRounds |-> ctx.faceRounds,
                frameRounds |-> ctx.frameRounds, gate |-> ctx.gate,
                saved |-> ctx.saved, savedRedraw |-> ctx.savedRedraw]
    BY <1>1, <2>2 DEF Ctx
  <2>4. /\ ctx' \in Ctx /\ ctx'.guard = ctx.guard /\ SameRounds
        /\ ctx'.stage = 14 /\ ctx'.gate = ctx.gate /\ ctx'.todo = todo
    BY <1>1, <2>1, <2>3 DEF Ctx, SameRounds
  <2> QED BY <1>1, <1>2, <2>2, <2>4 DEF todo
<1>3. CASE ctx.stage # 13
  <2>1. ctx' = BackAtGate(ctx) /\ pc' = "gate" /\ ask' = NoAsk
    BY <1>3 DEF RedoDone
  <2> QED BY <1>1, <1>3, <2>1, RedoEndLeaves
<1> QED BY <1>2, <1>3

LEMMA RedoFailsLeaves ==
    ASSUME Shape, RedoFails
    PROVE  /\ UNCHANGED <<req, run, ck, tck, spent>>
           /\ pc = "redo" /\ pc' = "gate" /\ ask' = NoAsk
           /\ ctx' \in Ctx /\ ctx'.guard = ctx.guard /\ SameRounds
           /\ ctx'.stage = ctx.gate /\ ctx'.todo = {}
BY RedoEndLeaves DEF RedoFails, db

LEMMA CompleteLeaves ==
    ASSUME Shape, Complete \/ TargetsComplete
    PROVE  /\ UNCHANGED <<req, ck, tck, ask, spent>>
           /\ pc = "loop" /\ (ctx.stage = 16 \/ Cut64)
           /\ run' \in Run /\ ctx' = Idle
           /\ \/ pc' = "over" /\ run'.status = "succeeded"
              \/ pc' = "down" /\ run'.status = "failed"
<1>1. UNCHANGED <<req, ck, tck, ask, spent>> /\ pc = "loop" /\ (ctx.stage = 16 \/ Cut64)
  BY DEF Complete, TargetsComplete, db, history
<1>2. \/ Succeed(project) \/ Succeed("ready")
      \/ run' = [run EXCEPT !.status = "failed"] /\ pc' = "down" /\ ctx' = Idle
  BY DEF Complete, TargetsComplete
<1> QED BY <1>1, <1>2, SucceedLeaves, RunStatus

LEMMA FailsLeaves ==
    ASSUME Shape, StageFails \/ TargetsFail \/ Crash
    PROVE  /\ UNCHANGED <<req, ck, tck, ask, spent>>
           /\ pc \notin {"down", "over"} /\ pc' = "down" /\ ctx' = Idle
           /\ run' \in Run /\ (run' = run \/ run'.status = "failed")
<1>1. /\ UNCHANGED <<req, ck, tck, ask, spent>>
      /\ pc \notin {"down", "over"} /\ pc' = "down" /\ ctx' = Idle
  BY DEF StageFails, TargetsFail, Crash, Down, db, Shape
<1>2. run' = run \/ run' = [run EXCEPT !.status = "failed"]
  BY DEF StageFails, TargetsFail, Crash
<1> QED BY <1>1, <1>2, RunStatus DEF Shape

LEMMA CancelLeaves ==
    ASSUME Shape, CancelRun \/ FinishCancelled
    PROVE  /\ UNCHANGED <<req, ck, tck, ask, spent>> /\ pc # "over" /\ run' \in Run
           /\ \/ run'.status = run.status /\ UNCHANGED <<pc, ctx>>
              \/ run'.status = "cancelled" /\ pc' = "over" /\ ctx' = Idle
<1>1. CASE CancelRun
  BY <1>1 DEF CancelRun, db, history, Shape, Run
<1>2. CASE FinishCancelled
  BY <1>2, RunStatus DEF FinishCancelled, db, history
<1> QED BY <1>1, <1>2

LEMMA MakeLeaves ==
    ASSUME Shape, NEW a \in Artifact, CommitsOne(a)
    PROVE  /\ UNCHANGED <<req, run, pc, ck, ask>>
           /\ pc \in Working /\ a \in ctx.todo
           /\ ctx' \in Ctx /\ ctx'.guard = ctx.guard /\ SameRounds
           /\ ctx'.stage = ctx.stage /\ ctx'.gate = ctx.gate
           /\ ctx'.todo = ctx.todo \ {a}
<1> DEFINE todo == ctx.todo \ {a}
<1>1. todo \in SUBSET Artifact /\ ctx \in Ctx
  BY DEF Shape, Ctx
<1>2. ctx' = [ctx EXCEPT !.todo = todo]
  BY DEF CommitsOne
<1> HIDE DEF todo
<1>3. /\ ctx' \in Ctx /\ ctx'.guard = ctx.guard /\ SameRounds
      /\ ctx'.stage = ctx.stage /\ ctx'.gate = ctx.gate /\ ctx'.todo = todo
  BY <1>1, <1>2 DEF Ctx, SameRounds
<1> QED BY <1>3 DEF CommitsOne, todo

-----------------------------------------------------------------------------
(* How the set of standing stages moves *)

LEMMA Extend ==
    ASSUME ck \subseteq 1..15, NoHole, req.start \in 1..16, UNCHANGED req, NEW n \in 1..15,
           req.start <= n, Stands(req.start, ck, n), ck' = ck \cup {n}
    PROVE  /\ ck' \subseteq 1..15 /\ NoHole'
           /\ \A m : Stands(req.start, ck, m) => Stands(req.start, ck', m)
           /\ Stands(req.start, ck', n + 1)
<1>1. \A m : Stands(req.start, ck, m) => Stands(req.start, ck', m)
  BY DEF Stands
<1>2. Stands(req.start, ck', n + 1)
  <2> SUFFICES ASSUME NEW t \in 1..15, req.start <= t, t < n + 1 PROVE t \in ck \cup {n}
    BY DEF Stands
  <2>1. t < n \/ t = n
    OBVIOUS
  <2> QED BY <2>1 DEF Stands
<1>3. NoHole'
  <2> SUFFICES ASSUME NEW s \in ck \cup {n} PROVE req.start <= s /\ Stands(req.start, ck', s)
    BY DEF NoHole
  <2> QED BY <1>1 DEF NoHole
<1> QED BY <1>1, <1>2, <1>3

LEMMA Retract ==
    ASSUME ck \subseteq 1..15, NoHole, req.start \in 1..16, UNCHANGED req, NEW n \in 1..15, NEW m \in 1..16,
           Stands(req.start, ck, m), n <= m,
           ck' = ck \ (n..15)
    PROVE  ck' \subseteq 1..15 /\ NoHole' /\ Stands(req.start, ck', n)
<1>1. Stands(req.start, ck', n)
  BY DEF Stands
<1>2. NoHole'
  <2> SUFFICES ASSUME NEW s \in ck, s \notin n..15, NEW t \in 1..15, req.start <= t, t < s
               PROVE  t \in ck /\ t \notin n..15
    BY DEF NoHole, Stands
  <2> QED BY DEF NoHole, Stands
<1> QED BY <1>1, <1>2

LEMMA Keep ==
    ASSUME UNCHANGED <<req, ck>>
    PROVE  (NoHole => NoHole') /\ \A m : Stands(req.start, ck, m) => Stands(req.start, ck', m)
BY DEF NoHole, Stands

-----------------------------------------------------------------------------
(* The stages, one lemma per action *)

LEMMA StartRunInv == ASSUME StageInv, StartRun PROVE StageInv'
<1> USE DEF StageInv
<1>0. ck' = {} /\ Begun(req.start) /\ UNCHANGED <<req, ask>> /\ tck' \subseteq Media
      /\ req.start \in {1, 14} /\ ~Targeted
  <2>1. ck = {}
    BY DEF StartRun, Phase
  <2> QED BY <2>1, StartRunLeaves DEF Shape, StartRun
<1>1. Shape'
  BY <1>0 DEF Shape, Pc, Begun
<1>2. NoHole' /\ Position'
  BY <1>0 DEF NoHole, Position, Stands, Up, Targeted, Begun
<1>3. Phase'
  BY <1>0 DEF Phase, Up, Targeted, Begun, Run
<1>4. Guarded'
  BY <1>0, BoundsAssumption, GuardAssumption DEF Guarded, Detours, Cap, Up, Targeted, Begun
<1> QED BY <1>1, <1>2, <1>3, <1>4

LEMMA ResumeRunInv == ASSUME StageInv, ResumeRun PROVE StageInv'
<1> USE DEF StageInv
<1>1. Shape'
  BY ResumeRunLeaves, LastIsLast, IdleShape DEF Shape, Pc, Begun
<1>2. NoHole' /\ Position'
  <2>1. /\ UNCHANGED <<req, ck>> /\ req.start \in {1, 14} /\ NoHole' /\ \A m : Stands(req.start, ck, m) => Stands(req.start, ck', m)
        /\ LastCompleted \in ck /\ LastCompleted \in 1..15 /\ Stands(req.start, ck, LastCompleted)
        /\ req.start <= LastCompleted
    BY ResumeRunLeaves, LastIsLast, Keep DEF Shape, NoHole
  <2>2. Stands(req.start, ck, LastCompleted + 1)
    <3> SUFFICES ASSUME NEW t \in 1..15, req.start <= t, t < LastCompleted + 1 PROVE t \in ck
      BY DEF Stands
    <3>1. t < LastCompleted \/ t = LastCompleted
      BY <2>1
    <3> QED BY <2>1, <3>1 DEF Stands
  <2>3. CASE Begun(LastCompleted + 1)
    BY <2>1, <2>2, <2>3 DEF Position, Begun, Up
  <2>4. CASE LastCompleted = 15 /\ Begun(14)
    <3>1. Stands(req.start, ck, 14)
      BY <2>1, <2>4 DEF Stands
    <3>2. Stands(req.start, ck', 14)
      BY <2>1, <3>1
    <3> QED BY <2>1, <2>4, <3>2 DEF Position, Begun, Up
  <2>5. CASE pc' = "over"
    BY <2>1, <2>5 DEF Position, Up
  <2> QED BY <2>3, <2>4, <2>5, ResumeRunLeaves
<1>3. Phase'
  BY ResumeRunLeaves, LastIsLast, IdleShape DEF Shape, Ctx, Phase, Position, Stands, Up, Targeted, Begun
<1>4. Guarded'
  <2>1. LastCompleted \in 1..15
    BY ResumeRunLeaves, LastIsLast DEF Shape
  <2>2. ASSUME NEW s \in 1..16, Begun(s) PROVE Guarded'
    BY <2>2, BoundsAssumption DEF Guarded, Begun, Detours, Cap
  <2>3. CASE \E s \in 1..16 : Begun(s)
    BY <2>2, <2>3
  <2>4. CASE pc' = "over"
    BY <2>4 DEF Guarded, Up
  <2> DEFINE next == LastCompleted + 1
             merge == 14
  <2>5. next \in 1..16 /\ merge \in 1..16 /\ (Begun(next) \/ Begun(merge) \/ pc' = "over")
    BY <2>1, ResumeRunLeaves
  <2> HIDE DEF next, merge
  <2> QED BY <2>3, <2>4, <2>5
<1> QED BY <1>1, <1>2, <1>3, <1>4

LEMMA StartTargetsInv == ASSUME StageInv, StartTargets PROVE StageInv'
<1> USE DEF StageInv
<1>1. Shape'
  BY StartTargetsLeaves, IdleShape DEF Shape, Pc, Begun, StartTargets, BeginTargets
<1>2. NoHole' /\ Position'
  BY StartTargetsLeaves, IdleShape DEF Shape, Ctx, Phase, NoHole, Position, Stands, Up, Targeted, Begun, StartTargets, BeginTargets
<1>3. Phase'
  BY StartTargetsLeaves, IdleShape DEF Shape, Ctx, Phase, Position, Stands, Up, Targeted, Begun, StartTargets, BeginTargets
<1>4. Guarded'
  BY StartTargetsLeaves, IdleShape, BoundsAssumption, GuardAssumption DEF Shape, Ctx, Phase, Guarded, Detours, Cap, Up, Targeted, Begun, StartTargets, BeginTargets
<1> QED BY <1>1, <1>2, <1>3, <1>4

LEMMA EnterStageInv == ASSUME StageInv, EnterStage PROVE StageInv'
<1> USE DEF StageInv
<1>1. Shape'
  BY EnterStageLeaves DEF Shape, Pc, Working
<1>2. NoHole' /\ Position'
  BY EnterStageLeaves DEF Shape, Ctx, Phase, NoHole, Position, Stands, Up, Targeted, SameRounds
<1>3. Phase'
  BY EnterStageLeaves DEF Phase, Up, Targeted
<1>4. Guarded'
  BY EnterStageLeaves, BoundsAssumption, GuardAssumption DEF Shape, Ctx, Phase, Guarded, Detours, Cap, Up, Targeted, SameRounds
<1> QED BY <1>1, <1>2, <1>3, <1>4

LEMMA StageDoneInv == ASSUME StageInv, StageDone \/ TargetsDone PROVE StageInv'
<1> USE DEF StageInv
<1>0. ctx.stage # 16
  BY DEF StageDone, TargetsDone, Phase
<1>a. ctx.stage \in 1..15 /\ ctx' \in Ctx /\ ctx \in Ctx
  BY <1>0, StageDoneLeaves DEF Shape, Ctx
<1>b. ck' = ck \cup {ctx.stage} /\ req.start <= ctx.stage /\ Stands(req.start, ck, ctx.stage)
        => ck' \subseteq 1..15 /\ NoHole' /\ Stands(req.start, ck', ctx.stage + 1)
  BY <1>0, <1>a, StageDoneLeaves, Extend DEF Shape
<1>c. ck' = ck => ck' \subseteq 1..15 /\ NoHole'
  BY <1>0, StageDoneLeaves, Keep DEF Shape
<1>d. ~Targeted => req.start <= ctx.stage /\ Stands(req.start, ck, ctx.stage)
  BY <1>0, StageDoneLeaves DEF Position, Up
<1>1. Shape'
  BY <1>0, <1>b, <1>c, <1>d, StageDoneLeaves DEF Shape, Pc, Working, Approve, Phase
<1>2. NoHole' /\ Position'
  BY <1>0, <1>a, <1>b, <1>c, <1>d, StageDoneLeaves DEF Position, Up, Approve, Phase, Targeted, Shape
<1>3. Phase'
  BY <1>0, <1>a, StageDoneLeaves DEF Phase, Up, Targeted
<1>4. Guarded'
  BY <1>0, <1>a, StageDoneLeaves, BoundsAssumption DEF Ctx, Phase, Guarded, Detours, Cap, Up, Targeted, SameRounds
<1> QED BY <1>1, <1>2, <1>3, <1>4

LEMMA PassInv == ASSUME StageInv, Pass \/ TargetsPass PROVE StageInv'
<1> USE DEF StageInv
<1>0. ctx.stage # 16
  BY DEF Pass, TargetsPass, Phase
<1>a. ctx.stage \in 1..15 /\ ctx' \in Ctx /\ ctx \in Ctx
  BY <1>0, PassLeaves DEF Shape, Ctx
<1>b. ck' = ck \cup {ctx.stage} /\ req.start <= ctx.stage /\ Stands(req.start, ck, ctx.stage)
        => ck' \subseteq 1..15 /\ NoHole' /\ Stands(req.start, ck', ctx.stage + 1)
  BY <1>0, <1>a, PassLeaves, Extend DEF Shape
<1>c. ck' = ck => ck' \subseteq 1..15 /\ NoHole'
  BY <1>0, PassLeaves, Keep DEF Shape
<1>d. ~Targeted => req.start <= ctx.stage /\ Stands(req.start, ck, ctx.stage)
  BY <1>0, PassLeaves DEF Position, Up
<1>1. Shape'
  BY <1>0, <1>b, <1>c, <1>d, PassLeaves DEF Shape, Pc, Working, Approve, Phase
<1>2. NoHole' /\ Position'
  BY <1>0, <1>a, <1>b, <1>c, <1>d, PassLeaves DEF Position, Up, Approve, Phase, Targeted, Shape
<1>3. Phase'
  BY <1>0, <1>a, PassLeaves DEF Phase, Up, Targeted
<1>4. Guarded'
  BY <1>0, <1>a, PassLeaves, BoundsAssumption DEF Ctx, Phase, Guarded, Detours, Cap, Up, Targeted, SameRounds
<1> QED BY <1>1, <1>2, <1>3, <1>4

LEMMA RejectInv == ASSUME StageInv, Reject \/ TargetsReject PROVE StageInv'
<1> USE DEF StageInv
<1>1. Shape'
  BY RejectLeaves DEF Shape, Pc, SameRounds
<1>2. NoHole' /\ Position'
  BY RejectLeaves DEF Shape, Ctx, Phase, NoHole, Position, Stands, Up, Targeted, SameRounds
<1>3. Phase'
  BY RejectLeaves DEF Shape, Ctx, Phase, Position, Stands, Up, Targeted, SameRounds
<1>4. Guarded'
  BY RejectLeaves, BoundsAssumption, GuardAssumption DEF Shape, Ctx, Phase, Guarded, Detours, Cap, Up, Targeted, SameRounds
<1> QED BY <1>1, <1>2, <1>3, <1>4

LEMMA SendBackInv == ASSUME StageInv, SendBack PROVE StageInv'
<1> USE DEF StageInv
<1>0. ctx.stage \in {9, 12} /\ ~Targeted
  BY DEF SendBack, Phase
<1>a. RenderOf(ctx.stage) \in {7, 10} /\ RenderOf(ctx.stage) = ctx.stage - 2
  BY <1>0 DEF RenderOf, OfFaces
<1>b. Stands(req.start, ck, ctx.stage) /\ RenderOf(ctx.stage) \in 1..15 /\ ctx.stage \in 1..16
      /\ RenderOf(ctx.stage) <= ctx.stage /\ req.start = 1
  BY <1>0, <1>a, SendBackLeaves DEF Position, Up, Shape
<1>c. ck' \subseteq 1..15 /\ NoHole' /\ Stands(req.start, ck', RenderOf(ctx.stage))
  BY <1>b, SendBackLeaves, Retract DEF Shape
<1>1. Shape'
  BY <1>c, SendBackLeaves DEF Shape, Pc
<1>2. NoHole' /\ Position'
  BY <1>b, <1>c, SendBackLeaves DEF Position, Up
<1>3. Phase'
  BY <1>0, <1>a, SendBackLeaves DEF Phase, Up, Targeted
<1>4. Guarded'
  BY <1>0, <1>a, SendBackLeaves DEF Shape, Ctx, Guarded, Detours, Up, Targeted, SameRounds
<1> QED BY <1>1, <1>2, <1>3, <1>4

LEMMA ApproveInv == ASSUME StageInv, Approve PROVE StageInv'
<1> USE DEF StageInv
<1>0. ctx.stage # 16 /\ ctx.stage \in Gates
  BY DEF Approve, Phase
<1>a. ctx.stage \in 1..15 /\ ctx' \in Ctx /\ ctx \in Ctx
  BY <1>0, ApproveLeaves DEF Shape, Ctx
<1>b. ck' = ck \cup {ctx.stage} /\ req.start <= ctx.stage /\ Stands(req.start, ck, ctx.stage)
        => ck' \subseteq 1..15 /\ NoHole' /\ Stands(req.start, ck', ctx.stage + 1)
  BY <1>0, <1>a, ApproveLeaves, Extend DEF Shape
<1>c. ck' = ck => ck' \subseteq 1..15 /\ NoHole'
  BY <1>0, ApproveLeaves, Keep DEF Shape
<1>d. ~Targeted => req.start <= ctx.stage /\ Stands(req.start, ck, ctx.stage)
  BY <1>0, ApproveLeaves DEF Position, Up
<1>1. Shape'
  BY <1>0, <1>b, <1>c, <1>d, ApproveLeaves DEF Shape, Pc, Working, Approve, Phase
<1>2. NoHole' /\ Position'
  BY <1>0, <1>a, <1>b, <1>c, <1>d, ApproveLeaves DEF Position, Up, Approve, Phase, Targeted, Shape
<1>3. Phase'
  BY <1>0, <1>a, ApproveLeaves DEF Phase, Up, Targeted
<1>4. Guarded'
  BY <1>0, <1>a, ApproveLeaves, BoundsAssumption DEF Ctx, Phase, Guarded, Detours, Cap, Up, Targeted, SameRounds
<1> QED BY <1>1, <1>2, <1>3, <1>4

LEMMA RequestChangesInv == ASSUME StageInv, RequestChanges PROVE StageInv'
<1> USE DEF StageInv
<1>1. /\ UNCHANGED <<req, run, pc, ctx, ck, tck>> /\ ~req.auto
      /\ ask' \in [open : BOOLEAN, ids : SUBSET Media]
  BY RequestChangesLeaves DEF RequestChanges
<1>2. Shape'
  BY <1>1 DEF Shape
<1> QED
  BY <1>1, <1>2 DEF NoHole, Phase, Position, Guarded, Up, Targeted, Detours, Cap

LEMMA RedoInv == ASSUME StageInv, Redo PROVE StageInv'
<1> USE DEF StageInv
<1>0. ctx.stage \in Gates
  BY DEF Redo, Phase
<1>a. /\ UNCHANGED <<req, ck, ask>> /\ NoHole' /\ ~Targeted
      /\ \A m : Stands(req.start, ck, m) => Stands(req.start, ck', m)
  BY RedoLeaves, <1>0, Keep DEF Redo, Phase
<1>b. /\ Stands(req.start, ck, ctx.stage) /\ Stands(req.start, ck, RedoStage(ctx.stage))
      /\ req.start <= RedoStage(ctx.stage)
  <2>1. Stands(req.start, ck, ctx.stage) /\ req.start <= ctx.stage /\ req.start \in {1, 14}
    BY <1>0, <1>a, RedoLeaves DEF Position, Up, Shape
  <2>0. req.start = 1
    BY <2>1, RedoLeaves, <1>0 DEF Phase
  <2>2. RedoStage(ctx.stage) \in 1..16 /\ RedoStage(ctx.stage) <= ctx.stage
    BY <1>0 DEF RedoStage
  <2>3. req.start <= RedoStage(ctx.stage)
    BY <1>0, <2>0 DEF RedoStage
  <2> QED BY <1>0, <2>1, <2>2, <2>3 DEF Stands
<1>1. Shape'
  BY <1>0, RedoLeaves DEF Shape, Pc, Working
<1>2. NoHole' /\ Position'
  BY <1>0, <1>a, <1>b, RedoLeaves DEF Position
<1>3. Phase'
  BY <1>0, RedoLeaves DEF Shape, Ctx, Phase, Position, Stands, Up, Targeted, SameRounds, RedoStage
<1>4. Guarded'
  BY <1>0, RedoLeaves, BoundsAssumption, GuardAssumption DEF Shape, Ctx, Phase, Guarded, Detours, Cap, Up, Targeted, SameRounds, RedoStage
<1> QED BY <1>1, <1>2, <1>3, <1>4

LEMMA RedoDoneInv == ASSUME StageInv, RedoDone PROVE StageInv'
<1> USE DEF StageInv
<1>0. /\ ctx.stage \in 1..15 /\ ctx.gate \in 1..16 /\ ~Targeted
      /\ ctx.stage + 1 <= ctx.gate \/ ctx.stage = 13
  BY RedoDoneLeaves DEF Phase, Shape, Ctx
<1>a. req.start <= ctx.stage /\ req.start \in {1, 14} /\ Stands(req.start, ck, ctx.stage) /\ Stands(req.start, ck, ctx.gate)
  BY <1>0, RedoDoneLeaves DEF Position, Up, Shape
<1>b. /\ ck' \subseteq 1..15 /\ NoHole' /\ Stands(req.start, ck', ctx.stage + 1)
      /\ \A m : Stands(req.start, ck, m) => Stands(req.start, ck', m)
  BY <1>0, <1>a, RedoDoneLeaves, Extend DEF Shape
<1>1. Shape'
  BY <1>b, RedoDoneLeaves, NoAskShape DEF Shape, Pc, Working
<1>2. NoHole' /\ Position'
  BY <1>0, <1>a, <1>b, RedoDoneLeaves DEF Position, Phase
<1>3. Phase'
  BY RedoDoneLeaves DEF Shape, Ctx, Phase, NoAsk, Position, Stands, Up, Targeted, SameRounds
<1>4. Guarded'
  BY RedoDoneLeaves, BoundsAssumption, GuardAssumption DEF Shape, Ctx, Phase, Guarded, Detours, Cap, Up, Targeted, SameRounds
<1> QED BY <1>1, <1>2, <1>3, <1>4

LEMMA RedoFailsInv == ASSUME StageInv, RedoFails PROVE StageInv'
<1> USE DEF StageInv
<1>1. Shape'
  BY RedoFailsLeaves, NoAskShape DEF Shape, Pc
<1>2. NoHole' /\ Position'
  <2>1. req.start <= ctx.gate /\ Stands(req.start, ck, ctx.gate)
    BY RedoFailsLeaves DEF Shape, Phase, Position, Up
  <2> QED BY <2>1, RedoFailsLeaves, Keep DEF Position, Up
<1>3. Phase'
  BY RedoFailsLeaves DEF Shape, Ctx, Phase, NoAsk, Position, Stands, Up, Targeted, SameRounds
<1>4. Guarded'
  BY RedoFailsLeaves, BoundsAssumption, GuardAssumption DEF Shape, Ctx, Phase, Guarded, Detours, Cap, Up, Targeted, SameRounds
<1> QED BY <1>1, <1>2, <1>3, <1>4

LEMMA CompleteInv == ASSUME StageInv, Complete \/ TargetsComplete PROVE StageInv'
<1> USE DEF StageInv
<1>1. Shape'
  BY CompleteLeaves, IdleShape DEF Shape, Pc, SameRounds
<1>2. NoHole' /\ Position'
  BY CompleteLeaves, IdleShape DEF Shape, Ctx, Phase, NoHole, Position, Stands, Up, Targeted, SameRounds
<1>3. Phase'
  BY CompleteLeaves, IdleShape DEF Shape, Ctx, Phase, Position, Stands, Up, Targeted, SameRounds
<1>4. Guarded'
  BY CompleteLeaves, IdleShape, BoundsAssumption, GuardAssumption DEF Shape, Ctx, Phase, Guarded, Detours, Cap, Up, Targeted, SameRounds
<1> QED BY <1>1, <1>2, <1>3, <1>4

LEMMA FailsInv == ASSUME StageInv, StageFails \/ TargetsFail \/ Crash PROVE StageInv'
<1> USE DEF StageInv
<1>1. Shape'
  BY FailsLeaves, IdleShape DEF Shape, Pc, SameRounds
<1>2. NoHole' /\ Position'
  BY FailsLeaves, IdleShape DEF Shape, Ctx, Phase, NoHole, Position, Stands, Up, Targeted, SameRounds
<1>3. Phase'
  BY FailsLeaves, IdleShape DEF Shape, Ctx, Phase, Position, Stands, Up, Targeted, SameRounds
<1>4. Guarded'
  BY FailsLeaves, IdleShape, BoundsAssumption, GuardAssumption DEF Shape, Ctx, Phase, Guarded, Detours, Cap, Up, Targeted, SameRounds
<1> QED BY <1>1, <1>2, <1>3, <1>4

LEMMA CancelledInv == ASSUME StageInv, CancelRun \/ FinishCancelled PROVE StageInv'
<1> USE DEF StageInv
<1>1. Shape'
  BY CancelLeaves, IdleShape DEF Shape, Pc, SameRounds
<1>2. NoHole' /\ Position'
  BY CancelLeaves, IdleShape DEF Shape, Ctx, Phase, NoHole, Position, Stands, Up, Targeted, SameRounds
<1>3. Phase'
  BY CancelLeaves, IdleShape DEF Shape, Ctx, Phase, Position, Stands, Up, Targeted, SameRounds
<1>4. Guarded'
  BY CancelLeaves, IdleShape, BoundsAssumption, GuardAssumption DEF Shape, Ctx, Phase, Guarded, Detours, Cap, Up, Targeted, SameRounds
<1> QED BY <1>1, <1>2, <1>3, <1>4

LEMMA MakeInv == ASSUME StageInv, Make PROVE StageInv'
<1> USE DEF StageInv
<1>0. PICK a \in Artifact : CommitsOne(a)
  BY MakeCommits
<1>a. tck' \subseteq Media
  BY <1>0 DEF CommitsOne, Shape
<1>1. Shape'
  BY <1>0, <1>a, MakeLeaves DEF Shape
<1>2. NoHole' /\ Position'
  BY <1>0, MakeLeaves DEF NoHole, Position, Stands, Up, Targeted
<1>3. Phase'
  BY <1>0, MakeLeaves DEF Phase, Position, Stands, Up, Targeted
<1>4. Guarded'
  BY <1>0, MakeLeaves DEF Guarded, Detours, Cap, Up, Targeted, SameRounds
<1> QED BY <1>1, <1>2, <1>3, <1>4

-----------------------------------------------------------------------------
(* What was drawn, one lemma per group of actions *)

LEMMA PendingUndrawn ==
    ASSUME NEW s, NEW scope, NEW redraw, NEW done \in SUBSET Media
    PROVE  /\ Pending(s, scope, redraw, done) \cap done = {}
           /\ Pending(s, scope, redraw, done) \cap Media # {} => s \in {7, 10, 13}
<1>1. Outline \notin Media /\ Sheet \notin Media /\ Board \notin Media /\ Cut \notin Media
  BY DEF Outline, Sheet, Board, Cut, Media, Faces, Frames, Clips, Face, Frame, Clip
<1>3. CASE s \in {7, 10, 13}
  <2>1. CASE s = 7
    BY <2>1 DEF Pending, Undrawn
  <2>2. CASE s = 10
    BY <2>2 DEF Pending, Undrawn
  <2>3. CASE s = 13
    BY <2>3 DEF Pending, Undrawn
  <2> QED BY <1>3, <2>1, <2>2, <2>3
<1>4. CASE s \notin {7, 10, 13}
  BY <1>1, <1>4 DEF Pending
<1> QED BY <1>3, <1>4

LEMMA DrawnAtStart ==
    ASSUME IInv, StartRun \/ ResumeRun \/ StartTargets
    PROVE  Drawn'
<1> USE DEF IInv, StageInv
<1>1. CASE StartRun
  <2>1. ck = {} /\ ~Targeted
    BY <1>1 DEF StartRun, Phase
  <2>2. tck = {}
    BY <2>1 DEF Drawn
  <2> QED BY <1>1, <2>2, StartRunLeaves DEF Drawn, Begun
<1>2. CASE ResumeRun
  BY <1>2, ResumeRunLeaves, IdleShape DEF Drawn, Begun, Targeted
<1>3. CASE StartTargets
  BY <1>3, StartTargetsLeaves, IdleShape DEF Drawn, Begun, Targeted
<1> QED BY <1>1, <1>2, <1>3

LEMMA DrawnByMake == ASSUME IInv, Make PROVE Drawn'
<1> USE DEF IInv, StageInv
<1>1. PICK a \in Artifact : CommitsOne(a)
  BY MakeCommits
<1>2. /\ UNCHANGED <<req, run, pc, ck>> /\ pc \in Working /\ a \in ctx.todo
      /\ ctx'.stage = ctx.stage /\ ctx'.todo = ctx.todo \ {a}
      /\ tck' = tck \cup ({a} \cap Media)
  BY <1>1, MakeLeaves DEF CommitsOne
<1>3. a \in Media => ck # {} \/ Targeted
  <2> SUFFICES ASSUME a \in Media, ~Targeted PROVE ck # {}
    OBVIOUS
  <2>1. ctx.stage \in {7, 10, 13}
    BY <1>2 DEF Drawn
  <2>2. Stands(req.start, ck, ctx.stage) /\ req.start <= ctx.stage /\ req.start \in {1, 14}
    BY <1>2 DEF Position, Up, Working, Shape
  <2> QED BY <2>1, <2>2 DEF Stands
<1> QED BY <1>2, <1>3 DEF Drawn, Targeted

LEMMA DrawnByStages ==
    ASSUME IInv, EnterStage \/ StageDone \/ TargetsDone \/ Pass \/ TargetsPass
               \/ Reject \/ TargetsReject \/ SendBack
    PROVE  Drawn'
<1> USE DEF IInv, StageInv
<1>1. CASE EnterStage
  BY <1>1, EnterStageLeaves, PendingUndrawn DEF Drawn, Shape, Targeted, Working
<1>2. CASE StageDone \/ TargetsDone
  <2>1. ctx.stage # 16
    BY <1>2 DEF StageDone, TargetsDone, Phase
  <2> QED BY <1>2, <2>1, StageDoneLeaves DEF Drawn, Targeted
<1>3. CASE Pass \/ TargetsPass
  <2>1. ctx.stage # 16 /\ ctx.todo = {}
    BY <1>3 DEF Pass, TargetsPass, Phase, Drawn, Working
  <2> QED BY <1>3, <2>1, PassLeaves DEF Drawn, Targeted
<1>4. CASE Reject \/ TargetsReject
  <2>1. ctx.todo = {}
    BY <1>4 DEF Reject, TargetsReject, Narrow, Dropped, Drawn, Working
  <2> QED BY <1>4, <2>1, RejectLeaves DEF Drawn, Targeted
<1>5. CASE SendBack
  <2>1. ctx.todo = {} /\ ctx.stage \in {9, 12} /\ ~Targeted
    BY <1>5 DEF SendBack, Phase, Drawn, Working
  <2>2. 1 \in ck /\ 1 \notin RenderOf(ctx.stage)..15
    BY <1>5, <2>1 DEF SendBack, Position, Up, Stands, RenderOf, Shape
  <2> QED BY <1>5, <2>1, <2>2, SendBackLeaves DEF Drawn, Targeted
<1> QED BY <1>1, <1>2, <1>3, <1>4, <1>5

LEMMA DrawnAtGates ==
    ASSUME IInv, Approve \/ RequestChanges \/ Redo \/ RedoDone \/ RedoFails
    PROVE  Drawn'
<1> USE DEF IInv, StageInv
<1>1. CASE Approve
  <2>1. ctx.stage # 16 /\ ctx.todo = {}
    BY <1>1 DEF Approve, Phase, Drawn, Working
  <2> QED BY <1>1, <2>1, ApproveLeaves DEF Drawn, Targeted
<1>2. CASE RequestChanges
  BY <1>2, RequestChangesLeaves DEF Drawn, Targeted
<1>5. CASE Redo
  <2>1. ctx.stage \in Gates /\ ~Targeted
    BY <1>5 DEF Redo, Phase
  <2>2. PICK scope, redraw :
             ctx'.todo = Pending(RedoStage(ctx.stage), scope, redraw, tck \ ask.ids)
    BY <1>5, <2>1, RedoLeaves
  <2>3. tck \ ask.ids \in SUBSET Media /\ tck' = tck \ ask.ids
    BY <1>5, <2>1, RedoLeaves DEF Shape
  <2>4. /\ ctx'.todo \cap tck' = {}
        /\ ctx'.todo \cap Media # {} => RedoStage(ctx.stage) \in {7, 10, 13}
    BY <2>2, <2>3, PendingUndrawn
  <2>5. UNCHANGED <<req, ck>> /\ pc' = "redo" /\ ctx'.stage = RedoStage(ctx.stage)
    BY <1>5, <2>1, RedoLeaves
  <2> QED BY <2>3, <2>4, <2>5 DEF Drawn, Working, Targeted
<1>3. CASE RedoDone
  <2>1. ck' # {}
    BY <1>3, RedoDoneLeaves
  <2>2. tck \in SUBSET Media
    BY DEF Shape
  <2>3. CASE ctx.stage = 13
    <3>1. /\ ctx'.todo \cap tck = {}
          /\ ctx'.todo \cap Media = {}
      BY <1>3, <2>2, <2>3, RedoDoneLeaves, PendingUndrawn
    <3> QED BY <1>3, <2>1, <2>3, <3>1, RedoDoneLeaves DEF Drawn, Working, Targeted
  <2>4. CASE ctx.stage # 13
    BY <1>3, <2>1, <2>4, RedoDoneLeaves DEF Drawn, Working, Targeted
  <2> QED BY <2>3, <2>4
<1>4. CASE RedoFails
  BY <1>4, RedoFailsLeaves DEF Drawn, Targeted
<1> QED BY <1>1, <1>2, <1>3, <1>4, <1>5

LEMMA DrawnAtEnds ==
    ASSUME IInv, Complete \/ TargetsComplete \/ StageFails \/ TargetsFail \/ Crash \/ CancelRun \/ FinishCancelled
    PROVE  Drawn'
<1> USE DEF IInv, StageInv
<1>1. CASE Complete \/ TargetsComplete
  BY <1>1, CompleteLeaves, IdleShape DEF Drawn, Targeted
<1>2. CASE StageFails \/ TargetsFail \/ Crash
  BY <1>2, FailsLeaves, IdleShape DEF Drawn, Targeted
<1>3. CASE CancelRun \/ FinishCancelled
  BY <1>3, CancelLeaves, IdleShape DEF Drawn, Targeted
<1> QED BY <1>1, <1>2, <1>3

-----------------------------------------------------------------------------
LEMMA NextInv == IInv /\ [Next]_vars => IInv'
<1> SUFFICES ASSUME IInv, [Next]_vars PROVE IInv'
  OBVIOUS
<1> USE DEF IInv
<1>1. CASE StartRun \/ ResumeRun \/ StartTargets
  BY <1>1, StartRunInv, ResumeRunInv, StartTargetsInv, DrawnAtStart
<1>2. CASE EnterStage \/ StageDone \/ TargetsDone \/ Pass \/ TargetsPass
               \/ Reject \/ TargetsReject \/ SendBack
  BY <1>2, EnterStageInv, StageDoneInv, PassInv, RejectInv, SendBackInv, DrawnByStages
<1>3. CASE Make
  BY <1>3, MakeInv, DrawnByMake
<1>4. CASE Approve \/ RequestChanges \/ Redo \/ RedoDone \/ RedoFails
  BY <1>4, ApproveInv, RequestChangesInv, RedoInv, RedoDoneInv, RedoFailsInv, DrawnAtGates
<1>5. CASE Complete \/ TargetsComplete \/ StageFails \/ TargetsFail \/ Crash \/ CancelRun \/ FinishCancelled
  BY <1>5, CompleteInv, FailsInv, CancelledInv, DrawnAtEnds
<1>6. CASE UNCHANGED vars
  BY <1>6 DEF vars, db, history, StageInv, Shape, NoHole, Phase, Position, Guarded, Drawn, Up,
              Targeted, Detours, Cap
<1> QED BY <1>1, <1>2, <1>3, <1>4, <1>5, <1>6 DEF Next, Step

\* The inductive invariant: what stage the runner is at, which checkpoints and
\* targets stand behind it, and what may still be drawn.
THEOREM Invariant == Spec => []IInv
<1> QED BY InitInv, NextInv, PTL DEF Spec

-----------------------------------------------------------------------------
(* Every step is a step of Pipeline or a stutter *)

Outcome == IF run.status \in {"queued", "running"} THEN "active" ELSE run.status

LEMMA InitRefines == Init => P!Init
BY DEF Init, P!Init, Targeted, Sent, ValidCommand, Request

LEMMA Stutters ==
    ASSUME UNCHANGED <<req, ck, Outcome>>
    PROVE  [P!Next]_(P!vars)
BY DEF P!vars, Outcome, Targeted

\* A stage that comes to stand, or stood already.
LEMMA Advances ==
    ASSUME IInv, UNCHANGED <<req, run>>, run.status = "running", ~Targeted,
           NEW n \in 1..15, req.start <= n, Stands(req.start, ck, n), ck' = ck \cup {n}
    PROVE  [P!Next]_(P!vars)
<1>1. CASE n \in ck
  BY <1>1, Stutters DEF Outcome
<1>2. CASE n \notin ck
  <2>1. ck = {t \in 1..15 : req.start <= t /\ t < n}
    <3>1. \A t \in ck : t \in 1..15 /\ req.start <= t /\ Stands(req.start, ck, t)
      BY DEF IInv, StageInv, Shape, NoHole
    <3>2. \A t \in ck : t < n
      BY <1>2, <3>1 DEF Stands
    <3> QED BY <3>1, <3>2 DEF Stands
  <2>2. P!Advance(n)
    BY <2>1 DEF P!Advance, P!Stages, P!Own, Targeted
  <2> QED BY <2>2 DEF P!Next, P!Stages
<1> QED BY <1>1, <1>2

LEMMA StartRefines ==
    ASSUME IInv, StartRun \/ ResumeRun \/ StartTargets
    PROVE  [P!Next]_(P!vars)
<1> USE DEF IInv, StageInv
<1>1. pc = "down" /\ run.status \in {"queued", "running", "failed"}
  BY DEF StartRun, ResumeRun, StartTargets, BeginTargets
<1>2. ASSUME run'.status = "running", UNCHANGED <<req, ck>> PROVE [P!Next]_(P!vars)
  <2>1. CASE run.status = "failed"
    <3>1. P!Resume
      BY <1>2, <2>1 DEF P!Resume, Targeted
    <3> QED BY <3>1 DEF P!Next
  <2>2. CASE run.status # "failed"
    BY <1>1, <1>2, <2>2, Stutters DEF Outcome
  <2> QED BY <2>1, <2>2
<1>3. CASE StartRun
  <2>1. ck = {}
    BY <1>3 DEF StartRun, Phase
  <2> QED BY <1>2, <1>3, <2>1, StartRunLeaves DEF Begun
<1>4. CASE ResumeRun
  <2>1. CASE run'.status = "running"
    BY <1>2, <1>4, <2>1, ResumeRunLeaves
  <2>2. CASE run'.status = "succeeded"
    <3>1. LastCompleted = 15 /\ UNCHANGED <<req, ck>>
      BY <1>4, <2>2, ResumeRunLeaves DEF Begun
    <3>2. ck = {t \in 1..15 : req.start <= t} /\ ~Targeted
      <4>1. LastCompleted \in ck /\ ck \subseteq 1..15 /\ ~Targeted
        BY <1>4, ResumeRunLeaves, LastIsLast DEF Shape
      <4>2. Stands(req.start, ck, LastCompleted) /\ \A t \in ck : req.start <= t
        BY <4>1 DEF NoHole
      <4>3. \A t \in 1..15 : req.start <= t /\ t < LastCompleted => t \in ck
        BY <4>2 DEF Stands
      <4>4. \A t \in 1..15 : t < LastCompleted \/ t = LastCompleted
        BY <3>1
      <4>5. {t \in 1..15 : req.start <= t} \subseteq ck
        BY <4>1, <4>3, <4>4
      <4> QED BY <4>1, <4>2, <4>5
    <3>3. P!Succeed
      BY <1>1, <2>2, <3>1, <3>2 DEF P!Succeed, P!Stages, P!Own, Targeted
    <3> QED BY <3>3 DEF P!Next
  <2> QED BY <1>4, <2>1, <2>2, ResumeRunLeaves DEF Begun
<1>5. CASE StartTargets
  <2>1. CASE run'.status = "running"
    BY <1>2, <1>5, <2>1, StartTargetsLeaves
  <2>2. CASE run'.status = "succeeded"
    <3>1. Targeted /\ UNCHANGED <<req, ck>> /\ ck = {}
      BY <1>5, StartTargetsLeaves DEF Phase
    <3>2. P!Succeed
      BY <1>1, <2>2, <3>1 DEF P!Succeed, P!Stages, P!Own, Targeted
    <3> QED BY <3>2 DEF P!Next
  <2> QED BY <1>5, <2>1, <2>2, StartTargetsLeaves DEF Begun
<1> QED BY <1>3, <1>4, <1>5

LEMMA StageRefines ==
    ASSUME IInv, EnterStage \/ Make \/ StageDone \/ TargetsDone
                 \/ Pass \/ TargetsPass \/ Reject \/ TargetsReject \/ Approve
                   \/ RequestChanges \/ Redo \/ RedoDone \/ RedoFails
    PROVE  [P!Next]_(P!vars)
<1> USE DEF IInv, StageInv
<1>1. CASE EnterStage
  BY <1>1, EnterStageLeaves, Stutters DEF Outcome
<1>2. CASE Make
  BY <1>2, MakeCommits, Stutters DEF CommitsOne, Outcome
<1>3. CASE StageDone \/ TargetsDone
  <2>1. ctx.stage \in 1..15 /\ UNCHANGED <<req, run>> /\ pc = "work"
    BY <1>3, StageDoneLeaves DEF StageDone, TargetsDone, Phase, Shape, Ctx
  <2>2. CASE Targeted
    BY <1>3, <2>1, <2>2, StageDoneLeaves, Stutters DEF Outcome
  <2>3. CASE ~Targeted
    <3>1. ck' = ck \cup {ctx.stage} /\ req.start <= ctx.stage
          /\ Stands(req.start, ck, ctx.stage) /\ run.status = "running"
      BY <1>3, <2>1, <2>3, StageDoneLeaves DEF Position, Phase, Up
    <3> QED BY <2>1, <2>3, <3>1, Advances
  <2> QED BY <2>2, <2>3
<1>4. CASE Pass \/ TargetsPass
  <2>1. ctx.stage \in 1..15 /\ UNCHANGED <<req, run>> /\ pc = "critique"
    BY <1>4, PassLeaves DEF Pass, TargetsPass, Phase, Shape, Ctx
  <2>2. CASE Targeted
    BY <1>4, <2>1, <2>2, PassLeaves, Stutters DEF Outcome
  <2>3. CASE ~Targeted
    <3>1. ck' = ck \cup {ctx.stage} /\ req.start <= ctx.stage
          /\ Stands(req.start, ck, ctx.stage) /\ run.status = "running"
      BY <1>4, <2>1, <2>3, PassLeaves DEF Position, Phase, Up
    <3> QED BY <2>1, <2>3, <3>1, Advances
  <2> QED BY <2>2, <2>3
<1>5. CASE Reject \/ TargetsReject
  BY <1>5, RejectLeaves, Stutters DEF Outcome
<1>6. CASE Approve
  <2>1. ctx.stage \in 1..15 /\ ~Targeted /\ pc = "gate"
    BY <1>6 DEF Approve, Phase
  <2>2. ck' = ck \cup {ctx.stage} /\ UNCHANGED <<req, run>>
    BY <1>6, <2>1, ApproveLeaves
  <2>3. req.start <= ctx.stage /\ Stands(req.start, ck, ctx.stage) /\ run.status = "running"
    BY <2>1 DEF Position, Phase, Up
  <2> QED BY <2>1, <2>2, <2>3, Advances
<1>7. CASE RequestChanges
  BY <1>7, RequestChangesLeaves, Stutters DEF Outcome
<1>10. CASE Redo
  <2>1. ctx.stage \in Gates
    BY <1>10 DEF Redo, Phase
  <2> QED BY <1>10, <2>1, RedoLeaves, Stutters DEF Outcome
<1>8. CASE RedoDone
  <2>1. /\ ctx.stage \in 1..15 /\ ~Targeted /\ UNCHANGED <<req, run>>
        /\ ck' = ck \cup {ctx.stage} /\ pc = "redo"
    BY <1>8, RedoDoneLeaves DEF Phase, Shape, Ctx
  <2>2. req.start <= ctx.stage /\ Stands(req.start, ck, ctx.stage) /\ run.status = "running"
    BY <2>1 DEF Position, Phase, Up
  <2> QED BY <2>1, <2>2, Advances
<1>9. CASE RedoFails
  BY <1>9, RedoFailsLeaves, Stutters DEF Outcome
<1> QED BY <1>1, <1>2, <1>3, <1>4, <1>5, <1>6, <1>7, <1>8, <1>9, <1>10

LEMMA SendBackRefines == ASSUME IInv, SendBack PROVE [P!Next]_(P!vars)
<1> USE DEF IInv, StageInv
<1> DEFINE r == RenderOf(ctx.stage)
<1>1. /\ r \in {RenderCharacters, RenderShots} /\ r \in 1..15 /\ r < ctx.stage
      /\ pc = "sendback" /\ ~Targeted
  BY DEF SendBack, Phase, RenderOf, OfFaces
<1>2. UNCHANGED <<req, run>> /\ ck' = ck \ (r..15) /\ run.status = "running"
  BY <1>1, SendBackLeaves DEF Phase, Up
<1>3. r \in ck /\ ck \subseteq 1..15
  <2>1. ctx.stage \in {9, 12} /\ req.start \in {1, 14}
        /\ req.start <= ctx.stage /\ Stands(req.start, ck, ctx.stage)
    BY <1>1 DEF SendBack, Phase, Position, Up, Shape
  <2> QED BY <1>1, <2>1 DEF Stands, Shape
<1> HIDE DEF r
<1>4. ck' = {t \in ck : t < r}
  <2>1. \A t \in ck : t \in r..15 <=> ~(t < r)
    BY <1>1, <1>3
  <2> QED BY <1>2, <2>1
<1>5. P!SendBack(r)
  BY <1>2, <1>3, <1>4 DEF P!SendBack, Targeted
<1> QED BY <1>1, <1>5 DEF P!Next

LEMMA EndRefines ==
    ASSUME IInv, Complete \/ TargetsComplete \/ StageFails \/ TargetsFail \/ Crash \/ CancelRun \/ FinishCancelled
    PROVE  [P!Next]_(P!vars)
<1> USE DEF IInv, StageInv
<1>1. ASSUME UNCHANGED <<req, ck>>, run.status \in {"queued", "running", "failed"},
             run'.status \in {"failed", "cancelled"}
      PROVE  [P!Next]_(P!vars)
  <2>1. P!GiveUp
    BY <1>1 DEF P!GiveUp, Targeted
  <2> QED BY <2>1 DEF P!Next
<1>2. CASE Complete \/ TargetsComplete
  <2>1. /\ UNCHANGED <<req, ck>> /\ pc = "loop" /\ run.status = "running"
        /\ run'.status \in {"succeeded", "failed"}
    BY <1>2, CompleteLeaves DEF Phase, Up
  <2>2. CASE run'.status = "failed"
    BY <1>1, <2>1, <2>2
  <2>3. CASE run'.status = "succeeded" /\ Targeted
    <3>1. P!Succeed
      BY <2>1, <2>3 DEF P!Succeed, P!Stages, P!Own, Targeted, Phase
    <3> QED BY <3>1 DEF P!Next
  <2>4. CASE run'.status = "succeeded" /\ ~Targeted
    <3>1. /\ ctx.guard <= ctx.stage - 1 + Detours(ctx) /\ Stands(req.start, ck, ctx.stage)
          /\ \A t \in ck : req.start <= t
          /\ ctx.stage \in 1..16 /\ ctx.guard \in Nat
      BY <2>1, <2>4 DEF Guarded, Position, Up, Shape, Ctx, NoHole
    <3>2. Detours(ctx) \in Nat /\ Detours(ctx) <= 6 * MaxRounds
      <4>1. /\ Cap(ctx.faceRounds) \in Nat /\ Cap(ctx.faceRounds) <= MaxRounds
            /\ Cap(ctx.frameRounds) \in Nat /\ Cap(ctx.frameRounds) <= MaxRounds
        BY BoundsAssumption DEF Cap, Shape, Ctx
      <4> QED BY <4>1, BoundsAssumption DEF Detours
    <3>3. ctx.stage = 16
      <4>1. CASE Cut64
        BY <3>1, <3>2, <4>1, BoundsAssumption, GuardAssumption DEF Cut64
      <4> QED BY <1>2, <4>1, CompleteLeaves
    <3>4. ck = {t \in 1..15 : req.start <= t}
      <4>1. \A t \in 1..15 : req.start <= t => t \in ck
        BY <3>1, <3>3 DEF Stands
      <4>2. \A t \in ck : t \in 1..15 /\ req.start <= t
        BY <3>1 DEF Shape
      <4> QED BY <4>1, <4>2
    <3>5. P!Succeed
      BY <2>1, <2>4, <3>4 DEF P!Succeed, P!Stages, P!Own, Targeted
    <3> QED BY <3>5 DEF P!Next
  <2> QED BY <2>1, <2>2, <2>3, <2>4
<1>3. CASE StageFails \/ TargetsFail \/ Crash
  <2>1. UNCHANGED <<req, ck>> /\ run.status = "running"
        /\ (run' = run \/ run'.status = "failed")
    BY <1>3, FailsLeaves DEF Phase, Up
  <2>2. CASE run' = run
    BY <2>1, <2>2, Stutters DEF Outcome
  <2> QED BY <1>1, <2>1, <2>2
<1>4. CASE CancelRun \/ FinishCancelled
  <2>1. /\ UNCHANGED <<req, ck>> /\ pc # "over"
        /\ (run'.status = run.status \/ run'.status = "cancelled")
    BY <1>4, CancelLeaves
  <2>2. run.status \in {"queued", "running", "failed"}
    BY <2>1 DEF Phase, Up
  <2>3. CASE run'.status = run.status
    BY <2>1, <2>3, Stutters DEF Outcome
  <2> QED BY <1>1, <2>1, <2>2, <2>3
<1> QED BY <1>2, <1>3, <1>4

\* A run keeps Pipeline's promise for every number of rounds the loop has steps
\* for: its checkpoints never have a hole that a resume would skip, only a review
\* takes stages back, and it succeeds only with every stage standing from its first
\* one, the last two for a run that composes again.
THEOREM RunImplementsPipeline == Spec => ImplementsPipeline
<1>1. IInv /\ [Next]_vars => [P!Next]_(P!vars)
  <2> SUFFICES ASSUME IInv, [Next]_vars PROVE [P!Next]_(P!vars)
    OBVIOUS
  <2>1. CASE UNCHANGED vars
    BY <2>1, Stutters DEF vars, db, history, Outcome
  <2> QED
    BY <2>1, StartRefines, StageRefines, SendBackRefines, EndRefines DEF Next, Step
<1> QED BY <1>1, InitRefines, Invariant, PTL DEF Spec, ImplementsPipeline, P!Spec

-----------------------------------------------------------------------------
(***************************************************************************)
(* What is drawn is made from approved images.  An approval of the images  *)
(* stands as long as the checkpoint of its gate does, because no checkpoint *)
(* is ahead of the runner: what it draws or deletes lies behind no gate     *)
(* that was passed.                                                        *)
(***************************************************************************)

\* A stage has nothing on its list but what it makes.
KindStage ==
    /\ ctx.todo \cap Faces # {} => ctx.stage = 7
    /\ ctx.todo \cap Frames # {} => ctx.stage = 10
    /\ ctx.todo \cap Clips # {} => ctx.stage = 13
    /\ Outline \in ctx.todo => ctx.stage = 1
    /\ Sheet \in ctx.todo => ctx.stage = 3
    /\ Board \in ctx.todo => ctx.stage = 5
    /\ Cut \in ctx.todo => ctx.stage = 14

\* No checkpoint is ahead of the runner, or of the gate it will come back to
\* from a redo; only a resume at the merge has its gate's behind it.
Here == IF pc = "redo" THEN ctx.gate ELSE ctx.stage
NoneAhead == Up /\ ~Targeted /\ Here <= 13 => \A t \in ck : t < Here

Signed ==
    ~Targeted /\ ~req.auto =>
        /\ 8 \in ck => Faces \subseteq approved
        /\ 11 \in ck => Frames \subseteq approved

SignedInv == KindStage /\ NoneAhead /\ Signed

LEMMA Kinds ==
    /\ \A a \in Faces : a \notin Frames \cup Clips /\ a \notin {Outline, Sheet, Board, Cut}
    /\ \A a \in Frames : a \notin Clips /\ a \notin {Outline, Sheet, Board, Cut}
    /\ \A a \in Clips : a \notin {Outline, Sheet, Board, Cut}
    /\ Outline \notin {Sheet, Board, Cut} /\ Sheet \notin {Board, Cut} /\ Board # Cut
BY DEF Faces, Frames, Clips, Face, Frame, Clip, Outline, Sheet, Board, Cut

LEMMA PendingKinds ==
    ASSUME NEW s, NEW scope, NEW redraw, NEW done, NEW a \in Pending(s, scope, redraw, done)
    PROVE  /\ a \in Faces => s = 7
           /\ a \in Frames => s = 10
           /\ a \in Clips => s = 13
           /\ a = Outline => s = 1
           /\ a = Sheet => s = 3
           /\ a = Board => s = 5
           /\ a = Cut => s = 14
<1>1. \A kind, r : Undrawn(kind, scope, r, done) \subseteq kind
  BY DEF Undrawn, InScope
<1> QED BY <1>1, Kinds DEF Pending

\* Approvals are given at a gate and taken with what is redrawn or deleted.
LEMMA ApprovedMoves ==
    ASSUME [Next]_vars
    PROVE  approved' = approved \/ Approve \/ Make
<1> USE DEF history
<1>1. CASE StartRun \/ ResumeRun \/ StartTargets
  BY <1>1 DEF StartRun, ResumeRun, StartTargets
<1>2. CASE EnterStage \/ StageDone \/ TargetsDone \/ Pass \/ TargetsPass \/ SendBack
  BY <1>2 DEF EnterStage, StageDone, TargetsDone, Pass, TargetsPass, SendBack
<1>3. CASE Reject \/ TargetsReject
  BY <1>3 DEF Reject, TargetsReject, Narrow
<1>4. CASE RequestChanges \/ Redo \/ RedoDone \/ RedoFails
  BY <1>4 DEF RequestChanges, Redo, RedoDone, RedoFails
<1>5. CASE Complete \/ TargetsComplete \/ FinishCancelled \/ CancelRun
  BY <1>5 DEF Complete, TargetsComplete, FinishCancelled, CancelRun
<1>6. CASE StageFails \/ TargetsFail \/ Crash
  BY <1>6 DEF StageFails, TargetsFail, Crash, Down
<1>7. CASE UNCHANGED vars
  BY <1>7 DEF vars
<1> QED BY <1>1, <1>2, <1>3, <1>4, <1>5, <1>6, <1>7 DEF Next, Step

LEMMA KindStageNext == ASSUME IInv, KindStage, [Next]_vars PROVE KindStage'
<1> USE DEF IInv, StageInv
<1>1. CASE ctx'.todo = {}
  BY <1>1 DEF KindStage
<1>2. CASE ctx'.stage = ctx.stage /\ ctx'.todo \subseteq ctx.todo
  BY <1>2 DEF KindStage
<1>3. CASE \E scope, redraw, done : ctx'.todo = Pending(ctx'.stage, scope, redraw, done)
  BY <1>3, PendingKinds DEF KindStage
<1>4. CASE StartRun \/ ResumeRun \/ StartTargets
  BY <1>1, <1>4, StartRunLeaves, ResumeRunLeaves, StartTargetsLeaves, IdleShape DEF Begun
<1>5. CASE EnterStage
  <2>1. ctx'.stage = ctx.stage
    BY <1>5, EnterStageLeaves
  <2>2. ctx'.todo = ctx.todo \/ ctx'.todo = Pending(ctx'.stage, ctx.scope, ctx.redraw, tck)
    BY <1>5, <2>1, EnterStageLeaves
  <2> QED BY <1>2, <1>3, <2>1, <2>2
<1>6. CASE StageDone \/ TargetsDone
  <2>1. ctx.stage # 16
    BY <1>6 DEF StageDone, TargetsDone, Phase
  <2> QED BY <1>1, <1>6, <2>1, StageDoneLeaves
<1>7. CASE Pass \/ TargetsPass
  <2>1. ctx.stage # 16 /\ ctx.todo = {}
    BY <1>7 DEF Pass, TargetsPass, Phase, Drawn, Working
  <2> QED BY <1>1, <1>7, <2>1, PassLeaves
<1>8. CASE Reject \/ TargetsReject
  BY <1>2, <1>8, RejectLeaves
<1>9. CASE SendBack
  <2>1. ctx.todo = {}
    BY <1>9 DEF SendBack, Drawn, Working
  <2> QED BY <1>1, <1>9, <2>1, SendBackLeaves
<1>10. CASE Make
  <2>1. PICK a \in Artifact : CommitsOne(a)
    BY <1>10, MakeCommits
  <2> QED BY <1>2, <2>1, MakeLeaves
<1>11. CASE Approve
  <2>1. ctx.stage # 16 /\ ctx.todo = {}
    BY <1>11 DEF Approve, Phase, Drawn, Working
  <2> QED BY <1>1, <1>11, <2>1, ApproveLeaves
<1>12. CASE RequestChanges
  BY <1>2, <1>12, RequestChangesLeaves
<1>17. CASE Redo
  <2>1. ctx.stage \in Gates
    BY <1>17 DEF Redo, Phase
  <2>2. ctx'.stage = RedoStage(ctx.stage)
    BY <1>17, <2>1, RedoLeaves
  <2>3. \E scope, redraw, done : ctx'.todo = Pending(RedoStage(ctx.stage), scope, redraw, done)
    BY <1>17, <2>1, RedoLeaves
  <2> QED BY <1>3, <2>2, <2>3
<1>13. CASE RedoDone
  <2>1. CASE ctx.stage = 13
    <3>1. ctx'.stage = 14 /\ ctx'.todo = Pending(14, ctx.scope, ctx.redraw, tck)
      BY <1>13, <2>1, RedoDoneLeaves
    <3> QED BY <3>1, PendingKinds DEF KindStage
  <2>2. CASE ctx.stage # 13
    BY <1>1, <1>13, <2>2, RedoDoneLeaves
  <2> QED BY <2>1, <2>2
<1>14. CASE RedoFails
  BY <1>1, <1>14, RedoFailsLeaves
<1>15. CASE Complete \/ TargetsComplete \/ StageFails \/ TargetsFail \/ Crash \/ CancelRun \/ FinishCancelled
  BY <1>1, <1>2, <1>15, CompleteLeaves, FailsLeaves, CancelLeaves, IdleShape
<1>16. CASE UNCHANGED vars
  BY <1>2, <1>16 DEF vars
<1> QED BY <1>4, <1>5, <1>6, <1>7, <1>8, <1>9, <1>10, <1>11, <1>12, <1>13, <1>14, <1>15, <1>16, <1>17
        DEF Next, Step

LEMMA NoneAheadNext == ASSUME IInv, NoneAhead, [Next]_vars PROVE NoneAhead'
<1> USE DEF IInv, StageInv
<1>0. /\ \A t \in ck : t \in 1..15
      /\ ctx.stage \in 1..16 /\ ctx.gate \in 1..16
  BY Types DEF Shape
<1>1. CASE ~Up'
  BY <1>1 DEF NoneAhead
<1>2. CASE UNCHANGED <<req, ck>> /\ Up /\ Here' = Here
  BY <1>2 DEF NoneAhead, Targeted
<1>3. CASE UNCHANGED req /\ Targeted
  BY <1>3 DEF NoneAhead, Targeted
<1>4. CASE StartRun \/ StartTargets
  BY <1>4, StartRunLeaves, StartTargetsLeaves DEF NoneAhead, Targeted, StartRun, Phase
<1>5. CASE ResumeRun
  <2>1. UNCHANGED <<req, ck>> /\ ck # {}
    BY <1>5, ResumeRunLeaves
  <2>2. LastCompleted \in 1..15 /\ \A t \in ck : t <= LastCompleted
    BY <1>0, <2>1, LastIsLast
  <2>3. \/ LastCompleted < 15 /\ pc' = "loop" /\ ctx'.stage = LastCompleted + 1
        \/ pc' = "loop" /\ ctx'.stage = 14
        \/ pc' = "over"
    BY <1>5, ResumeRunLeaves DEF Begun
  <2> QED BY <1>0, <2>1, <2>2, <2>3 DEF NoneAhead, Here, Up
<1>6. CASE EnterStage
  <2>1. UNCHANGED <<req, ck>> /\ pc = "loop" /\ pc' # "redo" /\ ctx'.stage = ctx.stage
    BY <1>6, EnterStageLeaves
  <2> QED BY <1>2, <2>1 DEF Here, Up
<1>7. CASE StageDone \/ Pass \/ Approve
  <2>0. ctx.stage # 16
    BY <1>7 DEF StageDone, Pass, Approve, Phase
  <2>1. ASSUME ~Targeted
        PROVE  /\ UNCHANGED req /\ pc' = "loop" /\ pc \in {"work", "critique", "gate"}
               /\ ck' = ck \cup {ctx.stage} /\ ctx'.stage = ctx.stage + 1
    <3>1. CASE StageDone
      BY <2>0, <2>1, <3>1, StageDoneLeaves
    <3>2. CASE Pass
      BY <2>0, <2>1, <3>2, PassLeaves
    <3>3. CASE Approve
      BY <2>0, <3>3, ApproveLeaves
    <3> QED BY <1>7, <3>1, <3>2, <3>3
  <2>2. UNCHANGED req
    BY <1>7 DEF StageDone, Pass, Approve
  <2> QED BY <1>0, <1>3, <2>1, <2>2 DEF NoneAhead, Here, Up, Targeted
<1>8. CASE TargetsDone \/ TargetsPass \/ TargetsReject \/ TargetsComplete
  BY <1>3, <1>8 DEF TargetsDone, TargetsPass, TargetsReject, TargetsComplete, Narrow, history
<1>9. CASE Reject
  <2>1. UNCHANGED <<req, ck>> /\ pc = "critique" /\ pc' # "redo" /\ ctx'.stage = ctx.stage
    BY <1>9, RejectLeaves
  <2> QED BY <1>2, <2>1 DEF Here, Up
<1>10. CASE SendBack
  <2>1. /\ ck' = ck \ (RenderOf(ctx.stage)..15) /\ ctx'.stage = RenderOf(ctx.stage)
        /\ pc' = "loop"
    BY <1>10, SendBackLeaves
  <2>2. RenderOf(ctx.stage) \in {7, 10}
    BY DEF RenderOf
  <2> QED BY <1>0, <2>1, <2>2 DEF NoneAhead, Here
<1>11. CASE Make
  <2>1. PICK a \in Artifact : CommitsOne(a)
    BY <1>11, MakeCommits
  <2>2. UNCHANGED <<req, pc, ck>> /\ pc \in Working /\ ctx'.stage = ctx.stage /\ ctx'.gate = ctx.gate
    BY <2>1, MakeLeaves
  <2> QED BY <1>2, <2>2 DEF Here, Up, Working
<1>12. CASE RequestChanges
  BY <1>2, <1>12, RequestChangesLeaves DEF Here, Up
<1>18. CASE Redo
  <2>1. ctx.stage \in Gates
    BY <1>18 DEF Redo, Phase
  <2>2. UNCHANGED <<req, ck>> /\ pc = "gate" /\ pc' = "redo" /\ ctx'.gate = ctx.stage
    BY <1>18, <2>1, RedoLeaves
  <2> QED BY <1>2, <2>2 DEF Here, Up
<1>13. CASE RedoDone
  <2>1. /\ UNCHANGED req /\ pc = "redo" /\ ck' = ck \cup {ctx.stage}
        /\ \/ pc' = "gate" /\ ctx'.stage = ctx.gate
           \/ pc' = "redo" /\ ctx'.gate = ctx.gate
    BY <1>13, RedoDoneLeaves
  <2>2. ctx.stage = ctx.gate - 1 \/ ctx.gate = 15
    BY <2>1 DEF Phase
  <2> QED BY <1>0, <2>1, <2>2 DEF NoneAhead, Here, Up, Targeted
<1>14. CASE RedoFails
  <2>1. UNCHANGED <<req, ck>> /\ pc = "redo" /\ pc' = "gate" /\ ctx'.stage = ctx.gate
    BY <1>14, RedoFailsLeaves
  <2> QED BY <1>2, <2>1 DEF Here, Up
<1>15. CASE Complete \/ StageFails \/ TargetsFail \/ Crash \/ FinishCancelled
  <2>1. pc' \in {"down", "over"}
    BY <1>15, CompleteLeaves, FailsLeaves DEF FinishCancelled
  <2> QED BY <1>1, <2>1 DEF Up
<1>16. CASE CancelRun
  BY <1>1, <1>2, <1>16 DEF CancelRun, db, Here, Up
<1>17. CASE UNCHANGED vars
  BY <1>1, <1>2, <1>17 DEF vars, db, Here, Up
<1> QED BY <1>4, <1>5, <1>6, <1>7, <1>8, <1>9, <1>10, <1>11, <1>12, <1>13, <1>14, <1>15, <1>16, <1>17, <1>18
        DEF Next, Step

\* What a commit takes an approval of, by the stage that makes it.
Takes(taken) ==
    /\ approved' = approved \ taken
    /\ taken \cap Faces # {} => ctx.stage \in {3, 7}
    /\ taken \cap Frames # {} => ctx.stage \in {5, 7, 10}

LEMMA MakeTakes ==
    ASSUME Shape, KindStage, Make
    PROVE  \E taken : Takes(taken)
<1>2. CASE WriteOutline
  <2>1. approved' = approved \ ({} \cup {Outline})
    BY <1>2 DEF WriteOutline, Commit
  <2>2. Takes({} \cup {Outline})
    BY <2>1, Kinds DEF Takes
  <2> QED BY <2>2
<1>3. CASE PlanSheet
  <2>1. PICK gone \in SUBSET Faces : Commit(Sheet, gone, tck, project)
    BY <1>3 DEF PlanSheet
  <2>2. Sheet \in ctx.todo /\ approved' = approved \ (gone \cup {Sheet})
    BY <2>1 DEF Commit
  <2>3. (gone \cup {Sheet}) \cap Frames = {} /\ ctx.stage = 3
    BY <2>2, Kinds DEF KindStage
  <2>4. Takes(gone \cup {Sheet})
    BY <2>2, <2>3 DEF Takes
  <2> QED BY <2>4
<1>4. CASE PlanBoard
  <2> DEFINE gone == Frames \cup Clips
  <2>1. Board \in ctx.todo /\ approved' = approved \ (gone \cup {Board})
    BY <1>4 DEF PlanBoard, Commit
  <2>2. (gone \cup {Board}) \cap Faces = {} /\ ctx.stage = 5
    BY <2>1, Kinds DEF KindStage
  <2>3. Takes(gone \cup {Board})
    BY <2>1, <2>2 DEF Takes
  <2> QED BY <2>3
<1>5. CASE MergeClips
  <2>1. approved' = approved \ ({} \cup {Cut})
    BY <1>5 DEF MergeClips, Commit
  <2>2. Takes({} \cup {Cut})
    BY <2>1, Kinds DEF Takes
  <2> QED BY <2>2
<1>6. ASSUME NEW c \in Characters, DrawFace(c) PROVE \E taken : Takes(taken)
  <2> DEFINE gone == UNION {{Frame(s), Clip(s)} : s \in ShotsOf(c)}
  <2>1. Face(c) \in ctx.todo /\ approved' = approved \ (gone \cup {Face(c)})
    BY <1>6 DEF DrawFace, Commit
  <2>2. ctx.stage = 7
    BY <2>1 DEF KindStage, Faces
  <2>3. Takes(gone \cup {Face(c)})
    BY <2>1, <2>2 DEF Takes
  <2> QED BY <2>3
<1>7. ASSUME NEW s \in Shots, DrawFrame(s) PROVE \E taken : Takes(taken)
  <2>1. Frame(s) \in ctx.todo /\ approved' = approved \ ({Clip(s)} \cup {Frame(s)})
    BY <1>7 DEF DrawFrame, ClipOf, Commit
  <2>2. Frame(s) \in Frames /\ Clip(s) \in Clips
    BY DEF Frames, Clips
  <2>3. Takes({Clip(s)} \cup {Frame(s)})
    BY <2>1, <2>2, Kinds DEF KindStage, Takes
  <2> QED BY <2>3
<1>8. ASSUME NEW s \in Shots, ShootClip(s) PROVE \E taken : Takes(taken)
  <2>1. Clip(s) \in ctx.todo /\ approved' = approved \ ({} \cup {Clip(s)})
    BY <1>8 DEF ShootClip, Commit
  <2>2. Clip(s) \in Clips
    BY DEF Clips
  <2>3. Takes({} \cup {Clip(s)})
    BY <2>1, <2>2, Kinds DEF Takes
  <2> QED BY <2>3
<1> QED BY <1>2, <1>3, <1>4, <1>5, <1>6, <1>7, <1>8 DEF Make

LEMMA SignedNext == ASSUME IInv, SignedInv, [Next]_vars PROVE Signed'
<1> USE DEF IInv, StageInv
<1>0. /\ \A t \in ck : t \in 1..15
      /\ ctx.stage \in 1..16 /\ ctx.gate \in 1..16
  BY Types DEF Shape
<1>1. CASE UNCHANGED <<req, approved>> /\ ck' \cap {8, 11} \subseteq ck
  BY <1>1 DEF SignedInv, Signed, Targeted
<1>2. CASE Make
  <2>1. PICK a \in Artifact : CommitsOne(a)
    BY <1>2, MakeCommits
  <2>2. UNCHANGED <<req, pc, ck>> /\ pc \in Working
    BY <2>1, MakeLeaves
  <2>3. PICK taken : Takes(taken)
    BY <1>2, MakeTakes DEF SignedInv
  <2>4. ~Targeted /\ ctx.stage \in {3, 7} => 8 \notin ck
    BY <1>0, <2>2 DEF SignedInv, NoneAhead, Here, Up, Working, Phase, Targeted
  <2>5. ~Targeted /\ ctx.stage \in {5, 7, 10} => 11 \notin ck
    BY <1>0, <2>2 DEF SignedInv, NoneAhead, Here, Up, Working, Phase, Targeted
  <2> QED BY <2>2, <2>3, <2>4, <2>5 DEF SignedInv, Signed, Targeted, Takes
<1>3. CASE Approve
  <2>0. ctx.stage # 16
    BY <1>3 DEF Approve, Phase
  <2>1. UNCHANGED req /\ ck' = ck \cup {ctx.stage}
    BY <1>3, <2>0, ApproveLeaves
  <2>2. ~req.auto => approved' = approved \cup Shown(ctx.stage)
    BY <1>3 DEF Approve
  <2>3. Shown(8) = Faces /\ Shown(11) = Frames
    BY DEF Shown
  <2> QED BY <2>1, <2>2, <2>3 DEF SignedInv, Signed, Targeted
<1>4. CASE StartRun \/ ResumeRun \/ StartTargets
  BY <1>1, <1>4, ApprovedMoves, StartRunLeaves, ResumeRunLeaves, StartTargetsLeaves DEF StartRun, ResumeRun, StartTargets, history
<1>5. CASE EnterStage \/ Reject \/ TargetsReject \/ SendBack
  BY <1>1, <1>5, EnterStageLeaves, RejectLeaves, SendBackLeaves
     DEF EnterStage, Reject, TargetsReject, Narrow, SendBack, history
<1>6. CASE StageDone \/ TargetsDone
  <2>1. pc = "work" /\ ctx.stage # 16 /\ (~Targeted => ctx.stage \notin Gates)
    BY <1>6 DEF StageDone, TargetsDone, Phase
  <2>2. Targeted => ck' = ck
    BY <1>6, <2>1, StageDoneLeaves
  <2>4. ~Targeted => ck' = ck \cup {ctx.stage}
    BY <1>6, <2>1, StageDoneLeaves
  <2>3. UNCHANGED <<req, approved>>
    BY <1>6 DEF StageDone, TargetsDone, history
  <2> QED BY <1>1, <2>1, <2>2, <2>3, <2>4
<1>7. CASE Pass \/ TargetsPass
  <2>1. ctx.stage # 16 /\ (~Targeted => ctx.stage \in Critiques)
    BY <1>7 DEF Pass, TargetsPass, Phase
  <2>2. Targeted => ck' = ck
    BY <1>7, <2>1, PassLeaves
  <2>4. ~Targeted => ck' = ck \cup {ctx.stage}
    BY <1>7, <2>1, PassLeaves
  <2>3. UNCHANGED <<req, approved>>
    BY <1>7 DEF Pass, TargetsPass, history
  <2> QED BY <1>1, <2>1, <2>2, <2>3, <2>4
<1>8. CASE RequestChanges \/ Redo
  <2>1. UNCHANGED <<req, ck, approved>>
    BY <1>8 DEF RequestChanges, Redo, history
  <2> QED BY <1>1, <2>1
<1>9. CASE RedoDone
  <2>1. pc = "redo" /\ UNCHANGED req /\ ck' = ck \cup {ctx.stage}
    BY <1>9, RedoDoneLeaves
  <2>2. ctx.stage \notin {8, 11}
    BY <1>0, <2>1 DEF Phase
  <2>3. UNCHANGED approved
    BY <1>9 DEF RedoDone
  <2> QED BY <1>1, <2>1, <2>2, <2>3
<1>10. CASE RedoFails
  BY <1>1, <1>10, RedoFailsLeaves DEF RedoFails
<1>11. CASE Complete \/ TargetsComplete \/ StageFails \/ TargetsFail \/ Crash \/ CancelRun \/ FinishCancelled
  <2>1. UNCHANGED <<req, ck>>
    BY <1>11, CompleteLeaves, FailsLeaves, CancelLeaves
  <2>2. UNCHANGED approved
    BY <1>11 DEF Complete, TargetsComplete, StageFails, TargetsFail, Crash, Down, CancelRun, FinishCancelled, history
  <2> QED BY <1>1, <2>1, <2>2
<1>12. CASE UNCHANGED vars
  BY <1>1, <1>12 DEF vars, db, history
<1> QED BY <1>2, <1>3, <1>4, <1>5, <1>6, <1>7, <1>8, <1>9, <1>10, <1>11, <1>12 DEF Next, Step

LEMMA SignedInit == Init => SignedInv
<1> SUFFICES ASSUME Init PROVE SignedInv
  OBVIOUS
<1>1. ctx.todo = {} /\ ck = {} /\ pc = "down"
  BY DEF Init, Idle
<1> QED BY <1>1 DEF SignedInv, KindStage, NoneAhead, Signed, Up

LEMMA SignedAlways == Spec => []SignedInv
<1>1. IInv /\ SignedInv /\ [Next]_vars => SignedInv'
  BY KindStageNext, NoneAheadNext, SignedNext DEF SignedInv
<1> QED BY <1>1, SignedInit, Invariant, PTL DEF Spec

\* A person who is asked at the gates pays for a keyframe or a clip only after
\* approving the images it is made from as they are: no review, redo, crash or
\* resume lets an approval outlive what it was given for.
THEOREM ApprovedBeforeUse == Spec => MadeFromApproved
<1>1. ASSUME IInv, SignedInv
      PROVE  ~Targeted /\ ~req.auto =>
                \A a \in Frames \cup Clips : Makes(a) => Basis(a) \cap Media \subseteq approved
  <2> SUFFICES ASSUME ~Targeted, ~req.auto, NEW a \in Frames \cup Clips, Makes(a)
               PROVE  Basis(a) \cap Media \subseteq approved
    OBVIOUS
  <2>1. pc \in Working /\ a \in ctx.todo
    BY DEF Makes
  <2>2. Stands(req.start, ck, ctx.stage)
    BY <1>1, <2>1 DEF IInv, StageInv, Position, Up, Working
  <2>0. req.start = 1
    BY <1>1 DEF IInv, StageInv, Shape, Phase
  <2>3. \A s \in Shots : {Face(c) : c \in Cast[s]} \subseteq Faces
    BY CastAssumption DEF Faces
  <2>4. Outline \notin Media /\ Sheet \notin Media /\ Board \notin Media
    BY Kinds DEF Media
  <2>5. CASE a \in Frames
    <3>1. ctx.stage = 10
      BY <1>1, <2>1, <2>5 DEF SignedInv, KindStage
    <3>2. Faces \subseteq approved
      BY <1>1, <2>0, <2>2, <3>1 DEF Stands, SignedInv, Signed
    <3>3. PICK s \in Shots : a = Frame(s)
      BY <2>5 DEF Frames
    <3>4. a[2] = s
      BY <3>3 DEF Frame
    <3>5. Basis(a) = {Outline, Sheet, Board} \cup {Face(c) : c \in Cast[s]}
      BY <2>5, <3>4, Kinds DEF Basis
    <3> QED BY <2>3, <2>4, <3>2, <3>5
  <2>6. CASE a \in Clips
    <3>1. ctx.stage = 13
      BY <1>1, <2>1, <2>6 DEF SignedInv, KindStage
    <3>2. Faces \subseteq approved /\ Frames \subseteq approved
      BY <1>1, <2>0, <2>2, <3>1 DEF Stands, SignedInv, Signed
    <3>3. PICK s \in Shots : a = Clip(s)
      BY <2>6 DEF Clips
    <3>4. a[2] = s
      BY <3>3 DEF Clip
    <3>5. Basis(a) = {Outline, Sheet, Board, Frame(s)} \cup {Face(c) : c \in Cast[s]}
      BY <2>6, <3>4, Kinds DEF Basis
    <3>6. Frame(s) \in Frames
      BY DEF Frames
    <3> QED BY <2>3, <2>4, <3>2, <3>5, <3>6
  <2> QED BY <2>5, <2>6
<1> QED BY <1>1, SignedAlways, Invariant, PTL DEF Spec, MadeFromApproved

-----------------------------------------------------------------------------
(* One drawing for one demand.  What was drawn has its target checkpoint, or  *)
(* was drawn by a redo that a crash cut short; a request in the row has its   *)
(* targets drawn only by its own redo, because from the crash on the run      *)
(* comes back to the gate it was made at before it draws anything.            *)

\* The last checkpoint is the one before a gate, or the last gate's own.
BeforeGate(set) ==
    \E l \in set : (\A t \in set : t <= l) /\ (l = 15 \/ l + 1 \in Gates)

Demands ==
    /\ spent \subseteq Media /\ spent \subseteq tck \cup lost
    /\ ask.open /\ pc \notin {"redo", "over"} => ask.ids \cap spent \subseteq lost

AskedAtGate ==
    ask.open =>
        /\ ~Targeted /\ BeforeGate(ck)
        /\ pc \notin {"critique", "sendback"}
        /\ pc \in {"loop", "work"} => ctx.stage \in Gates \/ (ctx.stage = 14 /\ 15 \in ck)

LEMMA LostMoves ==
    ASSUME [Next]_vars
    PROVE  lost' = lost \/ Crash \/ Make
<1> USE DEF history
<1>1. CASE StartRun \/ ResumeRun \/ StartTargets
  BY <1>1 DEF StartRun, ResumeRun, StartTargets
<1>2. CASE EnterStage \/ StageDone \/ TargetsDone \/ Pass \/ TargetsPass \/ SendBack
  BY <1>2 DEF EnterStage, StageDone, TargetsDone, Pass, TargetsPass, SendBack
<1>3. CASE Reject \/ TargetsReject
  BY <1>3 DEF Reject, TargetsReject, Narrow
<1>4. CASE Approve \/ RequestChanges \/ Redo \/ RedoDone \/ RedoFails
  BY <1>4 DEF Approve, RequestChanges, Redo, RedoDone, RedoFails
<1>5. CASE Complete \/ TargetsComplete \/ FinishCancelled \/ CancelRun
  BY <1>5 DEF Complete, TargetsComplete, FinishCancelled, CancelRun
<1>6. CASE StageFails \/ TargetsFail
  BY <1>6 DEF StageFails, TargetsFail, Down
<1>7. CASE UNCHANGED vars
  BY <1>7 DEF vars
<1> QED BY <1>1, <1>2, <1>3, <1>4, <1>5, <1>6, <1>7 DEF Next, Step

\* A checkpoint that is not past the last one leaves it the last.
LEMMA StillBefore ==
    ASSUME NEW set \in SUBSET (1..15), NEW s \in 1..15, NEW t \in set, s <= t, BeforeGate(set)
    PROVE  BeforeGate(set \cup {s})
<1>1. PICK l \in set : (\A x \in set : x <= l) /\ (l = 15 \/ l + 1 \in Gates)
  BY DEF BeforeGate
<1>2. t <= l /\ l \in 1..15 /\ t \in 1..15
  BY <1>1
<1>3. \A x \in set \cup {s} : x <= l
  BY <1>1, <1>2
<1> QED BY <1>1, <1>3 DEF BeforeGate

LEMMA AskedNext == ASSUME IInv, NoneAhead, AskedAtGate, [Next]_vars PROVE AskedAtGate'
<1> USE DEF IInv, StageInv
<1>0. /\ ck \subseteq 1..15 /\ ctx.stage \in 1..16 /\ ctx.gate \in 1..16
      /\ \A t \in ck : t \in 1..15
  BY Types DEF Shape
<1>1. CASE ~ask'.open
  BY <1>1 DEF AskedAtGate
<1>2. CASE /\ UNCHANGED <<req, ask, ck>> /\ pc' \in {"gate", "redo", "down", "over"}
  BY <1>2 DEF AskedAtGate, Targeted
<1>3. CASE UNCHANGED <<req, ask, ck, pc>> /\ ctx'.stage = ctx.stage
  BY <1>3 DEF AskedAtGate, Targeted
<1>4. CASE StartRun
  <2>1. ck = {} /\ ask' = ask
    BY <1>4, StartRunLeaves DEF StartRun, Phase
  <2> QED BY <1>1, <2>1 DEF AskedAtGate, BeforeGate
<1>5. CASE ResumeRun
  <2>1. UNCHANGED <<req, ck, ask>> /\ ck # {} /\ ~Targeted
    BY <1>5, ResumeRunLeaves
  <2>2. LastCompleted \in ck /\ \A t \in ck : t <= LastCompleted
    BY <2>1, LastIsLast
  <2>3. ask.open => LastCompleted = 15 \/ LastCompleted + 1 \in Gates
    BY <1>0, <2>2 DEF AskedAtGate, BeforeGate
  <2>4. \/ LastCompleted < 15 /\ pc' = "loop" /\ ctx'.stage = LastCompleted + 1
        \/ LastCompleted = 15 /\ pc' = "loop" /\ ctx'.stage = 14
        \/ pc' = "over"
    BY <1>5, ResumeRunLeaves DEF Begun
  <2> QED BY <1>2, <2>1, <2>2, <2>3, <2>4 DEF AskedAtGate, Targeted
<1>6. CASE StartTargets \/ TargetsPass \/ TargetsReject \/ TargetsDone \/ TargetsComplete
           \/ TargetsFail
  <2>1. Targeted /\ ask' = ask
    BY <1>6 DEF StartTargets, TargetsPass, TargetsReject, TargetsDone, TargetsComplete,
                TargetsFail, Narrow, Down, db
  <2> QED BY <1>1, <2>1 DEF AskedAtGate
<1>7. CASE EnterStage
  <2>1. UNCHANGED <<req, ck, ask>> /\ pc = "loop" /\ ctx'.stage = ctx.stage
        /\ \/ pc' = "gate"
           \/ (pc' = "critique" /\ ctx.stage \in Critiques)
           \/ (pc' = "work" /\ ctx.stage \notin Gates)
    BY <1>7, EnterStageLeaves
  <2> QED BY <1>2, <2>1 DEF AskedAtGate, Targeted
<1>8. CASE StageDone
  <2>1. pc = "work" /\ ctx.stage \notin Gates /\ ctx.stage # 16 /\ ~Targeted
    BY <1>8 DEF StageDone, Phase
  <2>2. /\ UNCHANGED <<req, ask>> /\ ck' = ck \cup {ctx.stage} /\ pc' = "loop"
        /\ ctx'.stage = ctx.stage + 1
    BY <1>8, <2>1, StageDoneLeaves
  <2>3. CASE ask.open
    <3>1. ctx.stage = 14 /\ 15 \in ck /\ BeforeGate(ck)
      BY <2>1, <2>3 DEF AskedAtGate
    <3>3. ck \in SUBSET (1..15) /\ 14 \in 1..15 /\ 14 <= 15 /\ ck' = ck \cup {14}
      BY <1>0, <2>2, <3>1
    <3>2. BeforeGate(ck')
      BY <3>1, <3>3, StillBefore
    <3> QED BY <2>1, <2>2, <3>1, <3>2 DEF AskedAtGate, Targeted
  <2> QED BY <1>1, <2>2, <2>3
<1>9. CASE Pass \/ Reject \/ SendBack \/ Approve
  <2>1. ~ask.open
    BY <1>9 DEF Pass, Reject, SendBack, Approve, AskedAtGate
  <2>2. ask' = ask
    BY <1>9 DEF Pass, Reject, Narrow, SendBack, Approve
  <2> QED BY <1>1, <2>1, <2>2
<1>10. CASE Make
  <2>1. PICK a \in Artifact : CommitsOne(a)
    BY <1>10, MakeCommits
  <2> QED BY <1>3, <2>1, MakeLeaves
<1>11. CASE RequestChanges
  <2>1. pc = "gate" /\ ctx.stage \in Gates /\ ~Targeted /\ ~req.auto
        /\ UNCHANGED <<req, ck, pc, ctx>>
    BY <1>11, RequestChangesLeaves DEF RequestChanges, Phase
  <2>2. req.start = 1 /\ Stands(req.start, ck, ctx.stage)
    BY <2>1 DEF Phase, Shape, Position, Up
  <2>3. ctx.stage - 1 \in ck
    BY <2>1, <2>2 DEF Stands
  <2>4. BeforeGate(ck)
    <3>1. CASE ctx.stage = 15 /\ 15 \in ck
      BY <1>0, <3>1 DEF BeforeGate
    <3>2. CASE ctx.stage = 15 /\ 15 \notin ck
      <4>1. \A t \in ck : t <= 14
        BY <1>0, <3>2
      <4> QED BY <2>3, <3>2, <4>1 DEF BeforeGate
    <3>3. CASE ctx.stage # 15
      <4>1. \A t \in ck : t < ctx.stage
        BY <2>1, <3>3 DEF NoneAhead, Here, Up
      <4>2. \A t \in ck : t <= ctx.stage - 1
        BY <1>0, <4>1
      <4> QED BY <2>1, <2>3, <4>2 DEF BeforeGate
    <3> QED BY <3>1, <3>2, <3>3
  <2> QED BY <2>1, <2>4 DEF AskedAtGate, Targeted
<1>12. CASE Redo
  <2>1. ctx.stage \in Gates
    BY <1>12 DEF Redo, Phase
  <2> QED BY <1>2, <1>12, <2>1, RedoLeaves
<1>13. CASE RedoDone
  <2>1. /\ UNCHANGED req /\ pc = "redo" /\ ck' = ck \cup {ctx.stage}
        /\ ask' = NoAsk \/ (ask' = ask /\ pc' = "redo")
    BY <1>13, RedoDoneLeaves
  <2>2. CASE ask' = ask /\ pc' = "redo" /\ ask.open
    <3>1. /\ ctx.gate \in Gates /\ ~Targeted /\ req.start = 1 /\ Stands(req.start, ck, ctx.gate)
          /\ ctx.stage <= ctx.gate - 1 /\ ctx.stage \in 1..15
      BY <1>0, <2>1, <2>2 DEF Phase, Shape, Position, Up
    <3>2. ctx.gate - 1 \in ck
      BY <3>1 DEF Stands
    <3>3. BeforeGate(ck')
      <4> DEFINE g == ctx.gate - 1
      <4>1. g \in ck /\ ctx.stage <= g /\ BeforeGate(ck)
        BY <2>2, <3>1, <3>2 DEF AskedAtGate
      <4> HIDE DEF g
      <4> QED BY <1>0, <2>1, <3>1, <4>1, StillBefore
    <3> QED BY <2>1, <2>2, <3>1, <3>3 DEF AskedAtGate, Targeted
  <2> QED BY <1>1, <2>1, <2>2, NoAskShape
<1>14. CASE RedoFails
  BY <1>1, <1>14, RedoFailsLeaves, NoAskShape
<1>15. CASE Complete \/ StageFails \/ Crash \/ FinishCancelled
  <2>1. UNCHANGED <<req, ask, ck>> /\ pc' \in {"down", "over"}
    BY <1>15 DEF Complete, Succeed, StageFails, Crash, Down, FinishCancelled, db
  <2> QED BY <1>2, <2>1
<1>16. CASE CancelRun \/ UNCHANGED vars
  BY <1>3, <1>16 DEF CancelRun, vars, db
<1> QED BY <1>4, <1>5, <1>6, <1>7, <1>8, <1>9, <1>10, <1>11, <1>12, <1>13, <1>14, <1>15, <1>16
        DEF Next, Step

LEMMA DemandsNext == ASSUME IInv, AskedAtGate, Demands, [Next]_vars PROVE Demands'
<1> USE DEF IInv, StageInv
<1>0. ask.ids \subseteq Media
  BY DEF Shape
<1>1. CASE UNCHANGED <<tck, ask, spent, lost>> /\ (pc \in {"redo", "over"} => pc' \in {"redo", "over"})
  BY <1>1 DEF Demands
<1>2. CASE /\ UNCHANGED <<tck, spent, lost>> /\ ~ask'.open
  BY <1>2 DEF Demands
<1>3. CASE StartRun
  <2>1. ck = {} /\ ~Targeted /\ pc = "down"
    BY <1>3 DEF StartRun, Phase
  <2>2. tck = {} /\ UNCHANGED <<ask, spent, lost>> /\ tck' = {}
    BY <1>3, <2>1, StartRunLeaves DEF Drawn, StartRun, history
  <2> QED BY <1>1, <2>1, <2>2
<1>4. CASE ResumeRun \/ StartTargets
  BY <1>1, <1>4 DEF ResumeRun, StartTargets, db, history
<1>5. CASE EnterStage \/ StageDone \/ Pass \/ SendBack \/ TargetsDone \/ TargetsPass
           \/ TargetsComplete \/ Approve \/ Complete
  BY <1>1, <1>5 DEF EnterStage, StageDone, Pass, SendBack, TargetsDone, TargetsPass,
                    TargetsComplete, Approve, Complete, db, history
<1>6. CASE Reject \/ TargetsReject
  <2>1. pc = "critique" /\ UNCHANGED <<ask, lost>>
    BY <1>6 DEF Reject, TargetsReject, Narrow
  <2>2. PICK again \in SUBSET Media : tck' = tck \ again /\ spent' = spent \ again
    BY <1>6, RejectLeaves
  <2> QED BY <2>1, <2>2 DEF Demands, AskedAtGate
<1>7. CASE Make
  <2>1. PICK a \in Artifact : CommitsOne(a)
    BY <1>7, MakeCommits
  <2>2. /\ UNCHANGED <<req, pc, ask>> /\ pc \in Working /\ a \in ctx.todo
        /\ tck' = tck \cup ({a} \cap Media)
        /\ spent' \subseteq spent \cup ({a} \cap Media) /\ lost' = lost \ {a}
    BY <2>1 DEF CommitsOne
  <2>3. spent' \subseteq Media /\ spent' \subseteq tck' \cup lost'
    BY <2>2 DEF Demands
  <2>4. ASSUME ask.open, pc \notin {"redo", "over"} PROVE ask.ids \cap spent' \subseteq lost'
    <3>1. pc = "work"
      BY <2>2, <2>4 DEF Working
    <3>2. a \notin Media
      BY <2>2, <2>4, <3>1 DEF AskedAtGate, Phase, Drawn
    <3> QED BY <1>0, <2>2, <2>4, <3>2 DEF Demands
  <2> QED BY <2>2, <2>3, <2>4 DEF Demands
<1>8. CASE RequestChanges
  <2>1. UNCHANGED <<pc, tck>> /\ spent' = spent \ ask'.ids /\ lost' = lost
    BY <1>8, RequestChangesLeaves DEF RequestChanges
  <2> QED BY <2>1 DEF Demands
<1>9. CASE Redo
  <2>1. ctx.stage \in Gates
    BY <1>9 DEF Redo, Phase
  <2>2. /\ pc = "gate" /\ pc' = "redo" /\ ask.open /\ UNCHANGED <<ask, spent>>
        /\ tck' = tck \ ask.ids
    BY <1>9, <2>1, RedoLeaves
  <2>3. lost' = lost
    BY <1>9 DEF Redo, history
  <2> QED BY <2>2, <2>3 DEF Demands
<1>10. CASE RedoDone
  <2>1. ask' = NoAsk \/ (ask' = ask /\ pc' = "redo")
    BY <1>10, RedoDoneLeaves
  <2>2. UNCHANGED <<tck, spent, lost>>
    BY <1>10 DEF RedoDone
  <2> QED BY <1>1, <1>2, <2>1, <2>2, NoAskShape
<1>11. CASE RedoFails
  BY <1>2, <1>11, NoAskShape DEF RedoFails
<1>12. CASE StageFails \/ TargetsFail
  BY <1>1, <1>12 DEF StageFails, TargetsFail, Down, db
<1>13. CASE Crash
  <2>1. UNCHANGED <<tck, ask, spent>> /\ pc' = "down" /\ pc # "over"
        /\ lost' = IF pc = "redo" THEN lost \cup (ask.ids \cap spent) ELSE lost
    BY <1>13 DEF Crash, Down, db
  <2>2. CASE pc = "redo"
    BY <2>1, <2>2 DEF Demands
  <2>3. CASE pc # "redo"
    BY <2>1, <2>3 DEF Demands
  <2> QED BY <2>2, <2>3
<1>14. CASE CancelRun
  BY <1>1, <1>14 DEF CancelRun, db, history
<1>15. CASE FinishCancelled
  <2>1. UNCHANGED <<tck, ask, spent, lost>> /\ pc' = "over"
    BY <1>15 DEF FinishCancelled, db, history
  <2> QED BY <2>1 DEF Demands
<1>16. CASE UNCHANGED vars
  BY <1>1, <1>16 DEF vars, db, history
<1> QED BY <1>3, <1>4, <1>5, <1>6, <1>7, <1>8, <1>9, <1>10, <1>11, <1>12, <1>13, <1>14, <1>15,
           <1>16 DEF Next, Step

LEMMA AskedAlways == Spec => []AskedAtGate
<1>1. Init => AskedAtGate
  BY NoAskShape DEF Init, AskedAtGate
<1>2. IInv /\ NoneAhead /\ AskedAtGate /\ [Next]_vars => AskedAtGate'
  BY AskedNext
<1>3. SignedInv => NoneAhead
  BY DEF SignedInv
<1> QED BY <1>1, <1>2, <1>3, Invariant, SignedAlways, PTL DEF Spec

\* A resume, a retry or a redo after a failure draws what is missing and nothing
\* the run has drawn for the same demand: an image or a clip is committed at most
\* once until a review or a user asks for it again.  Only a redo that a crash cut
\* short may draw its own targets once more, because its request is kept.
THEOREM DrawsOnce == Spec => DrawnOnce
<1>1. Init => Demands
  BY NoAskShape DEF Init, Demands
<1>2. IInv /\ AskedAtGate /\ Demands /\ [Next]_vars => Demands'
  BY DemandsNext
<1>3. IInv /\ Demands => [\A a \in Media : Makes(a) => a \notin spent \ lost]_vars
  BY DEF IInv, Drawn, Demands, Makes
<1> QED BY <1>1, <1>2, <1>3, Invariant, AskedAlways, PTL DEF Spec, DrawnOnce

-----------------------------------------------------------------------------
(* What the page says of a stopped run *)

LEMMA RequestStays ==
    ASSUME [Next]_vars
    PROVE  UNCHANGED req
<1>1. CASE StartRun \/ ResumeRun \/ StartTargets \/ EnterStage \/ StageDone
  BY <1>1 DEF StartRun, ResumeRun, StartTargets, EnterStage, StageDone
<1>2. CASE Make
  BY <1>2 DEF Make, WriteOutline, PlanSheet, PlanBoard, MergeClips, DrawFace, DrawFrame, ShootClip, Commit
<1>3. CASE Pass \/ Reject \/ SendBack
  BY <1>3 DEF Pass, Reject, Narrow, SendBack
<1>4. CASE TargetsDone \/ TargetsPass \/ TargetsReject \/ TargetsComplete
  BY <1>4 DEF TargetsDone, TargetsPass, TargetsReject, Narrow, TargetsComplete
<1>5. CASE Approve \/ RequestChanges \/ Redo \/ RedoDone \/ RedoFails
  BY <1>5 DEF Approve, RequestChanges, Redo, RedoDone, RedoFails
<1>6. CASE Complete \/ FinishCancelled \/ StageFails \/ TargetsFail \/ Crash \/ CancelRun
  BY <1>6 DEF Complete, FinishCancelled, StageFails, TargetsFail, Crash, Down, CancelRun
<1>7. CASE UNCHANGED vars
  BY <1>7 DEF vars
<1> QED BY <1>1, <1>2, <1>3, <1>4, <1>5, <1>6, <1>7 DEF Next, Step

LEMMA ProductionStages ==
    \A t : t \in Production <=> t \in {1, 3, 5, 7, 10, 13, 14}
BY DEF Production

\* The production stage before any stage, and the one after.
LEMMA LastProduction ==
    ASSUME NEW n \in 1..15
    PROVE  \E s \in Production : s <= n /\ \A t \in Production : t <= n => t <= s
<1>1. CASE n \in {14, 15}
  <2>1. 14 \in Production /\ \A t \in Production : t <= 14
    BY ProductionStages
  <2> QED BY <1>1, <2>1
<1>2. CASE n \in {1, 3, 5, 7, 10, 13}
  <2>1. n \in Production
    BY <1>2, ProductionStages
  <2> QED BY <2>1
<1>3. CASE n \in {2, 4, 6, 8, 11}
  <2>1. n - 1 \in Production /\ n \notin Production
    BY <1>3, ProductionStages
  <2>2. \A t \in Production : t \in 1..15
    BY ProductionStages
  <2> QED BY <2>1, <2>2
<1>4. CASE n \in {9, 12}
  <2>1. n - 2 \in Production /\ n \notin Production /\ n - 1 \notin Production
    BY <1>4, ProductionStages
  <2>2. \A t \in Production : t \in 1..15
    BY ProductionStages
  <2> QED BY <2>1, <2>2
<1> QED BY <1>1, <1>2, <1>3, <1>4

LEMMA NextProduction ==
    ASSUME NEW s \in Production, ProductionAfter(s) # {}
    PROVE  /\ First(ProductionAfter(s)) \in ProductionAfter(s)
           /\ \A t \in ProductionAfter(s) : First(ProductionAfter(s)) <= t
<1>1. \E p \in ProductionAfter(s) : \A t \in ProductionAfter(s) : p <= t
  <2>1. CASE s = 14
    BY <2>1, ProductionStages DEF ProductionAfter
  <2>2. CASE s = 13
    <3>1. 14 \in ProductionAfter(s) /\ \A t \in ProductionAfter(s) : 14 <= t
      BY <2>2, ProductionStages DEF ProductionAfter
    <3> QED BY <3>1
  <2>3. CASE s = 10
    <3>1. 13 \in ProductionAfter(s) /\ \A t \in ProductionAfter(s) : 13 <= t
      BY <2>3, ProductionStages DEF ProductionAfter
    <3> QED BY <3>1
  <2>4. CASE s = 7
    <3>1. 10 \in ProductionAfter(s) /\ \A t \in ProductionAfter(s) : 10 <= t
      BY <2>4, ProductionStages DEF ProductionAfter
    <3> QED BY <3>1
  <2>5. CASE s \in {1, 3, 5}
    <3>1. s + 2 \in ProductionAfter(s) /\ \A t \in ProductionAfter(s) : s + 2 <= t
      BY <2>5, ProductionStages DEF ProductionAfter
    <3> QED BY <3>1
  <2> QED BY <2>1, <2>2, <2>3, <2>4, <2>5, ProductionStages
<1> QED BY <1>1 DEF First

\* A failed or stopped full run is taken up again where its page says: the
\* page infers the stage from the checkpoints of production stages only, the
\* engine from all of them, and no hole keeps the two together.
THEOREM PageTellsTheTruth == Spec => []ResumesWhereShown
<1>1. ASSUME IInv, ValidCommand(req) PROVE ResumesWhereShown
  <2> SUFFICES ASSUME pc = "down", ~Targeted, run.status \in {"running", "failed"}, ck # {},
                      NEW card \in CardsLeft
               PROVE  LET summary == RecoverySummary(card) IN
                 /\ "resume" \in AvailableActions(summary)
                 /\ summary.current >= ResumesAt \/ ProductionAfter(ResumesAt - 1) = {}
                 /\ summary.preserved \cap From(ResumesAt) = {}
                 /\ (Production \cap From(req.start)) \ From(ResumesAt)
                       \subseteq summary.preserved \cup {summary.current}
    BY DEF ResumesWhereShown
  <2> DEFINE last == LastCompleted
             current == CurrentStage(card)
             preserved == PreservedStages(card)
  <2>0. req.start \in {1, 14}
    BY <1>1 DEF IInv, StageInv, Shape
  <2>1. /\ last \in 1..15 /\ req.start <= last
        /\ \A t \in 1..15 : t \in ck <=> req.start <= t /\ t <= last
    <3>1. last \in ck /\ \A t \in ck : t <= last
      BY <1>1, LastIsLast DEF IInv, StageInv
    <3>2. /\ ck \subseteq 1..15 /\ Stands(req.start, ck, last)
          /\ \A t \in ck : req.start <= t
      BY <1>1, <3>1 DEF IInv, StageInv, Shape, NoHole
    <3> QED BY <3>1, <3>2 DEF Stands
  <2>2. \A t : t \in CompletedStages <=> t \in Production /\ req.start <= t /\ t <= last
    BY <2>1, ProductionStages DEF CompletedStages
  <2>3. "resume" \in AvailableActions(RecoverySummary(card))
    BY <1>1 DEF AvailableActions, RecoverySummary
  <2>4. ResumesAt = IF last = 15 THEN 14 ELSE last + 1
    BY DEF ResumesAt, Next1
  <2>5. \A t : t \in preserved <=>
               t \in Production /\ req.start <= t /\ t <= last /\ t # current
    BY <2>2 DEF PreservedStages
  <2>6. /\ current \in 1..15
        /\ current >= ResumesAt \/ (last = 14 /\ current = 14)
        /\ last = 15 => current = 14
    <3>1. CASE card # 16
      <4>1. card = last + 1 /\ card \in Gates
        BY <3>1 DEF CardsLeft, Next1
      <4>2. current = last + 1
        BY <3>1, <4>1 DEF CurrentStage
      <4> QED BY <2>1, <2>4, <4>1, <4>2
    <3>2. CASE card = 16
      <4>1. current = InferCurrentStage
        BY <3>2 DEF CurrentStage
      <4> DEFINE done == Last(CompletedStages)
      <4>2. done \in CompletedStages /\ \A t \in CompletedStages : t <= done
        <5>1. \E s \in CompletedStages : \A t \in CompletedStages : t <= s
          <6>1. PICK s \in Production : s <= last /\ \A t \in Production : t <= last => t <= s
            BY <2>1, LastProduction
          <6>2. req.start <= s
            BY <2>0, <2>1, <6>1, ProductionStages
          <6> QED BY <2>2, <6>1, <6>2
        <5> QED BY <5>1 DEF Last
      <4>3. done \in Production /\ done <= last /\ \A t \in Production : t <= last => t <= done
        <5>1. \A t \in Production : t <= last => t <= done
          <6> SUFFICES ASSUME NEW t \in Production, t <= last PROVE t <= done
            OBVIOUS
          <6>1. req.start <= t => t <= done
            BY <2>2, <4>2
          <6>2. done \in Production /\ req.start <= done
            BY <2>2, <4>2
          <6> QED BY <2>0, <6>1, <6>2, ProductionStages
        <5> QED BY <2>2, <4>2, <5>1
      <4>4. current = IF ProductionAfter(done) = {} THEN done ELSE First(ProductionAfter(done))
        BY <4>1, <4>2 DEF InferCurrentStage
      <4> HIDE DEF done, last, current
      <4>5. CASE ProductionAfter(done) = {}
        <5>1. done = 14
          <6>1. 14 \notin ProductionAfter(done)
            BY <4>5
          <6> QED BY <4>3, <6>1, ProductionStages DEF ProductionAfter
        <5>2. current = 14 /\ last \in {14, 15}
          BY <2>1, <4>3, <4>4, <4>5, <5>1
        <5> QED BY <2>4, <5>2
      <4>6. CASE ProductionAfter(done) # {}
        <5>1. current \in ProductionAfter(done)
          BY <4>3, <4>4, <4>6, NextProduction
        <5>2. current \in Production /\ done < current
          BY <5>1 DEF ProductionAfter
        <5>3. last < current
          BY <2>1, <4>3, <5>2, ProductionStages
        <5>4. current \in 1..15 /\ current >= ResumesAt /\ last # 15
          BY <2>1, <2>4, <5>2, <5>3, ProductionStages
        <5> QED BY <5>4
      <4> QED BY <4>5, <4>6
    <3> QED BY <3>1, <3>2
  <2>7. RecoverySummary(card).current = current /\ RecoverySummary(card).preserved = preserved
    BY DEF RecoverySummary
  <2> HIDE DEF last, current, preserved
  <2>8. current >= ResumesAt \/ ProductionAfter(ResumesAt - 1) = {}
    BY <2>4, <2>5, <2>6, ProductionStages DEF ProductionAfter
  <2>9. preserved \cap From(ResumesAt) = {}
    BY <2>1, <2>4, <2>5, <2>6, ProductionStages DEF From
  <2>10. (Production \cap From(req.start)) \ From(ResumesAt) \subseteq preserved \cup {current}
    BY <2>1, <2>4, <2>5, <2>6, ProductionStages DEF From
  <2> QED BY <2>3, <2>7, <2>8, <2>9, <2>10
<1>2. Init => ValidCommand(req)
  BY DEF Init, Sent
<1>3. ValidCommand(req) /\ [Next]_vars => ValidCommand(req)'
  BY RequestStays DEF ValidCommand
<1> QED BY <1>1, <1>2, <1>3, Invariant, PTL DEF Spec

-----------------------------------------------------------------------------
(* A redraw of single artifacts *)

LEMMA BasisOf ==
    /\ Basis(Outline) = {}
    /\ Basis(Sheet) = {Outline}
    /\ Basis(Board) = {Outline, Sheet}
    /\ \A c \in Characters : Basis(Face(c)) = {Outline, Sheet}
    /\ \A s \in Shots : Basis(Frame(s)) = {Outline, Sheet, Board} \cup {Face(c) : c \in Cast[s]}
    /\ \A s \in Shots : Basis(Clip(s)) = {Outline, Sheet, Board, Frame(s)}
                                         \cup {Face(c) : c \in Cast[s]}
<1>1. Basis(Outline) = {} /\ Basis(Sheet) = {Outline} /\ Basis(Board) = {Outline, Sheet}
  BY Kinds DEF Basis
<1>2. \A c \in Characters : Basis(Face(c)) = {Outline, Sheet}
  BY Kinds DEF Basis, Faces
<1>3. ASSUME NEW s \in Shots
      PROVE  Basis(Frame(s)) = {Outline, Sheet, Board} \cup {Face(c) : c \in Cast[s]}
  <2>1. Frame(s) \in Frames /\ Frame(s)[2] = s
    BY DEF Frames, Frame
  <2> QED BY <2>1, Kinds DEF Basis
<1>4. ASSUME NEW s \in Shots
      PROVE  Basis(Clip(s)) = {Outline, Sheet, Board, Frame(s)} \cup {Face(c) : c \in Cast[s]}
  <2>1. Clip(s) \in Clips /\ Clip(s)[2] = s
    BY DEF Clips, Clip
  <2> QED BY <2>1, Kinds DEF Basis
<1> QED BY <1>1, <1>2, <1>3, <1>4

\* Nothing but the final video is made from a clip or from the final video.
LEMMA BasisInside ==
    \A a \in Artifact \ {Cut} : Basis(a) \subseteq {Outline, Sheet, Board} \cup Faces \cup Frames
<1>1. \A s \in Shots : {Face(c) : c \in Cast[s]} \subseteq Faces /\ Frame(s) \in Frames
  BY CastAssumption DEF Faces, Frames
<1>2. \A c \in Characters : Basis(Face(c)) \subseteq {Outline, Sheet}
  BY BasisOf
<1>3. \A s \in Shots : Basis(Frame(s)) \subseteq {Outline, Sheet, Board} \cup Faces
  BY <1>1, BasisOf
<1>4. \A s \in Shots : Basis(Clip(s)) \subseteq {Outline, Sheet, Board} \cup Faces \cup Frames
  BY <1>1, BasisOf
<1> QED BY <1>2, <1>3, <1>4, BasisOf DEF Artifact, Media, Faces, Frames, Clips

LEMMA CutApart == \A a \in Artifact \ {Cut} : Cut \notin Basis(a)
BY BasisInside, Kinds

\* A commit that deletes what is made from the new artifact, the final video
\* excepted, makes nothing else stale, and the new artifact is fresh.
LEMMA NothingElseStale ==
    ASSUME NEW new, NEW gone, Basis(new) \cap stale = {},
           \A a \in Artifact \ ({Cut, new} \cup gone) : Basis(a) \cap ({new} \cup gone) = {},
           have \subseteq Artifact
    PROVE  StaleAfter({new}, gone) \subseteq (stale \ {new}) \cup {Cut}
BY DEF StaleAfter

LEMMA Distinct ==
    /\ \A c, d \in Characters : Face(c) = Face(d) => c = d
    /\ \A s, t \in Shots : (Frame(s) = Frame(t) => s = t) /\ (Clip(s) = Clip(t) => s = t)
    /\ Media = {Face(c) : c \in Characters} \cup {Frame(s) : s \in Shots} \cup {Clip(s) : s \in Shots}
BY DEF Face, Frame, Clip, Media, Faces, Frames, Clips

LEMMA FaceMade ==
    ASSUME NEW c \in Characters, DrawFace(c), have \subseteq Artifact, Basis(Face(c)) \cap stale = {}
    PROVE  stale' \subseteq (stale \ {Face(c)}) \cup {Cut}
<1> DEFINE gone == UNION {{Frame(s), Clip(s)} : s \in ShotsOf(c)}
<1>1. stale' = StaleAfter({Face(c)}, gone)
  BY DEF DrawFace, Commit
<1>2. Face(c) \in Faces
  BY DEF Faces
<1>4. ASSUME NEW s \in Shots, Frame(s) \notin gone \/ Clip(s) \notin gone
      PROVE  c \notin Cast[s] /\ Frame(s) \notin gone
  <2>1. s \notin ShotsOf(c)
    BY <1>4
  <2>2. \A t \in ShotsOf(c) : t \in Shots
    BY DEF ShotsOf
  <2>3. Frame(s) \notin gone
    <3>1. \A t \in Shots : Frame(s) # Clip(t) /\ (Frame(s) = Frame(t) => s = t)
      BY Distinct, Kinds DEF Frames, Clips
    <3> QED BY <2>1, <2>2, <3>1
  <2> QED BY <2>1, <2>3 DEF ShotsOf
<1>5. \A a \in gone : a \in Frames \cup Clips
  BY DEF ShotsOf, Frames, Clips
<1>6. ASSUME NEW a \in Artifact \ ({Cut, Face(c)} \cup gone)
      PROVE  Basis(a) \cap ({Face(c)} \cup gone) = {}
  <2> HIDE DEF gone
  <2>1. CASE a \in {Outline, Sheet, Board}
    BY <2>1, <1>2, <1>5, BasisOf, Kinds
  <2>2. CASE a \in Faces
    BY <2>2, <1>2, <1>5, BasisOf, Kinds DEF Faces
  <2>3. CASE a \in Frames
    <3>1. PICK s \in Shots : a = Frame(s)
      BY <2>3 DEF Frames
    <3>2. Face(c) \notin {Face(d) : d \in Cast[s]}
      BY <1>4, <3>1, Distinct, CastAssumption
    <3>3. {Face(d) : d \in Cast[s]} \subseteq Faces
      BY CastAssumption DEF Faces
    <3> QED BY <3>1, <3>2, <3>3, <1>2, <1>5, BasisOf, Kinds
  <2>4. CASE a \in Clips
    <3>1. PICK s \in Shots : a = Clip(s)
      BY <2>4 DEF Clips
    <3>2. Face(c) \notin {Face(d) : d \in Cast[s]} /\ Frame(s) \notin gone
      BY <1>4, <3>1, Distinct, CastAssumption
    <3>3. {Face(d) : d \in Cast[s]} \subseteq Faces
      BY CastAssumption DEF Faces
    <3>4. Frame(s) \in Frames
      BY DEF Frames
    <3>5. Basis(a) = {Outline, Sheet, Board, Frame(s)} \cup {Face(d) : d \in Cast[s]}
      BY <3>1, BasisOf
    <3> QED BY <3>2, <3>3, <3>4, <3>5, <1>2, <1>5, Kinds
  <2> QED BY <2>1, <2>2, <2>3, <2>4 DEF Artifact, Media
<1> HIDE DEF gone
<1> QED BY <1>1, <1>6, NothingElseStale

LEMMA FrameMade ==
    ASSUME NEW s \in Shots, DrawFrame(s), have \subseteq Artifact, Basis(Frame(s)) \cap stale = {}
    PROVE  stale' \subseteq (stale \ {Frame(s)}) \cup {Cut}
<1>1. stale' = StaleAfter({Frame(s)}, {Clip(s)})
  BY DEF DrawFrame, ClipOf, Commit
<1>2. Frame(s) \in Frames /\ Clip(s) \in Clips
  BY DEF Frames, Clips
<1>4. ASSUME NEW a \in Artifact \ ({Cut, Frame(s)} \cup {Clip(s)})
      PROVE  Basis(a) \cap ({Frame(s)} \cup {Clip(s)}) = {}
  <2>1. CASE a \in {Outline, Sheet, Board}
    BY <2>1, <1>2, BasisOf, Kinds
  <2>2. CASE a \in Faces
    BY <2>2, <1>2, BasisOf, Kinds DEF Faces
  <2>3. ASSUME NEW t \in Shots, a = Frame(t) \/ a = Clip(t)
        PROVE  Basis(a) \cap {Frame(s), Clip(s)} = {}
    <3>1. {Face(d) : d \in Cast[t]} \subseteq Faces
      BY CastAssumption DEF Faces
    <3>2. Frame(t) \in Frames /\ (a = Clip(t) => Frame(t) # Frame(s))
      BY Distinct DEF Frames
    <3>3. \/ Basis(a) = {Outline, Sheet, Board} \cup {Face(d) : d \in Cast[t]}
          \/ /\ Basis(a) = {Outline, Sheet, Board, Frame(t)} \cup {Face(d) : d \in Cast[t]}
             /\ Frame(t) # Frame(s)
      BY <2>3, <3>2, BasisOf
    <3> QED BY <1>2, <3>1, <3>2, <3>3, Kinds
  <2> QED BY <2>1, <2>2, <2>3 DEF Artifact, Media, Frames, Clips
<1> QED BY <1>1, <1>4, NothingElseStale

LEMMA ClipMade ==
    ASSUME NEW s \in Shots, ShootClip(s), have \subseteq Artifact, Basis(Clip(s)) \cap stale = {}
    PROVE  stale' \subseteq (stale \ {Clip(s)}) \cup {Cut}
<1>1. stale' = StaleAfter({Clip(s)}, {})
  BY DEF ShootClip, Commit
<1>2. Clip(s) \in Clips
  BY DEF Clips
<1>4. \A a \in Artifact \ ({Cut, Clip(s)} \cup {}) : Basis(a) \cap ({Clip(s)} \cup {}) = {}
  BY <1>2, BasisInside, Kinds
<1> QED BY <1>1, <1>4, NothingElseStale

LEMMA TargetedMake ==
    ASSUME IInv, KindStage, Targeted, Make, have \subseteq Artifact, stale \subseteq {Cut}
    PROVE  stale' \subseteq {Cut}
<1>1. ctx.stage \in {7, 10, 13, 16}
  BY DEF IInv, StageInv, Phase
<1>2. CASE WriteOutline \/ PlanSheet \/ PlanBoard
  <2>1. Outline \in ctx.todo \/ Sheet \in ctx.todo \/ Board \in ctx.todo
    BY <1>2 DEF WriteOutline, PlanSheet, PlanBoard, Commit
  <2> QED BY <1>1, <2>1 DEF KindStage
<1>3. CASE MergeClips
  <2>1. stale' = StaleAfter({Cut}, {})
    BY <1>3 DEF MergeClips, Commit
  <2>2. \A a \in Artifact \ {Cut} : Cut \notin Basis(a)
    BY BasisOf, CutApart
  <2> QED BY <2>1, <2>2 DEF StaleAfter
<1>4. ASSUME NEW c \in Characters, DrawFace(c) PROVE stale' \subseteq {Cut}
  <2>1. Cut \notin Basis(Face(c))
    BY BasisOf, Kinds
  <2> QED BY <1>4, <2>1, FaceMade
<1>5. ASSUME NEW s \in Shots, DrawFrame(s) PROVE stale' \subseteq {Cut}
  <2>1. Cut \notin Basis(Frame(s))
    BY BasisOf, CastAssumption, Kinds DEF Faces
  <2> QED BY <1>5, <2>1, FrameMade
<1>6. ASSUME NEW s \in Shots, ShootClip(s) PROVE stale' \subseteq {Cut}
  <2>1. Cut \notin Basis(Clip(s))
    BY BasisOf, CastAssumption, Kinds DEF Faces, Frames
  <2> QED BY <1>6, <2>1, ClipMade
<1> QED BY <1>2, <1>3, <1>4, <1>5, <1>6 DEF Make

LEMMA StaleMoves ==
    ASSUME [Next]_vars
    PROVE  UNCHANGED <<have, stale>> \/ Make
<1> USE DEF history
<1>1. CASE StartRun \/ ResumeRun \/ StartTargets
  BY <1>1 DEF StartRun, ResumeRun, StartTargets
<1>2. CASE EnterStage \/ StageDone \/ TargetsDone \/ Pass \/ TargetsPass \/ SendBack \/ Approve
  BY <1>2 DEF EnterStage, StageDone, TargetsDone, Pass, TargetsPass, SendBack, Approve
<1>3. CASE Reject \/ TargetsReject
  BY <1>3 DEF Reject, TargetsReject, Narrow
<1>4. CASE RequestChanges \/ Redo \/ RedoDone \/ RedoFails
  BY <1>4 DEF RequestChanges, Redo, RedoDone, RedoFails
<1>5. CASE Complete \/ TargetsComplete \/ FinishCancelled \/ CancelRun
  BY <1>5 DEF Complete, TargetsComplete, FinishCancelled, CancelRun
<1>6. CASE StageFails \/ TargetsFail \/ Crash
  BY <1>6 DEF StageFails, TargetsFail, Crash, Down
<1>7. CASE UNCHANGED vars
  BY <1>7 DEF vars
<1> QED BY <1>1, <1>2, <1>3, <1>4, <1>5, <1>6, <1>7 DEF Next, Step

Derived == have \subseteq Artifact /\ stale \subseteq have /\ RedrawDropsDerived

LEMMA DerivedNext == ASSUME IInv, KindStage, Derived, [Next]_vars PROVE Derived'
<1>1. have' \subseteq Artifact /\ stale' \subseteq have'
  <2>1. CASE Make
    <3>1. ASSUME NEW a \in Artifact, NEW gone, NEW done, NEW p, Commit(a, gone, done, p)
          PROVE  have' \subseteq Artifact /\ stale' \subseteq have'
      BY <3>1 DEF Commit, Derived, StaleAfter
    <3>2. CASE WriteOutline \/ PlanSheet \/ PlanBoard \/ MergeClips
      <4>1. {Outline, Sheet, Board, Cut} \subseteq Artifact
        BY DEF Artifact
      <4> QED BY <3>1, <3>2, <4>1 DEF WriteOutline, PlanSheet, PlanBoard, MergeClips
    <3>3. ASSUME NEW c \in Characters, DrawFace(c) PROVE have' \subseteq Artifact /\ stale' \subseteq have'
      <4>1. Face(c) \in Artifact
        BY DEF Artifact, Media, Faces
      <4> QED BY <3>1, <3>3, <4>1 DEF DrawFace
    <3>4. ASSUME NEW s \in Shots, DrawFrame(s) \/ ShootClip(s) PROVE have' \subseteq Artifact /\ stale' \subseteq have'
      <4>1. Frame(s) \in Artifact /\ Clip(s) \in Artifact
        BY DEF Artifact, Media, Frames, Clips
      <4> QED BY <3>1, <3>4, <4>1 DEF DrawFrame, ShootClip
    <3> QED BY <2>1, <3>2, <3>3, <3>4 DEF Make
  <2> QED BY <2>1, StaleMoves DEF Derived
<1>2. UNCHANGED req
  BY RequestStays
<1>3. CASE Make
  BY <1>1, <1>2, <1>3, TargetedMake DEF Derived, RedrawDropsDerived, Targeted
<1>4. CASE UNCHANGED <<have, stale>>
  BY <1>1, <1>2, <1>4 DEF Derived, RedrawDropsDerived, Targeted
<1> QED BY <1>3, <1>4, StaleMoves

LEMMA DerivedAlways == Spec => []Derived
<1>1. Init => Derived
  <2>1. ASSUME NEW missing PROVE Complete0(missing) \subseteq Artifact
    BY DEF Complete0
  <2>2. Cut \in Artifact
    BY DEF Artifact
  <2> QED BY <2>1, <2>2 DEF Init, ToMake, ToRecompose, Derived, RedrawDropsDerived
<1>2. IInv /\ SignedInv /\ Derived /\ [Next]_vars => Derived'
  BY DerivedNext DEF SignedInv
<1> QED BY <1>1, <1>2, SignedAlways, Invariant, PTL DEF Spec

\* Redrawing single images or clips leaves nothing that was made from their
\* former versions, except the final video, which the project's status marks.
THEOREM RedrawLeavesNothingStale == Spec => []RedrawDropsDerived
<1>1. Derived => RedrawDropsDerived
  BY DEF Derived
<1> QED BY <1>1, DerivedAlways, PTL

-----------------------------------------------------------------------------
(***************************************************************************)
(* A ready project has a current final video.  A full run replaces the     *)
(* texts first, which makes everything after them stale, and takes back    *)
(* what it made stale stage by stage: the artifacts of a stage that has a  *)
(* checkpoint are current (Current), because an image is passed over only  *)
(* when its target checkpoint is from this run.  That the merge is not     *)
(* passed over needs clips (Whole), and that nothing changes after it      *)
(* needs the redo at the last gate to have a merge of its own (Merged).    *)
(* A redo that a crash cut short keeps its request, and the run cannot end *)
(* before the redo is done, because nothing can be asked for after the     *)
(* last approval (Finished).  A run that only merges again starts with     *)
(* thirteen stages behind it.                                              *)
(***************************************************************************)

\* The stages a run has behind it: those with a checkpoint, and for a run that
\* only merges again those before its first one.
Behind == ck \cup 1..(req.start - 1)

\* A full run redraws every character, also after a redo.
RedrawsAll ==
    Up /\ ~Targeted /\ req.start = 1 => ctx.redraw /\ (pc = "redo" => ctx.savedRedraw)

\* Targets are narrowed to what was made in this run, and clips only in a redo.
Narrowed ==
    ~Targeted =>
        /\ pc # "redo" => ctx.scope \cap Clips = {}
        /\ ctx.saved \cap Clips = {}
        /\ (ctx.scope \cup ctx.saved) \cap Faces # {} => 6 \in Behind /\ stale \cap Faces = {}
        /\ ask.open /\ ask.ids \cap Faces # {} => 7 \in Behind

\* A target checkpoint is of this run: its stage was reached.
OfThisRun ==
    ~Targeted => (tck # {} => 6 \in Behind) /\ (tck \cap Clips # {} => 12 \in Behind)

\* What a stage leaves without anything stale.
OfStage(s) == CASE s = 1 -> {Outline} [] s = 3 -> {Sheet}
                [] s = 5 -> {Board} \cup Frames \cup Clips [] s = 7 -> Faces [] OTHER -> {}
Current ==
    ~Targeted =>
        /\ Outline \notin stale
        /\ \A s \in Behind : OfStage(s) \cap stale = {}
        /\ stale \cap Faces \cap tck = {}
        /\ pc \in Working /\ ctx.todo = {} => OfStage(ctx.stage) \cap stale = {}
        /\ pc \in Working /\ ctx.stage = 7 => stale \cap Faces \subseteq ctx.todo

Whole ==
    ~Targeted =>
        /\ 13 \in Behind => Clips \subseteq have
        /\ pc = "work" /\ ctx.stage = 13 => Clips \ have \subseteq ctx.todo
        /\ tck \cap Clips \subseteq have

\* A redo that was cut short keeps its request, and what it replaced is noted;
\* a run that has the last checkpoint has nothing left to ask for.
Untouched == ~broken /\ touched = {} /\ Shots # {}
Merged ==
    ~Targeted =>
        /\ 14 \in Behind /\ Untouched => Cut \notin stale
        /\ pc \in Working /\ ctx.stage = 14 /\ ctx.todo = {} /\ Shots # {} => Cut \notin stale
        /\ pc = "redo" \/ touched # {} => ask.open

Finished ==
    ~Targeted /\ Shots # {} =>
        /\ 14 \in Behind => Cut \in have
        /\ pc \in Working /\ ctx.stage = 14 /\ ctx.todo = {} => Cut \in have
        /\ 15 \in Behind => /\ ~ask.open
                           /\ (pc \in {"down", "over"} \/ (pc = "loop" /\ ctx.stage = 16))

\* The project is ready before a run has begun its work, or from its merge on.
ReadySince ==
    project = "ready" =>
        /\ Cut \in have
        /\ ~Targeted => 13 \in Behind \/ (Behind = {} /\ (pc \in Working => Outline \in ctx.todo))

Known == IInv /\ SignedInv /\ Derived /\ AskedAtGate
CurrentInv == /\ RedrawsAll /\ Narrowed /\ OfThisRun /\ Current /\ Whole /\ Merged
              /\ Finished /\ ReadySince /\ ReadyIsCurrent

LEMMA BehindRun ==
    ASSUME IInv
    PROVE  /\ \A t \in Behind : t \in 1..15
           /\ ck \subseteq Behind
           /\ 15 \in Behind => 15 \in ck
           /\ 14 \in Behind => 14 \in ck
           /\ req.start = 1 => Behind = ck
           /\ req.start = 14 => 1..13 \subseteq Behind
           /\ req.start \in {1, 14}
           /\ \A n \in 1..16 : req.start <= n /\ Stands(req.start, ck, n) =>
                                \A t \in 1..15 : t < n => t \in Behind
BY DEF IInv, StageInv, Shape, Behind, Stands

LEMMA StandsBehind ==
    ASSUME IInv, ~Targeted, Up
    PROVE  Stands(1, Behind, ctx.stage) /\ (pc = "redo" => Stands(1, Behind, ctx.gate))
<1>1. ctx.stage \in 1..16 /\ ctx.gate \in 1..16 /\ req.start <= ctx.stage
  BY Types DEF IInv, StageInv, Shape, Position
<1>2. pc = "redo" => req.start <= ctx.gate
  BY <1>1 DEF IInv, StageInv, Shape, Phase
<1> QED BY <1>1, <1>2, BehindRun DEF IInv, StageInv, Position, Stands

LEMMA MembersApart ==
    /\ \A s : (s \in {9, 12} => s \in Critiques) /\ Shown(8) = Faces /\ Shown(11) = Frames
    /\ \A s : KindOf(s) \in {Faces, Frames}
    /\ Faces \cap Frames = {} /\ Faces \cap Clips = {} /\ Frames \cap Clips = {}
BY Kinds DEF Shown, KindOf

\* How a step of a full run changes the targets.
SameTargets ==
    UNCHANGED <<ctx.scope, ctx.saved, ctx.redraw, ctx.savedRedraw>>
    /\ (pc' = "redo" <=> pc = "redo") /\ (Up' => Up)
NewTargets ==
    /\ pc' = "loop" /\ ctx'.scope = {} /\ ctx'.saved = {} /\ UNCHANGED <<Behind, ask>>
    /\ ctx'.redraw = (req.start = 1)
ReviewTargets ==
    /\ pc = "critique" /\ pc' # "redo" /\ UNCHANGED <<ctx.saved, ctx.redraw, Behind>>
    /\ \E again \in SUBSET KindOf(ctx.stage) : ctx'.scope = (ctx.scope \ KindOf(ctx.stage)) \cup again
PassTargets ==
    /\ pc = "critique" /\ pc' # "redo" /\ UNCHANGED <<ctx.saved, ctx.redraw>>
    /\ ctx'.scope \subseteq ctx.scope
RedoTargets ==
    /\ pc = "gate" /\ pc' = "redo" /\ ctx'.saved = ctx.scope /\ ctx'.savedRedraw = ctx.redraw
    /\ ctx.redraw => ctx'.redraw
    /\ UNCHANGED Behind
    /\ ask.open /\ ctx'.scope \subseteq ctx.scope \cup ask.ids
BackTargets ==
    /\ pc = "redo" /\ pc' = "gate" /\ ctx'.scope = ctx.saved /\ ctx'.saved = {}
    /\ ctx'.redraw = ctx.savedRedraw

LEMMA TargetMoves ==
    ASSUME IInv, ~Targeted, [Next]_vars
    PROVE  \/ SameTargets \/ NewTargets \/ ReviewTargets \/ PassTargets \/ RedoTargets \/ BackTargets
           \/ ctx' = Idle /\ ~Up'
<1> USE DEF IInv, StageInv
<1>0. ctx \in Ctx
  BY DEF Shape
<1>1. CASE StartRun
  <2>1. Begin(req.start, NoScope, Full(req)) /\ UNCHANGED <<req, ask>>
    BY <1>1 DEF StartRun
  <2>2. ck = {} /\ ck' = ck
    BY <1>1 DEF StartRun, Invalidated, Phase
  <2> QED BY <2>1, <2>2, <1>0 DEF Begin, Idle, NewTargets, NoScope, Full, Behind
<1>2. CASE ResumeRun
  <2>1. \/ \E s : Begin(s, NoScope, Full(req))
        \/ Succeed("ready")
    BY <1>2 DEF ResumeRun
  <2>2. UNCHANGED <<Behind, ask>>
    BY <1>2 DEF ResumeRun, db, Behind
  <2>3. ASSUME NEW s, Begin(s, NoScope, Full(req)) PROVE NewTargets
    BY <2>2, <2>3 DEF Begin, Idle, NewTargets, NoScope, Full
  <2> QED BY <2>1, <2>3 DEF Succeed, Up
<1>3. CASE StartTargets \/ TargetsDone \/ TargetsPass \/ TargetsReject \/ TargetsComplete \/ TargetsFail
  BY <1>3 DEF StartTargets, TargetsDone, TargetsPass, TargetsReject, TargetsComplete, TargetsFail
<1>4. CASE EnterStage
  BY <1>0, <1>4 DEF EnterStage, Counted, SameTargets, Ctx, Up
<1>5. CASE StageDone \/ Approve
  BY <1>0, <1>5 DEF StageDone, Approve, SameTargets, Ctx, Up
<1>6. CASE Pass
  <2>1. ctx' = [Judged(ctx, ctx.stage) EXCEPT !.scope = @ \ KindOf(ctx.stage), !.stage = Next1(@)]
    BY <1>6 DEF Pass
  <2> QED BY <1>0, <1>6, <2>1 DEF Pass, Judged, Ctx, PassTargets
<1>7. CASE Reject
  <2>1. PICK again \in SUBSET KindOf(ctx.stage) : Narrow(again)
    <3>1. PICK v \in Verdicts : Narrow(SentBack(v))
      BY <1>7 DEF Reject
    <3>2. SentBack(v) \subseteq KindOf(ctx.stage)
      BY DEF SentBack, Reviewed, InScope
    <3> QED BY <3>1, <3>2
  <2>2. ctx' = [Judged(ctx, ctx.stage) EXCEPT !.scope = (@ \ KindOf(ctx.stage)) \cup again]
    BY <2>1 DEF Narrow
  <2>3. /\ ctx'.scope = (ctx.scope \ KindOf(ctx.stage)) \cup again
        /\ ctx'.saved = ctx.saved /\ ctx'.redraw = ctx.redraw
    BY <1>0, <2>2 DEF Judged, Ctx
  <2> QED BY <1>7, <2>1, <2>3 DEF Reject, Narrow, ReviewTargets, Behind
<1>8. CASE SendBack
  BY <1>0, <1>8 DEF SendBack, SameTargets, Ctx, Up
<1>9. CASE Make
  <2>1. PICK a \in Artifact : CommitsOne(a)
    BY <1>9, MakeCommits
  <2> QED BY <1>0, <2>1 DEF CommitsOne, SameTargets, Ctx, Up
<1>10. CASE RequestChanges
  BY <1>10 DEF RequestChanges, SameTargets, Up
<1>15. CASE Redo
  <2>1. /\ ctx'.scope = (ctx.scope \ Shown(ctx.stage)) \cup ask.ids
        /\ ctx'.saved = ctx.scope /\ ctx'.savedRedraw = ctx.redraw
        /\ ctx'.redraw = (ctx.redraw \/ RedoStage(ctx.stage) = RenderCharacters)
    BY <1>0, <1>15 DEF Redo, Ctx
  <2>2. pc = "gate" /\ pc' = "redo" /\ UNCHANGED Behind /\ ask.open
    BY <1>15 DEF Redo, Behind
  <2> QED BY <2>1, <2>2 DEF RedoTargets
<1>11. CASE RedoDone
  <2>1. CASE ctx.stage = ComposeVideos
    BY <1>0, <1>11, <2>1 DEF RedoDone, SameTargets, Ctx, Up
  <2>2. CASE ctx.stage # ComposeVideos
    BY <1>0, <1>11, <2>2 DEF RedoDone, BackAtGate, ForgetRedo, BackTargets, Ctx, NoScope
  <2> QED BY <2>1, <2>2
<1>12. CASE RedoFails
  BY <1>0, <1>12 DEF RedoFails, BackAtGate, ForgetRedo, BackTargets, Ctx, NoScope
<1>13. CASE Complete \/ StageFails \/ Crash \/ FinishCancelled
  BY <1>13 DEF Complete, Succeed, StageFails, Crash, Down, FinishCancelled, Up
<1>14. CASE CancelRun \/ UNCHANGED vars
  BY <1>14 DEF CancelRun, vars, SameTargets, Up
<1> QED BY <1>1, <1>2, <1>3, <1>4, <1>5, <1>6, <1>7, <1>8, <1>9, <1>10, <1>11, <1>12, <1>13, <1>14,
           <1>15 DEF Next, Step

\* How a step of a full run changes the checkpoints, and when there is work.
Passed ==
    /\ Behind' = Behind \cup {ctx.stage} /\ pc \in {"work", "redo", "gate", "critique"}
    /\ pc \in Working => ctx.todo = {}
    /\ UNCHANGED <<tck, project, broken>>
TakenBack ==
    /\ pc = "sendback" /\ pc' = "loop" /\ Behind' = Behind \ (RenderOf(ctx.stage)..15)
    /\ UNCHANGED <<tck, project, touched, broken>>

LEMMA CheckpointMoves ==
    ASSUME IInv, ~Targeted, [Next]_vars
    PROVE  UNCHANGED Behind \/ Passed \/ TakenBack
<1> USE DEF IInv, StageInv, history, db, Behind
<1>10. CASE StartRun
  <2>1. ck = {} /\ ck' = ck /\ UNCHANGED req
    BY <1>10 DEF StartRun, Invalidated, Phase
  <2> QED BY <2>1
<1>1. CASE ResumeRun \/ StartTargets \/ EnterStage \/ Reject \/ RequestChanges \/ Redo \/ RedoFails
  BY <1>1 DEF ResumeRun, StartTargets, EnterStage, Reject, Narrow, RequestChanges, Redo, RedoFails
<1>2. CASE Complete \/ FinishCancelled \/ StageFails \/ Crash \/ CancelRun \/ UNCHANGED vars
  BY <1>2 DEF Complete, FinishCancelled, StageFails, Crash, Down, CancelRun, vars
<1>3. CASE TargetsDone \/ TargetsPass \/ TargetsReject \/ TargetsComplete \/ TargetsFail
  BY <1>3 DEF TargetsDone, TargetsPass, TargetsReject, TargetsComplete, TargetsFail
<1>4. CASE Make
  BY <1>4, MakeCommits DEF CommitsOne
<1>5. CASE StageDone
  BY <1>5 DEF StageDone, Passed
<1>6. CASE Pass
  BY <1>6 DEF Pass, Passed, Working
<1>7. CASE Approve
  BY <1>7 DEF Approve, Passed, Working
<1>8. CASE RedoDone
  BY <1>8 DEF RedoDone, Passed, Working
<1>9. CASE SendBack
  <2>1. ctx.stage \in Critiques /\ ~Targeted /\ Up
    BY <1>9 DEF SendBack, Phase, Up
  <2>2. req.start = 1
    BY <2>1 DEF Shape, Position
  <2> QED BY <1>9, <2>2 DEF SendBack, TakenBack, Invalidated, From
<1> QED BY <1>1, <1>2, <1>3, <1>4, <1>5, <1>6, <1>7, <1>8, <1>9, <1>10 DEF Next, Step

LEMMA WorkBegins ==
    ASSUME IInv, ~Targeted, [Next]_vars, pc' \in Working
    PROVE  \/ UNCHANGED <<pc, ctx, Behind>>
           \/ Make
           \/ /\ EnterStage /\ pc = "loop" /\ pc' = "work" /\ ctx'.stage = ctx.stage
              /\ ctx'.todo = Pending(ctx.stage, ctx.scope, ctx.redraw, tck)
              /\ UNCHANGED <<Behind, tck>>
           \/ /\ Redo /\ pc = "gate" /\ pc' = "redo"
              /\ ctx'.stage = RedoStage(ctx.stage) /\ UNCHANGED Behind
              /\ \E scope, redraw, done : ctx'.todo = Pending(ctx'.stage, scope, redraw, done)
           \/ /\ RedoDone /\ pc = "redo" /\ ctx.gate = 15 /\ pc' = "redo" /\ ctx'.stage = 14
              /\ ctx'.todo = Pending(14, ctx.scope, ctx.redraw, tck)
<1> USE DEF IInv, StageInv
<1>1. CASE StartRun \/ ResumeRun \/ StartTargets
  BY <1>1, StartRunLeaves, ResumeRunLeaves, StartTargetsLeaves DEF Begun, Working
<1>2. CASE EnterStage
  BY <1>2, EnterStageLeaves DEF Working, Behind
<1>3. CASE StageDone \/ Pass \/ Approve \/ SendBack \/ Reject \/ RedoFails
  BY <1>3 DEF StageDone, Pass, Approve, SendBack, Reject, RedoFails, Working
<1>4. CASE TargetsDone \/ TargetsPass \/ TargetsReject \/ TargetsComplete \/ TargetsFail
  BY <1>4 DEF TargetsDone, TargetsPass, TargetsReject, TargetsComplete, TargetsFail
<1>9. CASE RequestChanges
  BY <1>9 DEF RequestChanges, Working
<1>5. CASE Redo
  <2>1. ctx.stage \in Gates
    BY <1>5 DEF Redo, Phase
  <2>3. UNCHANGED Behind
    BY <1>5 DEF Redo, Behind
  <2>2. /\ pc = "gate" /\ pc' = "redo" /\ UNCHANGED Behind /\ ctx'.stage = RedoStage(ctx.stage)
        /\ \E scope, redraw, done : ctx'.todo = Pending(RedoStage(ctx.stage), scope, redraw, done)
    BY <1>5, <2>1, <2>3, RedoLeaves
  <2> QED BY <1>5, <2>2
<1>6. CASE RedoDone
  <2>1. ctx.stage = 13 /\ pc = "redo" /\ ctx'.stage = 14 /\ pc' = "redo"
        /\ ctx'.todo = Pending(14, ctx.scope, ctx.redraw, tck)
    BY <1>6, RedoDoneLeaves DEF Working
  <2>2. ctx.gate = 15
    BY <2>1 DEF Phase
  <2> QED BY <1>6, <2>1, <2>2
<1>7. CASE Complete \/ StageFails \/ Crash \/ FinishCancelled
  BY <1>7, CompleteLeaves, FailsLeaves DEF FinishCancelled, Working
<1>8. CASE CancelRun \/ UNCHANGED vars
  BY <1>8 DEF CancelRun, vars, db, Behind
<1> QED BY <1>1, <1>2, <1>3, <1>4, <1>5, <1>6, <1>7, <1>8, <1>9 DEF Next, Step

\* What the commits of a stage change of all this.
OutlineStep ==
    /\ ctx.stage = 1 /\ Outline \notin stale' /\ have \subseteq have'
    /\ project' = "planning" /\ UNCHANGED tck
SheetStep ==
    /\ ctx.stage = 3 /\ have \cap Clips \subseteq have'
    /\ Outline \notin stale => Outline \notin stale' /\ Sheet \notin stale'
    /\ UNCHANGED <<tck, project>>
BoardStep ==
    /\ ctx.stage = 5
    /\ {Outline, Sheet} \cap stale = {} => ({Outline, Sheet} \cup OfStage(5)) \cap stale' = {}
    /\ UNCHANGED <<tck, project>>
DrawStep(a) ==
    /\ a \in ctx.todo /\ ctx'.todo = ctx.todo \ {a} /\ tck' = tck \cup {a}
    /\ project' = Superseded(project) /\ (Cut \in have => Cut \in have')
    /\ touched' = (IF pc = "redo" THEN touched \cup {a} ELSE {})
    /\ Basis(a) \cap stale = {} => stale' \subseteq (stale \ {a}) \cup {Cut}
FaceStep == ctx.stage = 7 /\ \E a \in Faces : DrawStep(a) /\ Basis(a) = {Outline, Sheet}
FrameStep ==
    /\ ctx.stage = 10
    /\ \E a \in Frames : DrawStep(a) /\ Basis(a) \subseteq {Outline, Sheet, Board} \cup Faces
ClipStep ==
    /\ ctx.stage = 13
    /\ \E a \in Clips : /\ DrawStep(a) /\ have' = have \cup {a}
                        /\ Basis(a) \subseteq {Outline, Sheet, Board} \cup Faces \cup Frames
CutStep ==
    /\ ctx.stage = 14 /\ have' = have \cup {Cut} /\ project' = "ready" /\ UNCHANGED tck
    /\ stale \subseteq {Cut} => stale' = {}

LEMMA MakeSteps ==
    ASSUME Shape, KindStage, Derived, Make
    PROVE  \/ OutlineStep \/ SheetStep \/ BoardStep \/ FaceStep \/ FrameStep \/ ClipStep \/ CutStep
<1> USE DEF Derived
<1>0. ctx \in Ctx
  BY DEF Shape
<1>1. CASE WriteOutline
  <2>1. Commit(Outline, {}, tck, "planning")
    BY <1>1 DEF WriteOutline
  <2>2. Outline \notin StaleAfter({Outline}, {})
    BY BasisOf DEF StaleAfter
  <2> QED BY <2>1, <2>2 DEF Commit, OutlineStep, KindStage
<1>2. CASE PlanSheet
  <2>1. PICK gone \in SUBSET Faces : Commit(Sheet, gone, tck, project)
    BY <1>2 DEF PlanSheet
  <2>2. ASSUME Outline \notin stale PROVE {Outline, Sheet} \cap StaleAfter({Sheet}, gone) = {}
    BY <2>2, BasisOf, Kinds DEF StaleAfter
  <2>3. ctx.stage = 3 /\ have' = (have \cup {Sheet}) \ gone /\ stale' = StaleAfter({Sheet}, gone)
        /\ tck' = tck /\ project' = project
    BY <2>1 DEF Commit, KindStage
  <2> QED BY <2>2, <2>3, MembersApart DEF SheetStep
<1>3. CASE PlanBoard
  <2>1. Commit(Board, Frames \cup Clips, tck, project)
    BY <1>3 DEF PlanBoard
  <2>2. ASSUME {Outline, Sheet} \cap stale = {}
        PROVE  ({Outline, Sheet, Board} \cup Frames \cup Clips)
                 \cap StaleAfter({Board}, Frames \cup Clips) = {}
    <3>1. \A a \in {Outline, Sheet} : Basis(a) \cap ({Board} \cup (Frames \cup Clips)) = {}
      BY BasisOf, Kinds
    <3> QED BY <2>2, <3>1, BasisOf, Kinds DEF StaleAfter
  <2>3. ctx.stage = 5 /\ stale' = StaleAfter({Board}, Frames \cup Clips)
        /\ tck' = tck /\ project' = project
    BY <2>1 DEF Commit, KindStage
  <2> QED BY <2>2, <2>3 DEF BoardStep, OfStage
<1>4. ASSUME NEW a \in Media, NEW gone, Commit(a, gone, Checkpointed(a), Superseded(project)),
             Cut \notin gone,
             Basis(a) \cap stale = {} => stale' \subseteq (stale \ {a}) \cup {Cut}
      PROVE  DrawStep(a)
  BY <1>0, <1>4 DEF Commit, Checkpointed, DrawStep, Ctx
<1>5. ASSUME NEW c \in Characters, DrawFace(c) PROVE FaceStep
  <2> DEFINE gone == UNION {{Frame(s), Clip(s)} : s \in ShotsOf(c)}
  <2>1. Commit(Face(c), gone, Checkpointed(Face(c)), Superseded(project))
    BY <1>5 DEF DrawFace
  <2>2. Cut \notin gone
    <3>1. \A s \in ShotsOf(c) : Frame(s) \in Frames /\ Clip(s) \in Clips
      BY DEF ShotsOf, Frames, Clips
    <3> QED BY <3>1, Kinds
  <2>3. Face(c) \in Faces /\ Face(c) \in Media
    BY DEF Faces, Media
  <2>4. Basis(Face(c)) \cap stale = {} => stale' \subseteq (stale \ {Face(c)}) \cup {Cut}
    BY <1>5, FaceMade
  <2> HIDE DEF gone
  <2>5. DrawStep(Face(c))
    BY <1>4, <2>1, <2>2, <2>3, <2>4
  <2> QED BY <2>3, <2>5, BasisOf DEF FaceStep, KindStage, DrawStep
<1>6. ASSUME NEW s \in Shots, DrawFrame(s) PROVE FrameStep
  <2>1. Commit(Frame(s), {Clip(s)}, Checkpointed(Frame(s)), Superseded(project))
    BY <1>6 DEF DrawFrame, ClipOf
  <2>2. Frame(s) \in Frames /\ Frame(s) \in Media /\ Cut \notin {Clip(s)}
    BY Kinds DEF Frames, Clips, Media
  <2>3. DrawStep(Frame(s))
    BY <1>4, <1>6, <2>1, <2>2, FrameMade
  <2>4. Basis(Frame(s)) \subseteq {Outline, Sheet, Board} \cup Faces
    BY BasisOf, CastAssumption DEF Faces
  <2> QED BY <2>2, <2>3, <2>4 DEF FrameStep, KindStage, DrawStep
<1>7. ASSUME NEW s \in Shots, ShootClip(s) PROVE ClipStep
  <2>1. Commit(Clip(s), {}, Checkpointed(Clip(s)), Superseded(project))
    BY <1>7 DEF ShootClip
  <2>2. Clip(s) \in Clips /\ Clip(s) \in Media
    BY DEF Clips, Media
  <2>3. DrawStep(Clip(s))
    BY <1>4, <1>7, <2>1, <2>2, ClipMade
  <2>4. Basis(Clip(s)) \subseteq {Outline, Sheet, Board} \cup Faces \cup Frames
    BY BasisOf, CastAssumption DEF Faces, Frames
  <2>5. have' = have \cup {Clip(s)}
    BY <2>1 DEF Commit
  <2> QED BY <2>2, <2>3, <2>4, <2>5 DEF ClipStep, KindStage, DrawStep
<1>8. CASE MergeClips
  <2>1. Commit(Cut, {}, tck, "ready")
    BY <1>8 DEF MergeClips
  <2>2. ASSUME stale \subseteq {Cut} PROVE StaleAfter({Cut}, {}) = {}
    <3>1. Basis(Cut) = Artifact \ {Cut}
      BY Kinds DEF Basis
    <3> QED BY <2>2, <3>1, CutApart DEF StaleAfter
  <2> QED BY <2>1, <2>2 DEF Commit, CutStep, KindStage
<1> QED BY <1>1, <1>2, <1>3, <1>5, <1>6, <1>7, <1>8 DEF Make

\* Which checkpoints there are when a stage is at work.
LEMMA WorkAt ==
    ASSUME IInv, SignedInv, ~Targeted, pc \in Working
    PROVE  /\ \A t \in Behind : t \in 1..15
           /\ \A t \in 1..15 : t < ctx.stage => t \in Behind
           /\ ctx.stage <= 11 => \A t \in Behind : t <= ctx.stage
           /\ ctx.stage = 13 /\ pc = "work" => \A t \in Behind : t < 13
           /\ pc = "redo" => /\ \A t \in 1..15 : t < ctx.gate => t \in Behind
                             /\ ctx.stage = 13 => ctx.gate = 15
<1>1. ctx.stage \in 1..16 /\ ctx.gate \in 1..16 /\ \A t \in ck : t \in 1..15
  BY Types DEF IInv, StageInv, Shape
<1>2. Up /\ req.start <= ctx.stage /\ Stands(req.start, ck, ctx.stage)
      /\ (pc = "redo" => Stands(req.start, ck, ctx.gate))
  BY DEF IInv, StageInv, Position, Up, Working
<1>3. pc = "redo" => ctx.gate \in Gates /\ (ctx.stage = ctx.gate - 1 \/ (ctx.gate = 15 /\ ctx.stage = 13))
  BY DEF IInv, StageInv, Phase
<1>4. Here <= 13 => \A t \in ck : t < Here
  BY <1>2 DEF SignedInv, NoneAhead
<1>5. /\ req.start \in {1, 14} /\ ck \subseteq Behind
      /\ req.start = 1 => Behind = ck
      /\ \A t \in Behind : t \in 1..15
  BY BehindRun
<1>6. /\ \A t \in 1..15 : t < ctx.stage => t \in Behind
      /\ pc = "redo" => \A t \in 1..15 : t < ctx.gate => t \in Behind
  BY <1>1, <1>2, <1>3, BehindRun
<1>7. ctx.stage <= 13 => Behind = ck
  BY <1>1, <1>2, <1>5
<1>8. CASE pc = "redo"
  BY <1>1, <1>3, <1>4, <1>5, <1>6, <1>7, <1>8 DEF Here
<1>9. CASE pc = "work"
  BY <1>1, <1>4, <1>5, <1>6, <1>7, <1>9 DEF Here
<1> QED BY <1>8, <1>9 DEF Working

LEMMA RedrawsNext == ASSUME IInv, RedrawsAll, [Next]_vars PROVE RedrawsAll'
<1>1. UNCHANGED req
  BY RequestStays
<1> SUFFICES ASSUME ~Targeted, Up', req.start = 1
             PROVE  (ctx.redraw /\ (pc = "redo" => ctx.savedRedraw))'
  BY <1>1 DEF RedrawsAll, Targeted
<1>2. pc = "critique" \/ pc = "gate" \/ pc = "redo" => Up
  BY DEF Up
<1>3. CASE SameTargets
  BY <1>3 DEF SameTargets, RedrawsAll
<1>4. CASE NewTargets
  BY <1>4 DEF NewTargets
<1>5. CASE ReviewTargets \/ PassTargets
  BY <1>2, <1>5 DEF ReviewTargets, PassTargets, RedrawsAll
<1>6. CASE RedoTargets
  BY <1>2, <1>6 DEF RedoTargets, RedrawsAll
<1>7. CASE BackTargets
  BY <1>2, <1>7 DEF BackTargets, RedrawsAll
<1> QED BY <1>3, <1>4, <1>5, <1>6, <1>7, TargetMoves

\* From the images on, the texts are current; after the faces only the final
\* video may be stale.
LEMMA CurrentBefore ==
    ASSUME Known, Current, ~Targeted
    PROVE  /\ 3 \in Behind /\ 5 \in Behind => ({Outline, Sheet, Board} \cup Frames \cup Clips) \cap stale = {}
           /\ 3 \in Behind /\ 5 \in Behind /\ 7 \in Behind => stale \subseteq {Cut}
<1>1. Outline \notin stale
  BY DEF Current
<1>2. \A s \in {3, 5, 7} : s \in Behind => OfStage(s) \cap stale = {}
  BY DEF Current
<1>3. /\ OfStage(3) = {Sheet} /\ OfStage(5) = {Board} \cup Frames \cup Clips
      /\ OfStage(7) = Faces
  BY DEF OfStage
<1>4. stale \subseteq {Outline, Sheet, Board, Cut} \cup Faces \cup Frames \cup Clips
  BY DEF Known, Derived, Artifact, Media
<1> QED BY <1>1, <1>2, <1>3, <1>4

\* What a commit makes stale, at each stage.
LEMMA StaleSteps ==
    ASSUME Known, Current, ~Targeted, Make
    PROVE  /\ Outline \notin stale'
           /\ ctx.stage = 3 => Sheet \notin stale'
           /\ ctx.stage = 5 => {Sheet, Board} \cap stale' = {} /\ stale' \cap (Frames \cup Clips) = {}
           /\ FaceStep => \E a \in Faces : DrawStep(a) /\ stale' \subseteq (stale \ {a}) \cup {Cut}
           /\ FrameStep \/ ClipStep => stale' \subseteq {Cut}
           /\ CutStep => stale' = {}
           /\ OutlineStep \/ SheetStep \/ BoardStep \/ FaceStep \/ FrameStep \/ ClipStep \/ CutStep
<1>1. pc \in Working
  BY MakeCommits DEF CommitsOne, Known, IInv, StageInv
<1>2. OutlineStep \/ SheetStep \/ BoardStep \/ FaceStep \/ FrameStep \/ ClipStep \/ CutStep
  BY MakeSteps DEF Known, IInv, StageInv, SignedInv
<1>3. ctx.stage = 5 \/ ctx.stage \in 7..14 => {Outline, Sheet} \cap stale = {}
  <2>1. ctx.stage = 5 \/ ctx.stage \in 7..14 => 3 \in Behind
    BY <1>1, WorkAt DEF Known
  <2>2. 3 \in Behind => OfStage(3) \cap stale = {}
    BY DEF Current
  <2> QED BY <2>1, <2>2 DEF OfStage, Current
<1>4. ctx.stage \in 7..14 => 3 \in Behind /\ 5 \in Behind
  BY <1>1, WorkAt DEF Known
<1>5. ctx.stage \in 8..14 => 3 \in Behind /\ 5 \in Behind /\ 7 \in Behind
  BY <1>1, WorkAt DEF Known
<1>6. ctx.stage \in 8..14 => stale \subseteq {Cut}
  BY <1>5, CurrentBefore
<1>7. Outline \notin stale
  BY DEF Current
<1>8. FaceStep => \E a \in Faces : DrawStep(a) /\ stale' \subseteq (stale \ {a}) \cup {Cut}
  <2> SUFFICES ASSUME FaceStep
               PROVE  \E a \in Faces : DrawStep(a) /\ stale' \subseteq (stale \ {a}) \cup {Cut}
    OBVIOUS
  <2>1. ctx.stage \in 7..14
    BY DEF FaceStep
  <2>2. PICK a \in Faces : DrawStep(a) /\ Basis(a) = {Outline, Sheet}
    BY DEF FaceStep
  <2>3. stale' \subseteq (stale \ {a}) \cup {Cut}
    BY <1>3, <2>1, <2>2 DEF DrawStep
  <2> QED BY <2>2, <2>3
<1>9. FrameStep \/ ClipStep => stale' \subseteq {Cut}
  <2>1. ASSUME NEW a, DrawStep(a), Basis(a) \subseteq {Outline, Sheet, Board} \cup Faces \cup Frames,
               stale \subseteq {Cut}
        PROVE  stale' \subseteq {Cut}
    <3>1. Basis(a) \cap stale = {}
      BY <2>1, Kinds
    <3> QED BY <2>1, <3>1 DEF DrawStep
  <2> QED BY <1>6, <2>1 DEF FrameStep, ClipStep
<1>10. CutStep => stale' = {}
  BY <1>6 DEF CutStep
<1>11. Outline \notin stale' /\ (ctx.stage = 3 => Sheet \notin stale')
  <2>1. CASE OutlineStep \/ SheetStep \/ BoardStep
    BY <1>3, <1>7, <2>1 DEF OutlineStep, SheetStep, BoardStep
  <2>2. CASE FaceStep
    BY <1>7, <1>8, <2>2, Kinds DEF FaceStep
  <2>3. CASE FrameStep \/ ClipStep \/ CutStep
    BY <1>9, <1>10, <2>3, Kinds DEF FrameStep, ClipStep, CutStep
  <2> QED BY <1>2, <2>1, <2>2, <2>3
<1>12. ctx.stage = 5 => {Sheet, Board} \cap stale' = {} /\ stale' \cap (Frames \cup Clips) = {}
  <2>1. ctx.stage = 5 => BoardStep
    BY <1>2 DEF OutlineStep, SheetStep, FaceStep, FrameStep, ClipStep, CutStep
  <2> QED BY <1>3, <2>1 DEF BoardStep, OfStage
<1> QED BY <1>2, <1>8, <1>9, <1>10, <1>11, <1>12

\* Faces go stale only while the texts are written, before any is drawn.
LEMMA FacesStay ==
    ASSUME Known, Current, ~Targeted, Make
    PROVE  6 \in Behind => stale' \cap Faces \subseteq stale
<1>1. pc \in Working
  BY MakeCommits DEF CommitsOne, Known, IInv, StageInv
<1>2. ctx.stage \in {1, 3, 5} => 6 \notin Behind
  BY <1>1, WorkAt DEF Known
<1>3. Cut \notin Faces
  BY Kinds
<1> QED BY <1>2, <1>3, StaleSteps DEF OutlineStep, SheetStep, BoardStep

\* Who writes the change request of the row.
LEMMA AskMoves ==
    ASSUME [Next]_vars
    PROVE  ask' = ask \/ RequestChanges \/ (~ask'.open /\ (RedoDone \/ RedoFails))
<1> USE DEF history, db
<1>1. CASE StartRun \/ ResumeRun \/ StartTargets
  BY <1>1 DEF StartRun, ResumeRun, StartTargets
<1>2. CASE EnterStage \/ StageDone \/ TargetsDone \/ Pass \/ TargetsPass \/ SendBack \/ Approve
  BY <1>2 DEF EnterStage, StageDone, TargetsDone, Pass, TargetsPass, SendBack, Approve
<1>3. CASE Reject \/ TargetsReject
  BY <1>3 DEF Reject, TargetsReject, Narrow
<1>4. CASE Redo \/ RedoDone \/ RedoFails
  BY <1>4, NoAskShape DEF Redo, RedoDone, RedoFails
<1>5. CASE Complete \/ TargetsComplete \/ FinishCancelled \/ CancelRun
  BY <1>5 DEF Complete, TargetsComplete, FinishCancelled, CancelRun
<1>6. CASE StageFails \/ TargetsFail \/ Crash \/ UNCHANGED vars
  BY <1>6 DEF StageFails, TargetsFail, Crash, Down, vars
<1>7. CASE Make
  BY <1>7 DEF Make, WriteOutline, PlanSheet, PlanBoard, MergeClips, DrawFace, DrawFrame, ShootClip, Commit
<1> QED BY <1>1, <1>2, <1>3, <1>4, <1>5, <1>6, <1>7 DEF Next, Step

LEMMA EarlierBehind == ASSUME IInv, 7 \in Behind PROVE 6 \in Behind
<1>1. 7 \in ck => \A t \in 1..15 : t < 7 => t \in Behind
  BY BehindRun DEF IInv, StageInv, NoHole
<1>2. 7 \in ck \/ req.start = 14
  BY BehindRun
<1> QED BY <1>1, <1>2, BehindRun

LEMMA NarrowedNext ==
    ASSUME Known, Current, Narrowed, [Next]_vars
    PROVE  Narrowed'
<1> USE DEF Known
<1>1. UNCHANGED req
  BY RequestStays
<1> SUFFICES ASSUME ~Targeted PROVE Narrowed'
  BY <1>1 DEF Narrowed, Targeted
<1>2. /\ pc # "redo" => ctx.scope \cap Clips = {}
      /\ ctx.saved \cap Clips = {}
      /\ (ctx.scope \cup ctx.saved) \cap Faces # {} => 6 \in Behind /\ stale \cap Faces = {}
  BY DEF Narrowed
<1>10. Up => \A t \in 1..15 : t < ctx.stage => t \in Behind
  <2>1. ctx.stage \in 1..16
    BY Types DEF IInv, StageInv, Shape
  <2> QED BY <2>1, BehindRun DEF IInv, StageInv, Position
<1>13. ask'.open /\ ask'.ids \cap Faces # {} => 7 \in Behind'
  <2> SUFFICES ASSUME ask'.open, ask'.ids \cap Faces # {} PROVE 7 \in Behind'
    OBVIOUS
  <2>1. CASE RequestChanges
    <3>1. pc = "gate" /\ ctx.stage \in Gates /\ Up
      BY <2>1 DEF RequestChanges, IInv, StageInv, Phase, Up
    <3>2. PICK ids \in Selectable(ctx.stage) : ask' = Asked(ids)
      BY <2>1 DEF RequestChanges
    <3>3. ids \cap Faces # {}
      BY <3>2 DEF Asked
    <3>4. ctx.stage = 8
      BY <3>1, <3>3, MembersApart DEF Selectable, NoScope
    <3>5. UNCHANGED Behind
      BY <2>1 DEF RequestChanges, Behind
    <3> QED BY <1>10, <3>1, <3>4, <3>5
  <2>2. CASE ask' = ask
    <3>1. 7 \in Behind /\ pc # "sendback"
      BY <2>2 DEF Narrowed, AskedAtGate
    <3> QED BY <3>1, CheckpointMoves DEF Passed, TakenBack
  <2> QED BY <2>1, <2>2, AskMoves
<1>3. CASE NewTargets \/ (ctx' = Idle /\ ~Up')
  BY <1>3, <1>13 DEF NewTargets, Idle, NoScope, Narrowed
<1>4. 6 \in Behind => 6 \in Behind'
  BY CheckpointMoves DEF Passed, TakenBack, RenderOf
<1>6. 6 \in Behind => stale' \cap Faces \subseteq stale
  BY FacesStay, StaleMoves
<1>7. CASE SameTargets
  BY <1>2, <1>4, <1>6, <1>7, <1>13 DEF SameTargets, Narrowed
<1>8. CASE PassTargets
  BY <1>2, <1>4, <1>6, <1>8, <1>13 DEF PassTargets, Narrowed
<1>9. CASE BackTargets
  BY <1>2, <1>4, <1>6, <1>9, <1>13 DEF BackTargets, Narrowed
<1>11. CASE ReviewTargets
  <2>1. PICK again \in SUBSET KindOf(ctx.stage) : ctx'.scope = (ctx.scope \ KindOf(ctx.stage)) \cup again
    BY <1>11 DEF ReviewTargets
  <2>2. ctx.stage \in {9, 12} /\ Up
    BY <1>11 DEF ReviewTargets, IInv, StageInv, Phase, Up
  <2>3. 6 \in Behind /\ 7 \in Behind
    BY <1>10, <2>2
  <2>4. stale \cap Faces = {}
    BY <2>3 DEF Current, OfStage
  <2>5. again \cap Clips = {}
    BY MembersApart
  <2>6. 6 \in Behind' /\ stale' \cap Faces = {}
    BY <1>4, <1>6, <1>11, <2>3, <2>4 DEF ReviewTargets
  <2> QED BY <1>2, <1>11, <1>13, <2>1, <2>5, <2>6 DEF ReviewTargets, Narrowed
<1>12. CASE RedoTargets
  <2>1. ask.open /\ ctx'.scope \subseteq ctx.scope \cup ask.ids
    BY <1>12 DEF RedoTargets
  <2>2. ctx.stage \in Gates /\ Up
    BY <1>12 DEF RedoTargets, IInv, StageInv, Phase, Up
  <2>3. CASE ask.ids \cap Faces # {}
    <3>1. 6 \in Behind /\ 7 \in Behind
      <4>1. 7 \in Behind
        BY <2>1, <2>3 DEF Narrowed
      <4>2. 6 \in Behind
        BY <4>1, EarlierBehind
      <4> QED BY <4>1, <4>2
    <3>2. stale \cap Faces = {}
      BY <3>1 DEF Current, OfStage
    <3>3. 6 \in Behind' /\ stale' \cap Faces = {}
      BY <1>6, <1>12, <3>1, <3>2 DEF RedoTargets
    <3> QED BY <1>2, <1>12, <1>13, <2>1, <3>3 DEF RedoTargets, Narrowed
  <2>4. CASE ask.ids \cap Faces = {}
    BY <1>2, <1>6, <1>12, <1>13, <2>1, <2>4 DEF RedoTargets, Narrowed
  <2> QED BY <2>3, <2>4
<1> QED BY <1>3, <1>7, <1>8, <1>9, <1>11, <1>12, TargetMoves

LEMMA TargetCheckpoints ==
    ASSUME [Next]_vars
    PROVE  tck' \subseteq tck \/ Make
<1> USE DEF history, db
<1>1. CASE StartRun \/ ResumeRun \/ StartTargets
  BY <1>1 DEF StartRun, ResumeRun, StartTargets
<1>2. CASE EnterStage \/ StageDone \/ TargetsDone \/ Pass \/ TargetsPass \/ SendBack \/ Approve
  BY <1>2 DEF EnterStage, StageDone, TargetsDone, Pass, TargetsPass, SendBack, Approve
<1>3. CASE Reject \/ TargetsReject
  BY <1>3 DEF Reject, TargetsReject, Narrow, Dropped
<1>4. CASE RequestChanges \/ Redo \/ RedoDone \/ RedoFails
  BY <1>4 DEF RequestChanges, Redo, RedoDone, RedoFails, Dropped
<1>5. CASE Complete \/ TargetsComplete \/ FinishCancelled \/ CancelRun
  BY <1>5 DEF Complete, TargetsComplete, FinishCancelled, CancelRun
<1>6. CASE StageFails \/ TargetsFail \/ Crash \/ UNCHANGED vars
  BY <1>6 DEF StageFails, TargetsFail, Crash, Down, vars
<1> QED BY <1>1, <1>2, <1>3, <1>4, <1>5, <1>6 DEF Next, Step

\* A review sends work back to a stage after which nothing has a checkpoint.
LEMMA NothingAfterReview ==
    ASSUME IInv, SignedInv, ~Targeted, pc = "sendback"
    PROVE  ctx.stage \in {9, 12} /\ (\A t \in Behind : t < ctx.stage) /\ (\A t \in 1..8 : t \in Behind)
<1>1. ctx.stage \in {9, 12} /\ Up
  BY DEF IInv, StageInv, Phase, Up
<1>2. Stands(1, Behind, ctx.stage)
  BY <1>1, StandsBehind
<1>4. Behind = ck
  BY <1>1, BehindRun DEF IInv, StageInv, Position
<1>3. \A t \in Behind : t < ctx.stage
  BY <1>1, <1>4 DEF SignedInv, NoneAhead, Here
<1> QED BY <1>1, <1>2, <1>3 DEF Stands

LEMMA OfThisRunNext ==
    ASSUME Known, OfThisRun, [Next]_vars
    PROVE  OfThisRun'
<1> USE DEF Known
<1>1. UNCHANGED req
  BY RequestStays
<1> SUFFICES ASSUME ~Targeted PROVE OfThisRun'
  BY <1>1 DEF OfThisRun, Targeted
<1>3. CASE TakenBack
  BY <1>3, NothingAfterReview DEF TakenBack, OfThisRun, RenderOf
<1>4. CASE Passed
  BY <1>4 DEF Passed, OfThisRun
<1>5. CASE UNCHANGED Behind /\ tck' \subseteq tck
  BY <1>5 DEF OfThisRun
<1>6. CASE Make
  <2>1. pc \in Working /\ UNCHANGED Behind
    BY <1>6, MakeCommits DEF CommitsOne, IInv, StageInv, Behind
  <2>2. OutlineStep \/ SheetStep \/ BoardStep \/ FaceStep \/ FrameStep \/ ClipStep \/ CutStep
    BY <1>6, MakeSteps DEF IInv, StageInv, SignedInv
  <2>3. CASE OutlineStep \/ SheetStep \/ BoardStep \/ CutStep
    BY <2>1, <2>3 DEF OutlineStep, SheetStep, BoardStep, CutStep, OfThisRun
  <2>4. CASE FaceStep \/ FrameStep
    <3>1. 6 \in Behind
      BY <2>1, <2>4, WorkAt DEF FaceStep, FrameStep
    <3>2. PICK a \in Faces \cup Frames : tck' = tck \cup {a}
      BY <2>4 DEF FaceStep, FrameStep, DrawStep
    <3> QED BY <2>1, <3>1, <3>2, MembersApart DEF OfThisRun
  <2>5. CASE ClipStep
    BY <2>1, <2>5, WorkAt DEF ClipStep, OfThisRun
  <2> QED BY <2>2, <2>3, <2>4, <2>5
<1> QED BY <1>3, <1>4, <1>5, <1>6, CheckpointMoves, TargetCheckpoints

LEMMA CurrentNext ==
    ASSUME Known, CurrentInv, [Next]_vars
    PROVE  Current'
<1> USE DEF Known, CurrentInv
<1>1. UNCHANGED req
  BY RequestStays
<1> SUFFICES ASSUME ~Targeted PROVE Current'
  BY <1>1 DEF Current, Targeted
<1>2. CASE Make
  <2>1. pc \in Working /\ UNCHANGED <<Behind, pc>>
    BY <1>2, MakeCommits DEF CommitsOne, IInv, StageInv, Behind
  <2>2. ctx'.stage = ctx.stage
    BY <1>2, MakeCommits, MakeLeaves DEF IInv, StageInv
  <2>3. Outline \notin stale'
    BY <1>2, StaleSteps
  <2>4. CASE OutlineStep
    <3>1. ctx.stage = 1 /\ UNCHANGED tck
      BY <2>4 DEF OutlineStep
    <3>2. \A s \in Behind : OfStage(s) \subseteq {Outline}
      BY <2>1, <3>1, WorkAt DEF OfStage
    <3>3. 6 \notin Behind
      BY <2>1, <3>1, WorkAt
    <3>4. tck = {}
      BY <3>3 DEF OfThisRun
    <3> QED BY <2>1, <2>2, <2>3, <3>1, <3>2, <3>4 DEF Current, OfStage
  <2>5. CASE SheetStep
    <3>1. ctx.stage = 3 /\ UNCHANGED tck
      BY <2>5 DEF SheetStep
    <3>2. \A s \in Behind : s \in {1, 2, 3}
      BY <2>1, <3>1, WorkAt
    <3>3. tck = {}
      BY <3>2 DEF OfThisRun
    <3>4. Sheet \notin stale'
      BY <1>2, <3>1, StaleSteps
    <3> QED BY <2>1, <2>2, <2>3, <3>1, <3>2, <3>3, <3>4 DEF Current, OfStage
  <2>6. CASE BoardStep
    <3>1. ctx.stage = 5 /\ UNCHANGED tck
      BY <2>6 DEF BoardStep
    <3>2. \A s \in Behind : s \in 1..5
      BY <2>1, <3>1, WorkAt
    <3>3. tck = {}
      BY <3>2 DEF OfThisRun
    <3>4. {Sheet, Board} \cap stale' = {} /\ stale' \cap (Frames \cup Clips) = {}
      BY <1>2, <3>1, StaleSteps
    <3>5. \A s \in 1..5 : OfStage(s) \cap stale' = {}
      BY <2>3, <3>4 DEF OfStage
    <3> QED BY <2>1, <2>2, <2>3, <3>1, <3>2, <3>3, <3>5 DEF Current
  <2>7. CASE FaceStep
    <3>1. ctx.stage = 7
      BY <2>7 DEF FaceStep
    <3>2. PICK a \in Faces : DrawStep(a) /\ stale' \subseteq (stale \ {a}) \cup {Cut}
      BY <1>2, <2>7, StaleSteps
    <3>3. \A s : Cut \notin OfStage(s)
      BY Kinds DEF OfStage
    <3>4. \A s \in Behind : OfStage(s) \cap stale' = {}
      BY <3>2, <3>3 DEF Current
    <3>5. stale' \cap Faces \cap tck' = {} /\ stale' \cap Faces \subseteq ctx'.todo
      BY <2>1, <3>1, <3>2, Kinds DEF Current, DrawStep
    <3>6. ctx'.todo = {} => OfStage(7) \cap stale' = {}
      BY <3>5 DEF OfStage
    <3> QED BY <2>1, <2>2, <2>3, <3>1, <3>4, <3>5, <3>6 DEF Current
  <2>8. CASE FrameStep \/ ClipStep \/ CutStep
    <3>1. stale' \subseteq {Cut}
      BY <1>2, <2>8, StaleSteps
    <3>2. \A s : Cut \notin OfStage(s) /\ Cut \notin Faces
      BY Kinds DEF OfStage
    <3> QED BY <2>3, <3>1, <3>2 DEF Current
  <2> QED BY <1>2, <2>4, <2>5, <2>6, <2>7, <2>8, StaleSteps
<1>3. CASE ~Make
  <2>1. UNCHANGED stale /\ tck' \subseteq tck
    BY <1>3, StaleMoves, TargetCheckpoints
  <2>2. \A s \in Behind' : OfStage(s) \cap stale = {}
    <3>1. CASE Behind' \subseteq Behind
      BY <3>1 DEF Current
    <3>2. CASE Passed
      <4>1. pc \in {"gate", "critique"} => OfStage(ctx.stage) = {}
        BY DEF IInv, StageInv, Phase, OfStage
      <4>2. OfStage(ctx.stage) \cap stale = {}
        BY <3>2, <4>1 DEF Passed, Current, Working
      <4> QED BY <3>2, <4>2 DEF Passed, Current
    <3>3. TakenBack => Behind' \subseteq Behind
      BY DEF TakenBack
    <3> QED BY <3>1, <3>2, <3>3, CheckpointMoves
  <2>3. pc' \in Working =>
          /\ ctx'.todo = {} => OfStage(ctx'.stage) \cap stale = {}
          /\ ctx'.stage = 7 => stale \cap Faces \subseteq ctx'.todo
    <3> SUFFICES ASSUME pc' \in Working
                 PROVE  /\ ctx'.todo = {} => OfStage(ctx'.stage) \cap stale = {}
                        /\ ctx'.stage = 7 => stale \cap Faces \subseteq ctx'.todo
      OBVIOUS
    <3>1. CASE UNCHANGED <<pc, ctx, Behind>>
      BY <3>1 DEF Current
    <3>2. ASSUME NEW s, NEW scope, NEW redraw, NEW done,
                 s \in {1, 3, 5}, Pending(s, scope, redraw, done) = {}
          PROVE  FALSE
      <4>1. s = 1 => Pending(s, scope, redraw, done) = {Outline}
        BY DEF Pending
      <4>2. s = 3 => Pending(s, scope, redraw, done) = {Sheet}
        BY DEF Pending
      <4>3. s = 5 => Pending(s, scope, redraw, done) = {Board}
        BY DEF Pending
      <4> QED BY <3>2, <4>1, <4>2, <4>3
    <3>3. \A s : s \notin {1, 3, 5, 7} => OfStage(s) = {}
      BY DEF OfStage
    <3>4. CASE /\ EnterStage /\ pc = "loop" /\ pc' = "work" /\ ctx'.stage = ctx.stage
               /\ ctx'.todo = Pending(ctx.stage, ctx.scope, ctx.redraw, tck)
      <4>1. CASE ctx.stage = 7
        <5>5. Up /\ req.start = 1
          BY <3>4, <4>1 DEF Up, IInv, StageInv, Position, Shape
        <5>1. ctx.redraw
          BY <5>5 DEF RedrawsAll
        <5>2. ctx'.todo = Undrawn(Faces, ctx.scope, ctx.redraw, tck)
          BY <3>4, <4>1 DEF Pending
        <5>3. CASE ctx.scope \cap Faces = {}
          <6>1. ctx'.todo = Faces \ tck
            BY <5>1, <5>2, <5>3 DEF Undrawn, InScope, NoScope
          <6> QED BY <3>4, <4>1, <6>1 DEF Current, OfStage
        <5>4. CASE ctx.scope \cap Faces # {}
          BY <5>4, <3>4, <4>1 DEF Narrowed, OfStage
        <5> QED BY <5>3, <5>4
      <4>2. CASE ctx.stage \in {1, 3, 5}
        BY <3>2, <3>4, <4>2
      <4>3. CASE ctx.stage \notin {1, 3, 5, 7}
        BY <3>3, <3>4, <4>3
      <4> QED BY <4>1, <4>2, <4>3
    <3>5. CASE /\ Redo /\ pc = "gate" /\ pc' = "redo"
               /\ ctx'.stage = RedoStage(ctx.stage)
               /\ \E scope, redraw, done : ctx'.todo = Pending(ctx'.stage, scope, redraw, done)
      <4>1. CASE ctx'.stage = 7
        <5>1. ctx.stage \in Gates /\ Up
          BY <3>5 DEF IInv, StageInv, Phase, Up
        <5>2. ctx.stage = 8
          BY <3>5, <4>1, <5>1 DEF RedoStage
        <5>3. 7 \in Behind
          BY <5>1, <5>2, StandsBehind DEF Stands
        <5>4. OfStage(7) \cap stale = {}
          BY <5>3 DEF Current
        <5> QED BY <4>1, <5>4 DEF OfStage
      <4>2. CASE ctx'.stage \in {1, 3, 5}
        BY <3>2, <3>5, <4>2
      <4>3. CASE ctx'.stage \notin {1, 3, 5, 7}
        BY <3>3, <4>3
      <4> QED BY <4>1, <4>2, <4>3
    <3>6. CASE ctx'.stage = 14
      BY <3>3, <3>6
    <3> QED BY <1>3, <3>1, <3>4, <3>5, <3>6, WorkBegins
  <2> QED BY <2>1, <2>2, <2>3 DEF Current
<1> QED BY <1>2, <1>3

LEMMA WholeNext ==
    ASSUME Known, CurrentInv, [Next]_vars
    PROVE  Whole'
<1> USE DEF Known, CurrentInv
<1>1. UNCHANGED req
  BY RequestStays
<1> SUFFICES ASSUME ~Targeted PROVE Whole'
  BY <1>1 DEF Whole, Targeted
<1>2. CASE Make
  <2>1. pc \in Working /\ UNCHANGED <<Behind, pc>>
    BY <1>2, MakeCommits DEF CommitsOne, IInv, StageInv, Behind
  <2>2. ctx'.stage = ctx.stage
    BY <1>2, MakeCommits, MakeLeaves DEF IInv, StageInv
  <2>3. OutlineStep \/ SheetStep \/ BoardStep \/ FaceStep \/ FrameStep \/ ClipStep \/ CutStep
    BY <1>2, MakeSteps DEF IInv, StageInv, SignedInv
  <2>4. CASE OutlineStep \/ SheetStep \/ CutStep
    BY <2>1, <2>2, <2>4 DEF OutlineStep, SheetStep, CutStep, Whole
  <2>5. CASE BoardStep \/ FaceStep \/ FrameStep
    <3>1. ctx.stage \in {5, 7, 10}
      BY <2>5 DEF BoardStep, FaceStep, FrameStep
    <3>2. 13 \notin Behind /\ 12 \notin Behind
      BY <2>1, <3>1, WorkAt
    <3>3. tck \cap Clips = {}
      BY <3>2 DEF OfThisRun
    <3>4. tck' \cap Clips = {}
      BY <2>5, <3>3, MembersApart DEF BoardStep, FaceStep, FrameStep, DrawStep
    <3> QED BY <2>1, <2>2, <3>1, <3>2, <3>4 DEF Whole
  <2>6. CASE ClipStep
    <3>1. PICK a \in Clips : DrawStep(a) /\ have' = have \cup {a}
      BY <2>6 DEF ClipStep
    <3> QED BY <2>1, <2>2, <3>1 DEF DrawStep, Whole
  <2> QED BY <2>3, <2>4, <2>5, <2>6
<1>3. CASE ~Make
  <2>1. UNCHANGED have /\ tck' \subseteq tck
    BY <1>3, StaleMoves, TargetCheckpoints
  <2>2. 13 \in Behind' => Clips \subseteq have
    <3>1. CASE Behind' \subseteq Behind
      BY <3>1 DEF Whole
    <3>2. CASE Passed
      <4>1. CASE ctx.stage = 13
        <5>1. pc \in Working /\ ctx.todo = {}
          BY <3>2, <4>1 DEF Passed, IInv, StageInv, Phase, Working
        <5>2. pc = "work" => Clips \subseteq have
          BY <4>1, <5>1 DEF Whole
        <5>3. pc = "redo" => 13 \in Behind
          BY <4>1, <5>1, WorkAt
        <5> QED BY <5>1, <5>2, <5>3 DEF Whole, Working
      <4>2. CASE ctx.stage # 13
        BY <3>2, <4>2 DEF Passed, Whole
      <4> QED BY <4>1, <4>2
    <3>3. TakenBack => Behind' \subseteq Behind
      BY DEF TakenBack
    <3> QED BY <3>1, <3>2, <3>3, CheckpointMoves
  <2>3. pc' = "work" /\ ctx'.stage = 13 => Clips \ have \subseteq ctx'.todo
    <3> SUFFICES ASSUME pc' = "work", ctx'.stage = 13 PROVE Clips \ have \subseteq ctx'.todo
      OBVIOUS
    <3>1. CASE UNCHANGED <<pc, ctx, Behind>>
      BY <3>1 DEF Whole
    <3>2. CASE /\ pc = "loop" /\ ctx'.stage = ctx.stage
               /\ ctx'.todo = Pending(ctx.stage, ctx.scope, ctx.redraw, tck)
      <4>1. ctx.scope \cap Clips = {}
        BY <3>2 DEF Narrowed
      <4>2. ctx'.todo = Undrawn(Clips, ctx.scope, FALSE, tck)
        <5>1. Pending(13, ctx.scope, ctx.redraw, tck) = Undrawn(Clips, ctx.scope, FALSE, tck)
          BY DEF Pending
        <5>2. ctx.stage = 13
          BY <3>2
        <5> QED BY <3>2, <5>1, <5>2
      <4>3. InScope(Clips, ctx.scope) = Clips
        BY <4>1 DEF InScope, NoScope
      <4> QED BY <4>2, <4>3 DEF Undrawn, Whole
    <3> QED BY <1>3, <3>1, <3>2, WorkBegins DEF Working
  <2> QED BY <2>1, <2>2, <2>3 DEF Whole
<1> QED BY <1>2, <1>3

\* How a step other than a commit changes what a redo has touched.
LEMMA TouchMoves ==
    ASSUME IInv, ~Targeted, Merged, ~Make, [Next]_vars
    PROVE  /\ broken => broken'
           /\ \/ UNCHANGED touched
              \/ touched' = {} /\ (touched # {} => broken')
              \/ touched' = {} /\ RedoDone /\ ctx.stage # 13 /\ pc = "redo" /\ ctx.todo = {}
           /\ touched' # {} => ask'.open
           /\ pc' = "redo" => ask'.open
<1>0. pc = "redo" \/ touched # {} => ask.open
  BY DEF Merged
<1> USE DEF history, db
<1>1. CASE StartRun \/ ResumeRun
  BY <1>0, <1>1 DEF StartRun, ResumeRun, Begin, Succeed
<1>2. CASE EnterStage \/ StageDone \/ Pass \/ SendBack \/ Approve
  BY <1>0, <1>2 DEF EnterStage, StageDone, Pass, SendBack, Approve
<1>3. CASE Reject
  BY <1>0, <1>3 DEF Reject, Narrow
<1>4. CASE RequestChanges
  BY <1>0, <1>4, RequestChangesLeaves DEF RequestChanges
<1>12. CASE Redo
  BY <1>0, <1>12 DEF Redo
<1>5. CASE RedoDone
  <2>1. CASE ctx.stage = 13
    BY <1>0, <1>5, <2>1 DEF RedoDone
  <2>2. CASE ctx.stage # 13
    BY <1>5, <2>2 DEF RedoDone
  <2> QED BY <2>1, <2>2
<1>6. CASE RedoFails
  BY <1>6 DEF RedoFails
<1>7. CASE Complete
  BY <1>0, <1>7 DEF Complete, Succeed
<1>8. CASE FinishCancelled
  BY <1>0, <1>8 DEF FinishCancelled
<1>9. CASE StageFails \/ Crash
  BY <1>0, <1>9 DEF StageFails, Crash, Down
<1>10. CASE CancelRun \/ UNCHANGED vars
  BY <1>0, <1>10 DEF CancelRun, vars
<1>11. CASE StartTargets \/ TargetsDone \/ TargetsPass \/ TargetsReject \/ TargetsComplete \/ TargetsFail
  BY <1>11 DEF StartTargets, TargetsDone, TargetsPass, TargetsReject, TargetsComplete, TargetsFail
<1> QED BY <1>1, <1>2, <1>3, <1>4, <1>5, <1>6, <1>7, <1>8, <1>9, <1>10, <1>11, <1>12 DEF Next, Step

LEMMA MergedNext ==
    ASSUME Known, CurrentInv, [Next]_vars
    PROVE  Merged'
<1> USE DEF Known, CurrentInv
<1>1. UNCHANGED req
  BY RequestStays
<1> SUFFICES ASSUME ~Targeted PROVE Merged'
  BY <1>1 DEF Merged, Targeted
<1>2. CASE Make
  <2>1. pc \in Working /\ UNCHANGED <<Behind, pc>>
    BY <1>2, MakeCommits DEF CommitsOne, IInv, StageInv, Behind
  <2>2. ctx'.stage = ctx.stage
    BY <1>2, MakeCommits, MakeLeaves DEF IInv, StageInv
  <2>3. OutlineStep \/ SheetStep \/ BoardStep \/ FaceStep \/ FrameStep \/ ClipStep \/ CutStep
    BY <1>2, MakeSteps DEF IInv, StageInv, SignedInv
  <2>4. touched' = (IF pc = "redo" THEN touched' ELSE {}) /\ (pc = "redo" => touched' # {})
    <3>1. \A a, gone, done, p : Commit(a, gone, done, p) =>
            touched' = (IF pc = "redo" THEN touched \cup {a} ELSE {})
      BY DEF Commit
    <3>2. CASE WriteOutline \/ PlanSheet \/ PlanBoard \/ MergeClips
      BY <3>1, <3>2 DEF WriteOutline, PlanSheet, PlanBoard, MergeClips
    <3>3. CASE (\E c \in Characters : DrawFace(c)) \/ (\E s \in Shots : DrawFrame(s) \/ ShootClip(s))
      BY <3>1, <3>3 DEF DrawFace, DrawFrame, ShootClip
    <3> QED BY <1>2, <3>2, <3>3 DEF Make
  <2>8. pc = "redo" => ask'.open
    <3>1. ask' = ask
      BY <1>2, MakeCommits DEF CommitsOne, IInv, StageInv
    <3> QED BY <3>1 DEF Merged
  <2>5. CASE OutlineStep \/ SheetStep \/ BoardStep \/ FaceStep \/ FrameStep
    <3>1. ctx.stage \in {1, 3, 5, 7, 10}
      BY <2>5 DEF OutlineStep, SheetStep, BoardStep, FaceStep, FrameStep
    <3>2. 14 \notin Behind
      BY <2>1, <3>1, WorkAt
    <3> QED BY <2>1, <2>2, <2>4, <2>8, <3>1, <3>2 DEF Merged
  <2>6. CASE ClipStep
    <3>1. pc = "work" => 14 \notin Behind
      BY <2>1, <2>6, WorkAt DEF ClipStep
    <3> QED BY <2>1, <2>2, <2>4, <2>6, <2>8, <3>1 DEF Merged, Untouched, ClipStep, Working
  <2>7. CASE CutStep
    <3>1. stale' = {}
      BY <1>2, <2>7, StaleSteps
    <3> QED BY <2>1, <2>4, <2>8, <3>1 DEF Merged, Working
  <2> QED BY <2>3, <2>5, <2>6, <2>7
<1>3. CASE ~Make
  <2>1. UNCHANGED <<stale, have>>
    BY <1>3, StaleMoves
  <2>2. 14 \in Behind' /\ Untouched' => Cut \notin stale
    <3> SUFFICES ASSUME 14 \in Behind', Untouched' PROVE Cut \notin stale
      OBVIOUS
    <3>1. CASE Passed /\ ctx.stage = 14
      <4>1. pc \in Working /\ ctx.todo = {} /\ Shots # {}
        BY <3>1 DEF Passed, IInv, StageInv, Phase, Untouched, Working
      <4> QED BY <3>1, <4>1 DEF Merged
    <3>2. CASE ~(Passed /\ ctx.stage = 14)
      <4>1. 14 \in Behind
        <5>1. CASE Passed
          BY <3>2, <5>1 DEF Passed
        <5>3. TakenBack => Behind' \subseteq Behind
          BY DEF TakenBack
        <5> QED BY <5>1, <5>3, CheckpointMoves
      <4>2. ~broken /\ Shots # {}
        BY <1>3, TouchMoves DEF Untouched
      <4>3. CASE touched = {}
        BY <4>1, <4>2, <4>3 DEF Merged, Untouched
      <4>4. CASE touched # {}
        <5>1. RedoDone /\ ctx.stage # 13 /\ pc = "redo" /\ ctx.todo = {}
          BY <1>3, <4>4, TouchMoves DEF Untouched
        <5>2. CASE ctx.stage = 14
          BY <4>2, <5>1, <5>2 DEF Merged, Working
        <5>3. CASE ctx.stage # 14
          <6>1. ctx.gate \in Gates /\ ctx.stage = ctx.gate - 1
            BY <5>1 DEF IInv, StageInv, Phase
          <6>2. ctx.stage \in 1..11
            BY <5>3, <6>1
          <6>3. \A t \in Behind : t <= ctx.stage
            BY <5>1, <6>2, WorkAt DEF Working
          <6> QED BY <4>1, <6>2, <6>3
        <5> QED BY <5>2, <5>3
      <4> QED BY <4>3, <4>4
    <3> QED BY <3>1, <3>2
  <2>3. pc' \in Working /\ ctx'.stage = 14 /\ ctx'.todo = {} /\ Shots # {} => Cut \notin stale
    <3> SUFFICES ASSUME pc' \in Working, ctx'.stage = 14, ctx'.todo = {}, Shots # {}
                 PROVE  Cut \notin stale
      OBVIOUS
    <3>1. CASE UNCHANGED <<pc, ctx, Behind>>
      BY <3>1 DEF Merged
    <3>2. 13 \in Behind => Clips \cap have # {}
      BY DEF Whole, Clips
    <3>3. \A scope, redraw, done : 13 \in Behind => Pending(14, scope, redraw, done) # {}
      BY <3>2 DEF Pending
    <3>4. CASE pc = "loop" /\ ctx'.stage = ctx.stage
               /\ ctx'.todo = Pending(ctx.stage, ctx.scope, ctx.redraw, tck)
      <4>1. 13 \in Behind
        BY <3>4, StandsBehind DEF Stands, Up
      <4> QED BY <3>3, <3>4, <4>1
    <3>5. CASE pc = "gate" /\ ctx'.stage = RedoStage(ctx.stage)
      BY <3>5 DEF RedoStage, IInv, StageInv, Phase
    <3>6. CASE pc = "redo" /\ ctx.gate = 15 /\ ctx'.todo = Pending(14, ctx.scope, ctx.redraw, tck)
      <4>1. 13 \in Behind
        BY <3>6, StandsBehind DEF Stands, Up
      <4> QED BY <3>3, <3>6, <4>1
    <3> QED BY <1>3, <3>1, <3>4, <3>5, <3>6, WorkBegins
  <2>4. pc' = "redo" \/ touched' # {} => ask'.open
    BY <1>3, TouchMoves
  <2> QED BY <2>1, <2>2, <2>3, <2>4 DEF Merged
<1> QED BY <1>2, <1>3

\* The final video stays once it is merged.
LEMMA CutStays == ASSUME Known, [Next]_vars, Cut \in have, Make => ctx.stage \notin {3, 5} PROVE Cut \in have'
<1>1. CASE Make
  BY <1>1, MakeSteps DEF Known, IInv, StageInv, SignedInv, OutlineStep, SheetStep, BoardStep,
                         FaceStep, FrameStep, ClipStep, CutStep, DrawStep
<1> QED BY <1>1, StaleMoves

\* Only an approval passes a gate.
LEMMA GatePasses ==
    ASSUME IInv, [Next]_vars, pc = "gate", Behind' # Behind
    PROVE  Approve
<1> USE DEF history, db, Behind
<1>1. CASE RequestChanges \/ Redo
  BY <1>1 DEF RequestChanges, Redo
<1>2. CASE StageFails \/ Crash \/ CancelRun \/ FinishCancelled \/ UNCHANGED vars
  BY <1>2 DEF StageFails, Crash, Down, CancelRun, FinishCancelled, vars
<1>3. CASE StartRun \/ ResumeRun \/ StartTargets \/ EnterStage \/ StageDone
  BY <1>3 DEF StartRun, ResumeRun, StartTargets, EnterStage, StageDone
<1>4. CASE Pass \/ Reject \/ SendBack \/ RedoDone \/ RedoFails \/ Complete
  BY <1>4 DEF Pass, Reject, SendBack, RedoDone, RedoFails, Complete
<1>5. CASE TargetsDone \/ TargetsPass \/ TargetsReject \/ TargetsComplete \/ TargetsFail
  BY <1>5 DEF TargetsDone, TargetsPass, TargetsReject, TargetsComplete, TargetsFail
<1>6. CASE Make
  BY <1>6, MakeCommits DEF CommitsOne, IInv, StageInv, Working
<1> QED BY <1>1, <1>2, <1>3, <1>4, <1>5, <1>6 DEF Next, Step

\* From the last approval on a run only ends.
LEMMA FinishedMoves ==
    ASSUME IInv, ~Targeted, [Next]_vars, 15 \in Behind, Cut \in have, ~ask.open,
           pc \in {"down", "over"} \/ (pc = "loop" /\ ctx.stage = 16)
    PROVE  ~ask'.open /\ (pc' \in {"down", "over"} \/ (pc' = "loop" /\ ctx'.stage = 16))
<1> USE DEF history, db
<1>0. 15 \in ck
  BY BehindRun
<1>1. CASE StartRun
  BY <1>0, <1>1 DEF StartRun, IInv, StageInv, Phase
<1>2. CASE ResumeRun
  <2>1. LastCompleted = 15
    <3>1. \A t \in ck : t \in 1..15
      BY DEF IInv, StageInv, Shape
    <3>2. LastCompleted \in ck /\ \A t \in ck : t <= LastCompleted
      BY <1>0, <3>1, LastIsLast DEF IInv, StageInv, Shape
    <3> QED BY <1>0, <3>1, <3>2
  <2> QED BY <1>2, <2>1 DEF ResumeRun, Succeed
<1>3. CASE EnterStage \/ StageDone \/ Pass \/ Reject \/ SendBack \/ Approve
  BY <1>3 DEF EnterStage, StageDone, Pass, Reject, SendBack, Approve
<1>4. CASE RequestChanges \/ Redo \/ RedoDone \/ RedoFails
  BY <1>4 DEF RequestChanges, Redo, RedoDone, RedoFails
<1>5. CASE StageFails \/ Crash \/ FinishCancelled
  BY <1>5 DEF StageFails, Crash, Down, FinishCancelled
<1>9. CASE Complete
  BY <1>9 DEF Complete, Succeed
<1>6. CASE CancelRun \/ UNCHANGED vars
  BY <1>6 DEF CancelRun, vars
<1>7. CASE StartTargets \/ TargetsDone \/ TargetsPass \/ TargetsReject \/ TargetsComplete \/ TargetsFail
  BY <1>7 DEF StartTargets, TargetsDone, TargetsPass, TargetsReject, TargetsComplete, TargetsFail
<1>8. CASE Make
  BY <1>8, MakeCommits DEF CommitsOne, IInv, StageInv, Working
<1> QED BY <1>1, <1>2, <1>3, <1>4, <1>5, <1>6, <1>7, <1>8, <1>9 DEF Next, Step

LEMMA FinishedNext ==
    ASSUME Known, CurrentInv, [Next]_vars
    PROVE  Finished'
<1> USE DEF Known, CurrentInv
<1>1. UNCHANGED req
  BY RequestStays
<1> SUFFICES ASSUME ~Targeted, Shots # {} PROVE Finished'
  BY <1>1 DEF Finished, Targeted
<1>2. CASE Make
  <2>1. pc \in Working /\ UNCHANGED <<Behind, pc, ask>>
    BY <1>2, MakeCommits DEF CommitsOne, IInv, StageInv, Behind
  <2>2. ctx'.stage = ctx.stage
    BY <1>2, MakeCommits, MakeLeaves DEF IInv, StageInv
  <2>3. 15 \notin Behind
    BY <2>1 DEF Finished, Working
  <2>4. 14 \in Behind => Cut \in have'
    <3>1. 14 \in Behind => ctx.stage \notin {3, 5}
      BY <2>1, WorkAt
    <3> QED BY <3>1, CutStays DEF Finished
  <2>5. ctx.stage = 14 => Cut \in have'
    BY <1>2, MakeSteps DEF IInv, StageInv, SignedInv, OutlineStep, SheetStep, BoardStep,
                           FaceStep, FrameStep, ClipStep, CutStep
  <2> QED BY <2>1, <2>2, <2>3, <2>4, <2>5 DEF Finished
<1>3. CASE ~Make
  <2>1. UNCHANGED have
    BY <1>3, StaleMoves
  <2>2. 14 \in Behind' => Cut \in have
    <3>1. CASE Passed /\ ctx.stage = 14
      <4>1. pc \in Working /\ ctx.todo = {}
        BY <3>1 DEF Passed, IInv, StageInv, Phase, Working
      <4> QED BY <3>1, <4>1 DEF Finished
    <3>2. CASE ~(Passed /\ ctx.stage = 14)
      BY <3>2, CheckpointMoves DEF Passed, TakenBack, Finished
    <3> QED BY <3>1, <3>2
  <2>3. pc' \in Working /\ ctx'.stage = 14 /\ ctx'.todo = {} => Cut \in have
    <3> SUFFICES ASSUME pc' \in Working, ctx'.stage = 14, ctx'.todo = {}
                 PROVE  Cut \in have
      OBVIOUS
    <3>1. CASE UNCHANGED <<pc, ctx, Behind>>
      BY <3>1 DEF Finished
    <3>2. 13 \in Behind => Clips \cap have # {}
      BY DEF Whole, Clips
    <3>3. \A scope, redraw, done : 13 \in Behind => Pending(14, scope, redraw, done) # {}
      BY <3>2 DEF Pending
    <3>4. CASE pc = "loop" /\ ctx'.stage = ctx.stage
               /\ ctx'.todo = Pending(ctx.stage, ctx.scope, ctx.redraw, tck)
      <4>1. 13 \in Behind
        BY <3>4, StandsBehind DEF Stands, Up
      <4> QED BY <3>3, <3>4, <4>1
    <3>5. CASE pc = "gate" /\ ctx'.stage = RedoStage(ctx.stage)
      BY <3>5 DEF RedoStage, IInv, StageInv, Phase
    <3>6. CASE pc = "redo" /\ ctx.gate = 15 /\ ctx'.todo = Pending(14, ctx.scope, ctx.redraw, tck)
      <4>1. 13 \in Behind
        BY <3>6, StandsBehind DEF Stands, Up
      <4> QED BY <3>3, <3>6, <4>1
    <3> QED BY <1>3, <3>1, <3>4, <3>5, <3>6, WorkBegins
  <2>4. CASE 15 \notin Behind'
    BY <2>1, <2>2, <2>3, <2>4 DEF Finished
  <2>5. CASE 15 \in Behind'
    <3>1. CASE 15 \in Behind
      <4>1. Cut \in have /\ ~ask.open /\ (pc \in {"down", "over"} \/ (pc = "loop" /\ ctx.stage = 16))
        <5>1. 14 \in Behind
          BY <3>1, BehindRun DEF IInv, StageInv, NoHole, Stands
        <5> QED BY <3>1, <5>1 DEF Finished
      <4>2. ~ask'.open /\ (pc' \in {"down", "over"} \/ (pc' = "loop" /\ ctx'.stage = 16))
        BY <1>3, <3>1, <4>1, FinishedMoves
      <4> QED BY <2>1, <2>2, <2>3, <4>2 DEF Finished
    <3>2. CASE 15 \notin Behind
      <4>1. Passed /\ ctx.stage = 15
        BY <2>5, <3>2, CheckpointMoves DEF Passed, TakenBack
      <4>2. Approve
        <5>1. pc = "gate" /\ Behind' # Behind
          BY <2>5, <3>2, <4>1 DEF IInv, StageInv, Phase, Passed
        <5> QED BY <5>1, GatePasses
      <4>3. ~ask'.open /\ pc' = "loop" /\ ctx'.stage = 16
        BY <4>1, <4>2, ApproveLeaves DEF Approve, IInv, StageInv
      <4> QED BY <2>1, <2>2, <2>3, <4>3 DEF Finished, Working
    <3> QED BY <3>1, <3>2
  <2> QED BY <2>4, <2>5
<1> QED BY <1>2, <1>3

LEMMA BrokenStays == ASSUME [Next]_vars PROVE broken => broken'
<1> USE DEF history, db
<1>1. CASE StartRun \/ ResumeRun \/ StartTargets
  BY <1>1 DEF StartRun, ResumeRun, StartTargets
<1>2. CASE EnterStage \/ StageDone \/ TargetsDone \/ Pass \/ TargetsPass \/ SendBack \/ Approve
  BY <1>2 DEF EnterStage, StageDone, TargetsDone, Pass, TargetsPass, SendBack, Approve
<1>3. CASE Reject \/ TargetsReject
  BY <1>3 DEF Reject, TargetsReject, Narrow
<1>4. CASE RequestChanges \/ Redo \/ RedoDone \/ RedoFails
  BY <1>4 DEF RequestChanges, Redo, RedoDone, RedoFails
<1>5. CASE Complete \/ TargetsComplete \/ FinishCancelled \/ CancelRun
  BY <1>5 DEF Complete, TargetsComplete, FinishCancelled, CancelRun
<1>6. CASE StageFails \/ TargetsFail \/ Crash \/ UNCHANGED vars
  BY <1>6 DEF StageFails, TargetsFail, Crash, Down, vars
<1>7. CASE Make
  BY <1>7 DEF Make, WriteOutline, PlanSheet, PlanBoard, MergeClips, DrawFace, DrawFrame, ShootClip, Commit
<1> QED BY <1>1, <1>2, <1>3, <1>4, <1>5, <1>6, <1>7 DEF Next, Step

\* Who says ready: the merge, and the end of a run that has all its stages.
ReadyEnd ==
    /\ project' = "ready" /\ Cut \in have /\ UNCHANGED <<have, stale, Behind, broken, touched>>
    /\ {3, 5, 7, 13, 14} \subseteq Behind /\ pc' = "over" /\ (Shots # {} => touched = {})

LEMMA ProjectMoves ==
    ASSUME Known, Merged, Finished, ~Make, [Next]_vars
    PROVE  UNCHANGED project \/ project' = "failed" \/ (~Targeted /\ ReadyEnd)
<1> USE DEF Known, IInv, StageInv, history, db
<1>1. CASE StartRun
  BY <1>1 DEF StartRun, Begin
<1>2. CASE ResumeRun
  <2>1. CASE UNCHANGED project
    BY <2>1
  <2>2. CASE ~UNCHANGED project
    <3>1. LastCompleted = 15 /\ Cut \in have /\ Succeed("ready") /\ pc = "down"
          /\ UNCHANGED <<have, stale, Behind, broken, touched>>
      BY <1>2, <2>2 DEF ResumeRun, Begin, Behind
    <3>2. ck # {} /\ ~Targeted
      BY <1>2 DEF ResumeRun
    <3>3. 15 \in ck /\ 15 \in Behind
      BY <3>1, <3>2, LastIsLast, BehindRun DEF Shape
    <3>4. {3, 5, 7, 13, 14} \subseteq Behind
      <4>1. \A t \in 1..15 : t < 15 => t \in Behind
        BY <3>3, BehindRun DEF NoHole
      <4> QED BY <4>1
    <3>5. Shots # {} => touched = {}
      BY <3>2, <3>3 DEF Merged, Finished
    <3> QED BY <3>1, <3>2, <3>4, <3>5 DEF Succeed, ReadyEnd
  <2> QED BY <2>1, <2>2
<1>3. CASE StartTargets
  BY <1>3 DEF StartTargets, BeginTargets, Begin, Succeed
<1>4. CASE EnterStage \/ StageDone \/ TargetsDone \/ Pass \/ TargetsPass \/ SendBack \/ Approve
  BY <1>4 DEF EnterStage, StageDone, TargetsDone, Pass, TargetsPass, SendBack, Approve
<1>5. CASE Reject \/ TargetsReject
  BY <1>5 DEF Reject, TargetsReject, Narrow
<1>6. CASE RequestChanges \/ Redo \/ RedoDone \/ RedoFails
  BY <1>6 DEF RequestChanges, Redo, RedoDone, RedoFails
<1>7. CASE Complete
  <2>1. CASE UNCHANGED project \/ project' = "failed"
    BY <2>1
  <2>2. CASE ~(UNCHANGED project \/ project' = "failed")
    <3>1. /\ Cut \in have /\ Succeed("ready") /\ UNCHANGED <<have, stale, Behind, broken, touched>>
          /\ ~Targeted /\ pc = "loop" /\ (ctx.stage = 16 \/ Cut64)
      BY <1>7, <2>2 DEF Complete, Behind
    <3>2. ctx.stage = 16
      BY <3>1, Types, BoundsAssumption, GuardAssumption
         DEF Guarded, Cut64, Up, Detours, Cap
    <3>3. {3, 5, 7, 13, 14, 15} \subseteq Behind
      BY <3>1, <3>2, StandsBehind DEF Up, Stands
    <3>4. Shots # {} => touched = {}
      BY <3>1, <3>3 DEF Merged, Finished
    <3> QED BY <3>1, <3>3, <3>4 DEF Succeed, ReadyEnd
  <2> QED BY <2>1, <2>2
<1>8. CASE TargetsComplete
  BY <1>8 DEF TargetsComplete, Succeed
<1>9. CASE FinishCancelled \/ CancelRun \/ UNCHANGED vars
  BY <1>9 DEF FinishCancelled, CancelRun, vars
<1>10. CASE StageFails \/ TargetsFail \/ Crash
  BY <1>10 DEF StageFails, TargetsFail, Crash, Down
<1> QED BY <1>1, <1>2, <1>3, <1>4, <1>5, <1>6, <1>7, <1>8, <1>9, <1>10 DEF Next, Step

\* A commit of a targeted run, or of a full one, leaves a project that is not
\* ready any more, or ready with a current final video.
LEMMA MakeReady ==
    ASSUME Known, CurrentInv, Make, project' = "ready"
    PROVE  CutStep
<1> USE DEF Known, CurrentInv
<1>1. OutlineStep \/ SheetStep \/ BoardStep \/ FaceStep \/ FrameStep \/ ClipStep \/ CutStep
  BY MakeSteps DEF IInv, StageInv, SignedInv
<1>2. pc \in Working
  BY MakeCommits DEF CommitsOne, IInv, StageInv, Behind
<1>3. CASE OutlineStep
  BY <1>3 DEF OutlineStep
<1>4. CASE SheetStep \/ BoardStep
  <2>1. ctx.stage \in {3, 5} /\ project = "ready"
    BY <1>4 DEF SheetStep, BoardStep
  <2>2. ~Targeted
    BY <2>1 DEF IInv, StageInv, Phase
  <2>3. 13 \notin Behind /\ 1 \in Behind
    BY <1>2, <2>1, <2>2, WorkAt
  <2> QED BY <2>1, <2>2, <2>3 DEF ReadySince
<1>5. CASE FaceStep \/ FrameStep \/ ClipStep
  <2>1. project' = Superseded(project)
    BY <1>5 DEF FaceStep, FrameStep, ClipStep, DrawStep
  <2> QED BY <2>1 DEF Superseded, ReadySince
<1> QED BY <1>1, <1>3, <1>4, <1>5

LEMMA ReadyNext ==
    ASSUME Known, CurrentInv, [Next]_vars
    PROVE  ReadySince' /\ ReadyIsCurrent'
<1> USE DEF Known, CurrentInv
<1>1. UNCHANGED req
  BY RequestStays
<1>2. CASE Make
  <2> SUFFICES ASSUME project' = "ready" PROVE ReadySince' /\ ReadyIsCurrent'
    BY DEF ReadySince, ReadyIsCurrent
  <2>1. CutStep
    BY <1>2, MakeReady
  <2>2. pc \in Working /\ UNCHANGED <<Behind, pc>>
    BY <1>2, MakeCommits DEF CommitsOne, IInv, StageInv, Behind
  <2>3. ~Targeted
    BY <2>1 DEF CutStep, IInv, StageInv, Phase
  <2>4. 13 \in Behind
    BY <2>1, <2>2, <2>3, WorkAt DEF CutStep
  <2>5. stale' = {}
    BY <1>2, <2>1, <2>3, StaleSteps
  <2> QED BY <2>1, <2>2, <2>4, <2>5 DEF CutStep, ReadySince, ReadyIsCurrent
<1>3. CASE ~Make
  <2>1. UNCHANGED <<stale, have>>
    BY <1>3, StaleMoves
  <2>2. CASE ~Targeted /\ ReadyEnd
    <3>1. stale \subseteq {Cut}
      BY <2>2, CurrentBefore DEF ReadyEnd
    <3>2. ~broken /\ Shots # {} => Cut \notin stale
      BY <2>2 DEF ReadyEnd, Merged, Untouched
    <3> QED BY <2>2, <3>1, <3>2 DEF ReadyEnd, ReadySince, ReadyIsCurrent, Working
  <2>3. CASE project' = "failed"
    BY <2>3 DEF ReadySince, ReadyIsCurrent
  <2>4. CASE UNCHANGED project
    <3> SUFFICES ASSUME project = "ready" PROVE ReadySince' /\ ReadyIsCurrent'
      BY <2>4 DEF ReadySince, ReadyIsCurrent
    <3>1. CASE Targeted
      <4>1. stale = {} \/ broken \/ Shots = {}
        BY DEF ReadyIsCurrent
      <4>2. broken => broken'
        BY <1>3, BrokenStays
      <4> QED BY <1>1, <2>1, <2>4, <3>1, <4>1, <4>2 DEF ReadySince, ReadyIsCurrent, Targeted
    <3>2. CASE ~Targeted
      <4>1. ReadyIsCurrent'
        BY <1>3, <2>1, <2>4, <3>2, TouchMoves DEF ReadyIsCurrent
      <4>3. 13 \in Behind => 13 \in Behind'
        BY <3>2, CheckpointMoves, NothingAfterReview DEF Passed, TakenBack
      <4>4. CASE Behind = {}
        <5>1. pc \in Working => Outline \in ctx.todo
          BY <3>2, <4>4 DEF ReadySince
        <5>2. pc \notin {"gate", "critique", "sendback"}
          <6>1. pc \in {"gate", "critique", "sendback"} => 1 < ctx.stage /\ Up
            BY <3>2 DEF IInv, StageInv, Phase, Up
          <6>2. Up => Stands(1, Behind, ctx.stage)
            BY <3>2, StandsBehind
          <6> QED BY <4>4, <6>1, <6>2 DEF Stands
        <5>3. Behind' = {}
          BY <3>2, <4>4, <5>1, <5>2, CheckpointMoves DEF Passed, TakenBack, Working
        <5>4. pc' \in Working => Outline \in ctx'.todo
          <6>1. CASE /\ pc = "loop" /\ ctx'.todo = Pending(ctx.stage, ctx.scope, ctx.redraw, tck)
            <7>1. Stands(1, Behind, ctx.stage) /\ ctx.stage \in 1..16
              BY <3>2, <6>1, Types, StandsBehind DEF IInv, StageInv, Up
            <7>2. ctx.stage = 1
              BY <4>4, <7>1 DEF Stands
            <7> QED BY <6>1, <7>2 DEF Pending
          <6>2. CASE pc = "redo" /\ ctx.gate = 15
            BY <3>2, <4>4, <6>2, WorkAt DEF Working
          <6> QED BY <1>3, <3>2, <5>1, <5>2, <6>1, <6>2, WorkBegins
        <5> QED BY <2>1, <2>4, <4>1, <5>3, <5>4 DEF ReadySince
      <4>5. 13 \in Behind \/ Behind = {}
        BY <3>2 DEF ReadySince
      <4>6. CASE 13 \in Behind
        BY <2>1, <2>4, <4>1, <4>3, <4>6 DEF ReadySince
      <4> QED BY <4>1, <4>4, <4>5, <4>6
    <3> QED BY <3>1, <3>2
  <2> QED BY <1>3, <2>2, <2>3, <2>4, ProjectMoves
<1> QED BY <1>2, <1>3

LEMMA CurrentInit == Init => CurrentInv
<1> SUFFICES ASSUME Init PROVE CurrentInv
  OBVIOUS
<1>1. /\ pc = "down" /\ ck = {} /\ tck = {} /\ touched = {} /\ ~broken
      /\ ctx.scope = {} /\ ctx.saved = {} /\ ~ask.open
  BY NoAskShape DEF Init, Idle, NoScope
<1>2. RedrawsAll /\ Narrowed /\ OfThisRun
  BY <1>1 DEF RedrawsAll, Narrowed, OfThisRun, Up
<1>3. /\ stale \subseteq {Cut}
      /\ project \in {"draft", "ready", "superseded"}
      /\ project = "ready" => stale = {} /\ Cut \in have
  <2>1. Cut \in Artifact
    BY DEF Artifact
  <2> QED BY <2>1 DEF Init, ToMake, ToRecompose
<1>4. /\ 14 \notin Behind /\ 15 \notin Behind
      /\ req.start = 1 => Behind = {}
      /\ req.start # 1 => req.start = 14 /\ 13 \in Behind /\ Clips \subseteq have
  <2>1. Clips \subseteq Artifact /\ Cut \notin Clips
    BY Kinds DEF Artifact, Media
  <2>2. req.start \in {1, 14}
    BY DEF Init, Request
  <2> QED BY <1>1, <2>1, <2>2 DEF Behind, Init, Full, ToRecompose
<1>5. Current
  <2>1. \A s : OfStage(s) \cap {Cut} = {}
    BY Kinds DEF OfStage
  <2> QED BY <1>1, <1>3, <2>1, Kinds DEF Current, Working
<1>6. Whole /\ Merged /\ Finished
  BY <1>1, <1>4 DEF Whole, Merged, Finished, Working
<1>7. ReadySince /\ ReadyIsCurrent
  BY <1>1, <1>3, <1>4 DEF ReadySince, ReadyIsCurrent, Working
<1> QED BY <1>2, <1>5, <1>6, <1>7 DEF CurrentInv

\* A project is shown as ready only while its final video is of what it has:
\* no order of reviews, redos, crashes and resumes lets the merge be passed
\* over or something be redrawn after it, but for the redo noted in broken.
THEOREM ReadyMeansCurrent == Spec => []ReadyIsCurrent
<1>1. Known /\ CurrentInv /\ [Next]_vars => CurrentInv'
  <2> SUFFICES ASSUME Known, CurrentInv, [Next]_vars PROVE CurrentInv'
    OBVIOUS
  <2>1. RedrawsAll' /\ Narrowed' /\ OfThisRun'
    BY RedrawsNext, NarrowedNext, OfThisRunNext DEF Known, CurrentInv
  <2> QED BY <2>1, CurrentNext, WholeNext, MergedNext, FinishedNext, ReadyNext DEF CurrentInv
<1>2. CurrentInv => ReadyIsCurrent
  BY DEF CurrentInv
<1> QED BY <1>1, <1>2, CurrentInit, DerivedAlways, SignedAlways, AskedAlways, Invariant,
           PTL DEF Spec, Known

=============================================================================
