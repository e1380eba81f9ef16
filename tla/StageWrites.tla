----------------------------- MODULE StageWrites -----------------------------
(***************************************************************************)
(* What a stage reads and writes while others write the same rows.  A      *)
(* stage attempt (engine/src/db.ts) freezes its input before its first     *)
(* side effect; the stage reads that input (SharedDb, shared-db.ts) and    *)
(* writes the live rows by compare-and-set on their revisions.  Meanwhile  *)
(* users edit and delete shots over HTTP, and the engine crashes and       *)
(* resumes.                                                                *)
(*                                                                         *)
(* Shots stand for every versioned entity of a project; the stages are the *)
(* ones that write shots: plan, keyframes, their gate, review, clips.      *)
(* Which stages run, for whom, is Workflow's subject.                      *)
(***************************************************************************)
EXTENDS Naturals, FiniteSets, Sequences

CONSTANTS
    PlanSize,       \* how many shots a plan has
    MaxRounds,      \* critique_max_rounds
    Replies,        \* what the critic may reply when it is shown a picture
    MaxEvents       \* bound: crashes, provider failures, users' requests, redos

ASSUME SizeAssumption == PlanSize \in Nat \ {0}
ASSUME BoundsAssumption == MaxRounds \in Nat /\ MaxEvents \in Nat

\* A reply: the score against the threshold, the story checks, reported issues.
Reply == [score : {"none", "low", "high"}, checks : {"absent", "failed", "held"},
          issues : BOOLEAN]
ASSUME RepliesAssumption == Replies # {} /\ Replies \subseteq Reply

VARIABLES
    rows,           \* the shots that exist, by row id
    project,        \* revision, status, and whether there is a final video
    attempts,       \* engine_stage_attempts of the run, in order
    ck,             \* the last stage with a checkpoint
    tck,            \* target checkpoints
    ask,            \* gate_feedback: the change request nobody has answered yet
    eng,            \* the engine's memory: lost in a crash
    left,           \* what the bound leaves
    used,           \* history: under which keys a target was asked for, unanswered yet
    mine            \* history: rows (0: the project) the running attempt wrote last

vars == <<rows, project, attempts, ck, tck, ask, eng, left, used, mine>>
store == <<rows, project, tck>>

-----------------------------------------------------------------------------
Plan == 1   Render == 2   Gate == 3   Review == 4   Shoot == 5   \* stages
Stage == Plan..Shoot

Texts == 1..(MaxEvents + 1)             \* versions of a description
NoPicture == 0
Picture == Texts \cup {NoPicture}      \* the description it was drawn from
Verdict == {"none", "passed", "open"}  \* open: failed or unchecked, the picture stays
Row == [rev : Nat, text : Texts, frame : Picture, clip : Picture,
        review : Verdict]
Blank == [rev |-> 0, text |-> 1, frame |-> NoPicture, clip |-> NoPicture,
          review |-> "none"]
Project == [rev : Nat, superseded : BOOLEAN, cut : BOOLEAN]

Ids == DOMAIN rows
Target == {"plan", "frame", "clip", "review"} \X Nat
KindOf(s) == CASE s = Plan -> "plan" [] s = Render -> "frame"
               [] s = Review -> "review" [] OTHER -> "clip"

Frames(ids) == {<<"frame", i>> : i \in ids}

NoScope == {}
Unread == [rev |-> 0, superseded |-> FALSE, cut |-> FALSE]
Idle == [pc |-> "down", stage |-> Plan, at |-> 0,
         frozen |-> <<>>, project |-> Unread, own |-> 0, todo |-> {}, scope |-> NoScope,
         again |-> {}, rounds |-> 0, redo |-> FALSE, blind |-> FALSE]
\* broken (history): a redo of the request was cut short by a crash.
NoAsk == [open |-> FALSE, ids |-> {}, broken |-> FALSE]
Asked(ids) == [open |-> TRUE, ids |-> ids, broken |-> FALSE]
Pc == {"down", "loop", "stage", "provider", "made", "ended", "over"}

TypeOK ==
    /\ Ids \subseteq Nat \ {0} /\ \A i \in Ids : rows[i] \in Row
    /\ project \in Project
    /\ \A n \in DOMAIN attempts : /\ attempts[n].stage \in Stage \ {Gate}
                                  /\ attempts[n].status \in {"started", "succeeded", "failed"}
    /\ ck \in 0..Shoot /\ tck \subseteq Target /\ used \subseteq Target \X Nat
    /\ ask \in [open : BOOLEAN, ids : SUBSET (Nat \ {0}), broken : BOOLEAN]
    /\ eng.pc \in Pc /\ eng.stage \in Stage /\ eng.at \in 0..Len(attempts)
    /\ eng.todo \subseteq DOMAIN eng.frozen
    /\ eng.pc \in {"stage", "provider", "made"} => attempts[eng.at].status = "started"
    /\ eng.redo => eng.stage = Render
    /\ mine \subseteq Ids \cup {0}

Min(S) == CHOOSE i \in S : \A j \in S : i <= j
Max(S) == CHOOSE i \in S : \A j \in S : i >= j

-----------------------------------------------------------------------------
(* Attempts *)

\* beginStageAttempt: a started attempt is the interrupted operation, and is
\* taken as it is, with the input and the key it had.
SameInput(s) ==    \* mutant: found by its input
    {n \in DOMAIN attempts : attempts[n].stage = s /\ attempts[n].status = "started"
                                /\ attempts[n].rows = rows}
Interrupted(s) ==
    {n \in DOMAIN attempts : attempts[n].stage = s /\ attempts[n].status = "started"}
Fresh(s) == [stage |-> s, status |-> "started", rows |-> rows, project |-> project]

\* What the stage has to do; a row that is gone has no picture.
Has(i, s) == i \in Ids /\ (IF s = Render THEN rows[i].frame ELSE rows[i].clip) # NoPicture
InScope(frozen) == IF eng.scope = NoScope THEN DOMAIN frozen ELSE DOMAIN frozen \cap eng.scope
Pending(s, frozen) ==
    CASE s = Plan -> {}
      [] s = Review -> InScope(frozen)
      [] OTHER -> {i \in InScope(frozen) :
                     <<KindOf(s), i>> \notin tck /\ (i \in eng.scope \/ ~Has(i, s))}

Enter(s, n, all) ==
    /\ attempts' = all
    /\ eng' = [eng EXCEPT !.pc = "stage", !.stage = s, !.at = n,
                          !.frozen = all[n].rows, !.project = all[n].project, !.own = 0,
                          !.todo = Pending(s, all[n].rows), !.again = {}]

BeginAttempt ==
    /\ eng.pc = "loop" /\ eng.stage # Gate
    /\ LET s == eng.stage IN
         \/ /\ ~eng.redo /\ Interrupted(s) # {}
            /\ Enter(s, Max(Interrupted(s)), attempts)
         \/ /\ eng.redo \/ Interrupted(s) = {}
            /\ Enter(s, Len(attempts) + 1, Append(attempts, Fresh(s)))
    /\ UNCHANGED <<store, ck, ask, left, used, mine>>

StillStarted(status) == attempts    \* mutant: a failed attempt is left open
Ended(status) ==    \* nobody reads the input of an ended attempt again
    [attempts EXCEPT ![eng.at] = [stage |-> eng.stage, status |-> status,
                                  rows |-> <<>>, project |-> Unread]]

-----------------------------------------------------------------------------
(* Provider calls: long, under the attempt's key; everything may happen      *)
(* before the answer is used                                                 *)

Now == IF eng.stage = Plan THEN 0 ELSE Min(eng.todo)   \* one after another
Here == <<KindOf(eng.stage), Now>>

CallProvider ==
    /\ eng.pc = "stage"
    /\ eng.stage = Plan \/ eng.todo # {}
    /\ ~eng.blind
    /\ eng' = [eng EXCEPT !.pc = "provider"]
    /\ used' = used \cup {<<Here, eng.at>>}
    /\ UNCHANGED <<store, attempts, ck, ask, left, mine>>

Served(t) == {u \in used : u[1] # t}

NextPc(todo) == IF todo = {} THEN "made" ELSE "stage"
DoneWith(i) == [eng EXCEPT !.todo = @ \ {i}, !.pc = NextPc(eng.todo \ {i})]

\* A planned board replaces the one in the frozen input.  Row ids are the
\* highest of the table plus one: a deleted one at the end comes back.
Inserted(kept) == LET top == IF kept = {} THEN 0 ELSE Max(kept)
                  IN  (top + 1)..(top + PlanSize)
\* deleteShot: the row goes, and so does what the frozen input knew of it.
Deleted == [i \in Ids \ DOMAIN eng.frozen |-> rows[i]]
ForgetFrozen == [eng EXCEPT !.frozen = <<>>]
WritePlan ==
    /\ eng.pc = "provider" /\ eng.stage = Plan
    /\ LET new == Inserted(DOMAIN Deleted)
       IN rows' = [i \in DOMAIN Deleted \cup new |-> IF i \in new THEN Blank ELSE Deleted[i]]
    /\ eng' = [ForgetFrozen EXCEPT !.pc = "made"]
    /\ used' = Served(Here)
    /\ UNCHANGED <<project, tck, attempts, ck, ask, left, mine>>

\* expectedRevision of the project: the stage's own last write, else its input.
OwnForgotten(rev) == 0    \* mutant: the revision the stage left behind is not kept
OwnNoted(rev) == rev
Expected == IF eng.own # 0 THEN eng.own ELSE eng.project.rev
MarksProject == eng.project.cut /\ ~eng.project.superseded
ProjectFits == MarksProject => project.rev = Expected
MarkProject ==
    IF MarksProject
    THEN project' = [project EXCEPT !.superseded = TRUE, !.rev = @ + 1]
    ELSE UNCHANGED project

Write(i, row) ==
    /\ rows' = [rows EXCEPT ![i] = [row EXCEPT !.rev = rows[i].rev + 1]]
    /\ MarkProject
    /\ tck' = tck \cup {Here}
    /\ used' = Served(Here)
    /\ eng' = [DoneWith(i) EXCEPT !.own = IF MarksProject THEN OwnNoted(project.rev + 1) ELSE @]
    /\ mine' = mine \cup {i} \cup (IF MarksProject THEN {0} ELSE {})
    /\ UNCHANGED <<attempts, ck, ask, left>>

\* The keyframe is written at the revision of the row it was drawn from.
LiveFits(i) == i \in Ids    \* mutant: it is written at the revision of the moment
RowFits(i) == i \in Ids /\ rows[i].rev = eng.frozen[i].rev
WriteFrame ==
    /\ eng.pc = "provider" /\ eng.stage = Render
    /\ RowFits(Now) /\ ProjectFits
    /\ Write(Now, [rows[Now] EXCEPT !.frame = eng.frozen[Now].text, !.clip = NoPicture,
                                    !.review = "none"])

\* A reply without checks is asked for once more; without them a reported
\* issue is the only sign left that the picture tells the wrong story.
Answers == {r \in Replies : r.checks # "absent"} \cup
           IF \E r \in Replies : r.checks = "absent" THEN Replies ELSE {}
Passed(r) == r.score = "high" /\ r.checks # "failed" /\ ~(r.checks = "absent" /\ r.issues)
Judgement(r) == CASE r.score = "none" -> "unchecked"
                  [] Passed(r)        -> "passed"
                  [] OTHER            -> "failed"

\* critiqueImage: nobody is asked about a picture that is missing.  One that
\* cannot be read is like a reply without a score.
Unseen(p) == p = NoPicture
Judgements(p) == IF Unseen(p) THEN {"unchecked"} ELSE {Judgement(r) : r \in Answers}
Status(v) == IF v = "passed" THEN "passed" ELSE "open"

\* A clip is shot again until its review passes it, nobody judges it, or the
\* rounds are used up; all of that is one demand, under one key.
ClipReviews == {Judgement(r) : r \in Answers}

\* The clip is written on the row of the moment, read after the answer came.
WriteClip ==
    /\ eng.pc = "provider" /\ eng.stage = Shoot
    /\ Now \in Ids /\ ProjectFits
    /\ \E v \in ClipReviews :
         Write(Now, [rows[Now] EXCEPT !.clip = eng.frozen[Now].text, !.review = Status(v)])
SkipClip ==
    /\ eng.pc = "provider" /\ eng.stage = Shoot /\ Now \notin Ids
    /\ eng' = DoneWith(Now)
    /\ used' = Served(Here)
    /\ UNCHANGED <<store, attempts, ck, ask, left, mine>>

\* markReview, also on the row of the moment; a low score with rounds left is
\* not marked: the shot is drawn again.
Marked(v) ==
    IF Now \in Ids /\ rows[Now].review # v
    THEN /\ rows' = [rows EXCEPT ![Now].review = v, ![Now].rev = @ + 1]
         /\ mine' = mine \cup {Now}
    ELSE UNCHANGED <<rows, mine>>
SentBack(v) == v = "failed" /\ eng.rounds < MaxRounds
Judge ==
    /\ eng.pc = "provider" /\ eng.stage = Review
    /\ \E v \in Judgements(eng.frozen[Now].frame) :
         \/ /\ SentBack(v)
            /\ eng' = [DoneWith(Now) EXCEPT !.again = @ \cup {Now}]
            /\ UNCHANGED <<rows, mine>>
         \/ /\ ~SentBack(v)
            /\ Marked(Status(v))
            /\ eng' = DoneWith(Now)
    /\ used' = Served(Here)
    /\ UNCHANGED <<project, tck, attempts, ck, ask, left>>

\* visionStatus, asked before the first picture of a round: no critic, or it
\* does not answer, and every shot is marked without a look.
VisionUnavailable == eng.blind \/ eng.todo = Pending(Review, eng.frozen)
MarkUnchecked ==
    /\ eng.pc = "stage" /\ eng.stage = Review /\ eng.todo # {}
    /\ VisionUnavailable
    /\ Marked("open")
    /\ eng' = [DoneWith(Now) EXCEPT !.blind = eng.todo # {Now}]
    /\ UNCHANGED <<project, tck, attempts, ck, ask, left, used>>

NothingToDo ==
    /\ eng.pc = "stage" /\ eng.stage # Plan /\ eng.todo = {}
    /\ eng' = [eng EXCEPT !.pc = "made"]
    /\ UNCHANGED <<store, attempts, ck, ask, left, used, mine>>

-----------------------------------------------------------------------------
(* How an attempt ends *)

\* A failed redo goes back to its gate and answers the request, anything else
\* fails the run.
Answered == ask' = IF eng.redo THEN NoAsk ELSE ask
Stopped ==
    /\ eng' = IF eng.redo THEN [Idle EXCEPT !.pc = "loop", !.stage = Gate, !.rounds = eng.rounds]
                          ELSE Idle
    /\ Answered

\* What a redo wanted is settled with it, its broken first try included.
Settled(u) == u[2] = eng.at \/ (eng.redo /\ u[1] \in Frames(ask.ids))
Ends(status) ==
    /\ attempts' = Ended(status)
    /\ used' = {u \in used : ~Settled(u)}
    /\ mine' = {}

\* ConcurrentModificationError.
Conflict ==
    /\ eng.pc = "provider"
    /\ \/ eng.stage = Render /\ ~(RowFits(Now) /\ ProjectFits)
       \/ eng.stage = Shoot /\ Now \in Ids /\ ~ProjectFits
    /\ Ends("failed")
    /\ Stopped
    /\ UNCHANGED <<store, ck, left>>

ProviderFails ==
    /\ eng.pc = "provider" /\ left > 0
    /\ left' = left - 1
    /\ Ends("failed")
    /\ Stopped
    /\ UNCHANGED <<store, ck>>

CompleteAttempt ==
    /\ eng.pc = "made"
    /\ Ends("succeeded")
    /\ eng' = [eng EXCEPT !.pc = "ended", !.frozen = <<>>, !.project = Unread]
    /\ UNCHANGED <<store, ck, ask, left>>

\* Rejected shots lose their target checkpoints and the run goes back.
SendBack ==
    /\ eng.pc = "ended" /\ eng.again # {}
    /\ tck' = tck \ Frames(eng.again)
    /\ used' = {u \in used : u[1] \notin Frames(eng.again)}
    /\ ck' = Plan
    /\ eng' = [Idle EXCEPT !.pc = "loop", !.stage = Render, !.scope = eng.again,
                           !.rounds = eng.rounds + 1]
    /\ UNCHANGED <<rows, project, attempts, ask, left, mine>>

\* The checkpoint of a redo, and finish(): its request is answered.
SaveCheckpoint ==
    /\ eng.pc = "ended" /\ eng.again = {}
    /\ ck' = eng.stage
    /\ eng' = IF eng.stage = Shoot THEN [Idle EXCEPT !.pc = "over"]
              ELSE [Idle EXCEPT !.pc = "loop", !.stage = eng.stage + 1, !.rounds = eng.rounds,
                                !.scope = IF eng.redo \/ eng.stage = Review THEN NoScope ELSE eng.scope]
    /\ Answered
    /\ UNCHANGED <<store, attempts, left, used, mine>>

-----------------------------------------------------------------------------
(* The gate, crash and resume *)

Approve ==
    /\ eng.pc = "loop" /\ eng.stage = Gate /\ ~ask.open
    /\ ck' = Gate
    /\ eng' = [eng EXCEPT !.stage = Review]
    /\ UNCHANGED <<store, attempts, ask, left, used, mine>>

\* submit_gate_feedback: one request at a time; a request is a demand of its own.
RequestChanges ==
    /\ eng.pc = "loop" /\ eng.stage = Gate /\ ~ask.open /\ left > 0
    /\ \E ids \in (SUBSET Ids) \ {{}} :
         /\ ask' = Asked(ids)
         /\ used' = {u \in used : u[1] \notin Frames(ids)}
    /\ left' = left - 1
    /\ UNCHANGED <<store, attempts, ck, eng, mine>>

\* applyGateFeedback: forceNew, and the selected shots only.  The request stays in
\* the row until the redo is through, so the gate of a resumed run starts it over.
Redo ==
    /\ eng.pc = "loop" /\ eng.stage = Gate /\ ask.open
    /\ tck' = tck \ Frames(ask.ids)
    /\ eng' = [eng EXCEPT !.stage = Render, !.redo = TRUE, !.scope = ask.ids]
    /\ UNCHANGED <<rows, project, attempts, ck, ask, left, used, mine>>

Crash ==
    /\ eng.pc \notin {"down", "over"} /\ left > 0
    /\ left' = left - 1
    /\ eng' = Idle
    /\ ask' = [ask EXCEPT !.broken = @ \/ eng.redo]
    /\ mine' = {}
    /\ UNCHANGED <<store, attempts, ck, used>>

Resume ==
    /\ eng.pc = "down"
    /\ eng' = IF ck = Shoot THEN [Idle EXCEPT !.pc = "over"]
              ELSE [Idle EXCEPT !.pc = "loop", !.stage = ck + 1]
    /\ UNCHANGED <<store, attempts, ck, ask, left, used, mine>>

-----------------------------------------------------------------------------
(* Users over HTTP.  A handler loads the row and writes it awaits later, by   *)
(* compare-and-set on the revision it loaded: what commits is as good as one *)
(* step, and a request whose row has moved changes nothing (409).            *)

Pictured(row) == row.frame # NoPicture \/ row.clip # NoPicture

Request ==
    /\ left > 0
    /\ left' = left - 1
    /\ UNCHANGED <<tck, attempts, ck, ask, eng, used>>

\* A new description takes the saved review of the old picture with it.
UpdateShot(i) ==
    /\ Request
    /\ rows' = [rows EXCEPT ![i].text = @ + 1, ![i].rev = @ + 1,
                            ![i].review = IF Pictured(rows[i]) THEN "open" ELSE @]
    /\ mine' = mine \ {i}
    /\ UNCHANGED project

\* delete_shot takes the final video with it.
DeleteShot(i) ==
    /\ Request
    /\ rows' = [j \in Ids \ {i} |-> rows[j]]
    /\ project' = IF project.cut THEN [project EXCEPT !.cut = FALSE, !.rev = @ + 1]
                                 ELSE project
    /\ mine' = mine \ {i, IF project.cut THEN 0 ELSE i}

\* update_project, and every other route that touches the project row.
UpdateProject ==
    /\ Request
    /\ project' = [project EXCEPT !.rev = @ + 1]
    /\ mine' = mine \ {0}
    /\ UNCHANGED rows

-----------------------------------------------------------------------------
Init ==
    /\ rows \in {<<>>, [i \in 1..PlanSize |-> [Blank EXCEPT !.frame = 1, !.clip = 1]]}
    /\ project = [rev |-> 1, superseded |-> FALSE, cut |-> rows # <<>>]
    /\ attempts = <<>> /\ ck = 0 /\ tck = {} /\ ask = NoAsk
    /\ eng = [Idle EXCEPT !.pc = "loop"]
    /\ left = MaxEvents
    /\ used = {} /\ mine = {}

EngineStep ==
    \/ BeginAttempt \/ CallProvider \/ WritePlan \/ WriteFrame \/ WriteClip \/ SkipClip
    \/ Judge \/ MarkUnchecked \/ NothingToDo \/ Conflict \/ CompleteAttempt \/ SendBack \/ SaveCheckpoint
    \/ Redo

PersonStep == Approve \/ Resume
HttpStep == UpdateProject \/ \E i \in Ids : UpdateShot(i) \/ DeleteShot(i)

Next ==
    \/ EngineStep \/ PersonStep \/ HttpStep
    \/ RequestChanges \/ ProviderFails \/ Crash

Spec == Init /\ [][Next]_vars

\* A stopped run is taken up again and a gate is answered, for as long as the
\* people of the project want the film.
LiveSpec == Spec /\ WF_vars(EngineStep) /\ WF_vars(PersonStep)

-----------------------------------------------------------------------------
(* Properties *)

\* One logical operation has one key: a provider is asked for a picture of a
\* shot under a second key only when the attempt that asked before has ended, or
\* somebody wanted the picture drawn anew.  The exception is a redo that a crash
\* cut short: its gate starts it over with forceNew, and until the request is
\* answered its pictures, and only those, may be asked for under another key
\* (db.ts says that crash recovery never does this).  A shot that is deleted in
\* the middle of a redo may be asked for once more; nobody sees that picture.
SecondTry(u) == ask.broken /\ u[1] \in Frames(ask.ids)
OneKeyPerDemand ==
    \A u, v \in used :
        u[1] = v[1] /\ u[1][2] \in Ids \cup {0} => u = v \/ SecondTry(u)

\* A keyframe replaces the row it was drawn from: nobody has edited the shot
\* since, and the version saved of it is the picture that is replaced.
FrameReplacesItsRow ==
    [][\A i \in Ids : WriteFrame /\ i = Now => rows[i] = eng.frozen[i]]_vars

\* A stage never takes its own writes for somebody else's, however often it
\* writes a row, unless it is a replay after a crash.
OwnWritesPass ==
    [][Conflict => \/ eng.stage = Render /\ ~RowFits(Now) /\ Now \notin mine
                   \/ ~ProjectFits /\ 0 \notin mine]_vars

\* Neither a crash nor an edit can wedge a run: one that is taken up again
\* whenever it stopped gets to its end.
GetsThrough == <>(eng.pc = "over")

=============================================================================
