------------------------- MODULE ApprovalGateProofs -------------------------
(* Theorems about ApprovalGate, for every set of submissions, every number of *)
(* gates and every bound on versions.                                         *)
EXTENDS ApprovalGate, TLAPS

(***************************************************************************)
(* The inductive invariant.  What a gate was left on follows from what the *)
(* approval in the row was about, which follows from where the runner is;  *)
(* where a resume takes it follows from which gates it passed.             *)
(***************************************************************************)

\* The gates before the runner's are passed and no other, until the last one is.
Position ==
    \/ /\ passed = {g \in Gate : g < eng.gate}
       /\ eng.pc # "complete"
    \/ /\ passed = Gate /\ eng.gate = LastGate /\ row.awaiting = NoGate
       /\ eng.pc \in {"complete", "down"}

\* The payload in the row is of the runner's gate, and gone once it leaves.
Placed ==
    /\ row.awaiting \in {NoGate, eng.gate}
    /\ eng.pc \in {"leave", "confirm"} => row.awaiting = NoGate

\* What the runner took was sent, and was given up before its receipt is written.
Taken ==
    /\ eng.pc \in {"apply", "redo", "finish", "answer"} => fb[eng.fb].state # "unsent"
    /\ eng.pc = "answer" => row.feedback # eng.fb

Stands(m, g) == m.gate = g /\ m.version = version[g]

\* An approval that the runner may take, or took, is of the version that stands.
Standing ==
    /\ eng.pc \in {"await", "payload", "poll"} /\ row.confirm => Stands(mark, eng.gate)
    /\ eng.pc \in {"approved", "leave", "confirm"} => Stands(basis[eng.gate], eng.gate)

IInv ==
    /\ TypeOK /\ Position /\ Placed
    /\ Taken /\ AnsweredOnce
    /\ Standing /\ ApprovalOfStandingVersion

-----------------------------------------------------------------------------
(* Typing and position *)

USE GateAssumption, NoFeedbackAssumption DEF Gate, NoGate, Version, At, Goto

\* A resume returns to the runner's gate, or completes after the last one.
LEMMA ResumeGate ==
    ASSUME TypeOK, Position
    PROVE  \/ /\ ResumePoint = [eng EXCEPT !.pc = "produce", !.gate = eng.gate]
              /\ passed = {g \in Gate : g < eng.gate}
           \/ /\ ResumePoint = [eng EXCEPT !.pc = "complete"]
              /\ passed = Gate /\ eng.gate = LastGate /\ row.awaiting = NoGate
<1>1. eng.gate \in Gate
  BY DEF TypeOK, Engine
<1>2. CASE passed = Gate /\ eng.gate = LastGate /\ row.awaiting = NoGate
  <2>1. LastGate \in passed /\ \A h \in passed : h <= LastGate
    BY <1>2
  <2>2. LastPassed \in passed /\ \A h \in passed : h <= LastPassed
    BY <2>1 DEF LastPassed
  <2>3. LastPassed = LastGate
    BY <1>2, <2>1, <2>2
  <2> QED BY <1>2, <2>3, <2>1 DEF ResumePoint, After
<1>3. CASE passed = {g \in Gate : g < eng.gate}
  <2>1. CASE eng.gate = 1
    <3>1. passed = {}
      BY <1>3, <2>1
    <3> QED BY <1>3, <2>1, <3>1 DEF ResumePoint
  <2>2. CASE eng.gate # 1
    <3> DEFINE last == eng.gate - 1
    <3>1. last \in passed /\ \A h \in passed : h <= last
      BY <1>1, <1>3, <2>2
    <3>2. LastPassed \in passed /\ \A h \in passed : h <= LastPassed
      BY <3>1 DEF LastPassed
    <3>3. LastPassed = last
      BY <1>1, <1>3, <3>1, <3>2
    <3>4. last # LastGate /\ last + 1 = eng.gate
      BY <1>1
    <3> QED BY <1>3, <3>1, <3>3, <3>4 DEF ResumePoint, After
  <2> QED BY <2>1, <2>2
<1> QED BY <1>2, <1>3 DEF Position

LEMMA TypeInit == Init => TypeOK
<1> SUFFICES ASSUME Init PROVE TypeOK
  OBVIOUS
<1>1. row \in Row /\ eng \in Engine
  BY DEF Init, Row, Status, Engine, Outcome
<1>2. NoCard \in Card /\ NoMark \in Mark
  BY DEF NoCard, Card, NoMark, Mark
<1>3. fb \in [Feedbacks -> Submission]
  BY DEF Init, Submission
<1> QED BY <1>1, <1>2, <1>3 DEF Init, TypeOK

LEMMA TypeNext == TypeOK /\ Position /\ [Next]_vars => TypeOK'
<1> SUFFICES ASSUME TypeOK, Position, [Next]_vars PROVE TypeOK'
  OBVIOUS
<1>a. /\ row \in Row /\ fb \in [Feedbacks -> Submission]
      /\ version \in [Gate -> Version] /\ passed \subseteq Gate
      /\ eng \in Engine /\ card \in Card /\ seen \in Card
      /\ mark \in Mark /\ basis \in [Gate -> Mark]
      /\ eng.pc \in {"apply", "redo", "finish", "answer"} => eng.fb \in Feedbacks
  BY DEF TypeOK
<1>b. eng.gate \in Gate /\ eng.outcome \in Outcome /\ row.feedback \in Feedbacks \cup {NoFeedback}
  BY <1>a DEF Engine, Row
<1>c. NoCard \in Card /\ NoMark \in Mark
  BY DEF NoCard, Card, NoMark, Mark
<1>d. \A id \in Feedbacks : \A s \in {"received", "regenerating"} \cup Outcome :
        [fb EXCEPT ![id].state = s] \in [Feedbacks -> Submission]
  BY <1>a DEF Submission
<1>1. CASE Produce
  <2>1. version' \in [Gate -> Version]
    BY <1>1, <1>a, <1>b DEF Produce
  <2>2. eng' \in Engine /\ eng'.pc = "clear"
    BY <1>1, <1>a DEF Produce, Engine
  <2> QED BY <1>1, <1>a, <2>1, <2>2 DEF Produce, TypeOK
<1>2. CASE ClearConfirm
  <2>1. row' \in Row /\ mark' \in Mark
    BY <1>2, <1>a, <1>c DEF ClearConfirm, ClearedRow, Row
  <2>2. eng' \in Engine /\ eng'.pc = "await"
    BY <1>2, <1>a DEF ClearConfirm, Engine
  <2> QED BY <1>2, <1>a, <2>1, <2>2 DEF ClearConfirm, TypeOK
<1>3. CASE WriteWaiting
  <2>1. row' \in Row
    BY <1>3, <1>a DEF WriteWaiting, Row, Status
  <2>2. eng' \in Engine /\ eng'.pc = "payload"
    BY <1>3, <1>a DEF WriteWaiting, Engine
  <2> QED BY <1>3, <1>a, <2>1, <2>2 DEF WriteWaiting, TypeOK
<1>4. CASE OpenGate
  <2>1. row' \in Row
    BY <1>4, <1>a, <1>b DEF OpenGate, Row
  <2>2. card' \in Card
    BY <1>4, <1>a, <1>b DEF OpenGate, Card
  <2>3. eng' \in Engine /\ eng'.pc = "poll"
    BY <1>4, <1>a DEF OpenGate, Engine
  <2> QED BY <1>4, <1>a, <2>1, <2>2, <2>3 DEF OpenGate, TypeOK
<1>5. CASE TakeFeedback
  <2>1. eng' \in Engine /\ eng'.fb \in Feedbacks
    BY <1>5, <1>a, <1>b DEF TakeFeedback, FeedbackPending, Engine
  <2> QED BY <1>5, <1>a, <2>1 DEF TakeFeedback, FeedbackPending, TypeOK
<1>6. CASE TakeApproval
  <2>1. row' \in Row /\ mark' \in Mark
    BY <1>6, <1>a, <1>c DEF TakeApproval, FeedbackPending, Row
  <2>2. basis' \in [Gate -> Mark]
    BY <1>6, <1>a, <1>b DEF TakeApproval, FeedbackPending
  <2>3. eng' \in Engine /\ eng'.pc = "approved"
    BY <1>6, <1>a DEF TakeApproval, FeedbackPending, Engine
  <2> QED BY <1>6, <1>a, <2>1, <2>2, <2>3 DEF TakeApproval, FeedbackPending, TypeOK
<1>7. CASE FailRun
  <2>1. row' \in Row
    BY <1>7, <1>a DEF FailRun, Row, Status
  <2>2. eng' \in Engine /\ eng'.pc = "down"
    BY <1>7, <1>a DEF FailRun, Engine
  <2> QED BY <1>7, <1>a, <2>1, <2>2 DEF FailRun, TypeOK
<1>8. CASE DropPayload
  <2>1. row' \in Row
    BY <1>8, <1>a DEF DropPayload, LeavePayload, Row
  <2>2. eng' \in Engine /\ eng'.pc = "leave"
    BY <1>8, <1>a DEF DropPayload, Engine
  <2> QED BY <1>8, <1>a, <2>1, <2>2 DEF DropPayload, TypeOK
<1>9. CASE LeaveGate
  <2>1. row' \in Row
    BY <1>9, <1>a DEF LeaveGate, Row, Status
  <2>2. eng' \in Engine /\ eng'.pc = "confirm"
    BY <1>9, <1>a DEF LeaveGate, Engine
  <2> QED BY <1>9, <1>a, <2>1, <2>2 DEF LeaveGate, TypeOK
<1>10. CASE ConfirmGate
  <2>1. eng' \in Engine /\ eng'.pc \in {"produce", "complete"}
    <3>1. CASE eng.gate = LastGate
      <4>1. eng' = [eng EXCEPT !.pc = "complete"]
        BY <1>10, <3>1 DEF ConfirmGate, After
      <4> QED BY <4>1, <1>a DEF Engine
    <3>2. CASE eng.gate # LastGate
      <4>1. eng' = [eng EXCEPT !.pc = "produce", !.gate = eng.gate + 1]
        BY <1>10, <3>2 DEF ConfirmGate, After
      <4>2. eng.gate + 1 \in Gate
        BY <1>b, <3>2
      <4> QED BY <4>1, <4>2, <1>a DEF Engine
    <3> QED BY <3>1, <3>2
  <2>2. passed' \subseteq Gate /\ card' \in Card
    BY <1>10, <1>a, <1>b, <1>c DEF ConfirmGate
  <2> QED BY <1>10, <1>a, <2>1, <2>2 DEF ConfirmGate, TypeOK
<1>11. CASE CompleteRun
  <2>1. row' \in Row
    BY <1>11, <1>a DEF CompleteRun, Row, Status
  <2>2. eng' \in Engine /\ eng'.pc = "down"
    BY <1>11, <1>a DEF CompleteRun, Engine
  <2> QED BY <1>11, <1>a, <2>1, <2>2 DEF CompleteRun, TypeOK
<1>12. CASE RefuseFeedback
  <2>1. fb' \in [Feedbacks -> Submission]
    BY <1>12, <1>a, <1>d DEF RefuseFeedback
  <2>2. eng' \in Engine /\ eng'.pc = "finish" /\ eng'.fb = eng.fb
    BY <1>12, <1>a DEF RefuseFeedback, Engine, Outcome
  <2> QED BY <1>12, <1>a, <2>1, <2>2 DEF RefuseFeedback, TypeOK
<1>13. CASE BeginRedo
  <2>1. row' \in Row /\ card' \in Card
    BY <1>13, <1>a, <1>c DEF BeginRedo, LeavePayload, Row, Status
  <2>2. fb' \in [Feedbacks -> Submission]
    BY <1>13, <1>a, <1>d DEF BeginRedo
  <2>3. eng' \in Engine /\ eng'.pc = "redo" /\ eng'.fb = eng.fb
    BY <1>13, <1>a DEF BeginRedo, Engine
  <2> QED BY <1>13, <1>a, <2>1, <2>2, <2>3 DEF BeginRedo, TypeOK
<1>14. CASE Redo
  <2>1. version' \in [Gate -> Version]
    BY <1>14, <1>a, <1>b DEF Redo
  <2>2. eng' \in Engine /\ eng'.pc = "finish" /\ eng'.fb = eng.fb
    BY <1>14, <1>a DEF Redo, Engine, Outcome
  <2> QED BY <1>14, <1>a, <2>1, <2>2 DEF Redo, TypeOK
<1>15. CASE RedoFails
  <2>1. eng' \in Engine /\ eng'.pc = "finish" /\ eng'.fb = eng.fb
    BY <1>15, <1>a DEF RedoFails, Engine, Outcome
  <2> QED BY <1>15, <1>a, <2>1 DEF RedoFails, TypeOK
<1>16. CASE FinishFeedback
  <2>1. row' \in Row
    BY <1>16, <1>a DEF FinishFeedback, GiveUpRequest, Row
  <2>2. eng' \in Engine /\ eng'.pc = "answer" /\ eng'.fb = eng.fb
    BY <1>16, <1>a DEF FinishFeedback, Engine
  <2> QED BY <1>16, <1>a, <2>1, <2>2 DEF FinishFeedback, GiveUpRequest, TypeOK
<1>17. CASE WriteReceipt
  <2>1. eng.fb \in Feedbacks
    BY <1>17, <1>a DEF WriteReceipt
  <2>2. [fb[eng.fb] EXCEPT !.state = eng.outcome, !.at = eng.gate] \in Submission
    BY <1>a, <1>b, <2>1 DEF Submission
  <2>3. fb' = [fb EXCEPT ![eng.fb] = [fb[eng.fb] EXCEPT !.state = eng.outcome, !.at = eng.gate]]
    BY <1>17, <1>a, <2>1 DEF WriteReceipt, Answered, Submission
  <2>4. fb' \in [Feedbacks -> Submission]
    BY <1>a, <2>1, <2>2, <2>3
  <2>5. eng' \in Engine /\ eng'.pc = "clear"
    BY <1>17, <1>a DEF WriteReceipt, Engine, Outcome
  <2> QED BY <1>17, <1>a, <2>4, <2>5 DEF WriteReceipt, TypeOK
<1>18. CASE Cancelled
  <2>1. row' \in Row
    BY <1>18, <1>a DEF Cancelled, Row, Status
  <2>2. eng' \in Engine /\ eng'.pc = "down"
    BY <1>18, <1>a DEF Cancelled, Engine
  <2> QED BY <1>18, <1>a, <2>1, <2>2 DEF Cancelled, TypeOK
<1>19. CASE Crash
  <2>1. eng' \in Engine /\ eng'.pc = "down"
    BY <1>19, <1>a DEF Crash, Engine
  <2> QED BY <1>19, <1>a, <2>1 DEF Crash, TypeOK
<1>20. CASE DeclareDead
  <2>1. row' \in Row
    BY <1>20, <1>a DEF DeclareDead, Row, Status
  <2> QED BY <1>20, <1>a, <2>1 DEF DeclareDead, TypeOK
<1>21. CASE Resume
  <2>1. row' \in Row
    BY <1>21, <1>a DEF Resume, Row, Status
  <2>2. eng' \in Engine /\ eng'.pc \in {"produce", "complete"}
    BY <1>21, <1>a, <1>b, ResumeGate DEF Resume, Engine
  <2> QED BY <1>21, <1>a, <2>1, <2>2 DEF Resume, TypeOK
<1>22. CASE SeeCard
  BY <1>22, <1>a DEF SeeCard, TypeOK
<1>23. CASE RecordApproval
  <2>1. row' \in Row
    BY <1>23, <1>a DEF RecordApproval, Row
  <2>2. mark' \in Mark
    BY <1>23, <1>a, <1>b DEF RecordApproval, Mark
  <2> QED BY <1>23, <1>a, <2>1, <2>2 DEF RecordApproval, TypeOK
<1>24. CASE CancelRun
  <2>1. row' \in Row
    BY <1>24, <1>a DEF CancelRun, Row, Status
  <2> QED BY <1>24, <1>a, <2>1 DEF CancelRun, TypeOK
<1>25. ASSUME NEW id \in Feedbacks, SubmitFeedback(id) PROVE TypeOK'
  <2>1. row' \in Row
    BY <1>25, <1>a DEF SubmitFeedback, RecordFeedback, Row
  <2>2. [fb[id] EXCEPT !.state = "received", !.made = eng.gate] \in Submission
    BY <1>a, <1>b DEF Submission
  <2>3. fb' = [fb EXCEPT ![id] = [fb[id] EXCEPT !.state = "received", !.made = eng.gate]]
    BY <1>25, <1>a DEF SubmitFeedback, RecordFeedback, Submission
  <2>4. fb' \in [Feedbacks -> Submission]
    BY <1>a, <2>2, <2>3
  <2> QED BY <1>25, <1>a, <2>1, <2>4 DEF SubmitFeedback, RecordFeedback, TypeOK
<1>26. CASE UNCHANGED vars
  BY <1>26, <1>a DEF vars, TypeOK
<1> QED
  BY <1>1, <1>2, <1>3, <1>4, <1>5, <1>6, <1>7, <1>8, <1>9, <1>10, <1>11, <1>12,
     <1>13, <1>14, <1>15, <1>16, <1>17, <1>18, <1>19, <1>20, <1>21, <1>22, <1>23,
     <1>24, <1>25, <1>26
     DEF Next, Run, User, ConfirmOverWebSocket, ApproveGate

-----------------------------------------------------------------------------
(* Where the runner stands *)

LEMMA PositionNext ==
    TypeOK /\ Position /\ Placed /\ [Next]_vars => Position' /\ Placed'
<1> SUFFICES ASSUME TypeOK, Position, Placed, [Next]_vars PROVE Position' /\ Placed'
  OBVIOUS
<1>a. row \in Row /\ eng \in Engine /\ passed \subseteq Gate
  BY DEF TypeOK
<1> USE <1>a DEF Position, Placed, Row, Engine
<1>1. CASE Produce
  BY <1>1 DEF Produce
<1>2. CASE ClearConfirm
  BY <1>2 DEF ClearConfirm, ClearedRow
<1>3. CASE WriteWaiting
  BY <1>3 DEF WriteWaiting
<1>4. CASE OpenGate
  BY <1>4 DEF OpenGate
<1>5. CASE TakeFeedback
  BY <1>5 DEF TakeFeedback, FeedbackPending
<1>6. CASE TakeApproval
  BY <1>6 DEF TakeApproval, FeedbackPending
<1>7. CASE FailRun
  BY <1>7 DEF FailRun
<1>8. CASE DropPayload
  BY <1>8 DEF DropPayload, LeavePayload
<1>9. CASE LeaveGate
  BY <1>9 DEF LeaveGate
<1>10. CASE ConfirmGate
  <2>1. passed = {g \in Gate : g < eng.gate} /\ row'.awaiting = NoGate
    BY <1>10 DEF ConfirmGate
  <2>2. passed' = {g \in Gate : g < eng.gate + 1}
    BY <1>10, <2>1 DEF ConfirmGate
  <2>3. CASE eng.gate = LastGate
    <3>1. passed' = Gate
      BY <2>2, <2>3
    <3>2. eng' = [eng EXCEPT !.pc = "complete"]
      BY <1>10, <2>3 DEF ConfirmGate, After
    <3> QED BY <2>1, <2>3, <3>1, <3>2
  <2>4. CASE eng.gate # LastGate
    <3>1. eng' = [eng EXCEPT !.pc = "produce", !.gate = eng.gate + 1]
      BY <1>10, <2>4 DEF ConfirmGate, After
    <3> QED BY <2>1, <2>2, <3>1
  <2> QED BY <2>3, <2>4
<1>11. CASE CompleteRun
  BY <1>11 DEF CompleteRun
<1>12. CASE RefuseFeedback
  BY <1>12 DEF RefuseFeedback
<1>13. CASE BeginRedo
  BY <1>13 DEF BeginRedo, LeavePayload
<1>14. CASE Redo
  BY <1>14 DEF Redo
<1>15. CASE RedoFails
  BY <1>15 DEF RedoFails
<1>16. CASE FinishFeedback
  BY <1>16 DEF FinishFeedback, GiveUpRequest
<1>17. CASE WriteReceipt
  BY <1>17 DEF WriteReceipt, Answered
<1>18. CASE Cancelled
  BY <1>18 DEF Cancelled
<1>19. CASE Crash
  BY <1>19 DEF Crash
<1>20. CASE DeclareDead
  BY <1>20 DEF DeclareDead
<1>21. CASE Resume
  <2>1. /\ eng' = [ResumePoint EXCEPT !.fb = NoFeedback]
        /\ row'.awaiting = row.awaiting /\ passed' = passed
    BY <1>21 DEF Resume
  <2>2. CASE /\ ResumePoint = [eng EXCEPT !.pc = "produce", !.gate = eng.gate]
             /\ passed = {g \in Gate : g < eng.gate}
    <3>1. eng'.pc = "produce" /\ eng'.gate = eng.gate
      BY <2>1, <2>2
    <3> QED BY <2>1, <2>2, <3>1
  <2>3. CASE /\ ResumePoint = [eng EXCEPT !.pc = "complete"]
             /\ passed = Gate /\ eng.gate = LastGate /\ row.awaiting = NoGate
    <3>1. eng'.pc = "complete" /\ eng'.gate = eng.gate
      BY <2>1, <2>3
    <3> QED BY <2>1, <2>3, <3>1
  <2> QED BY ResumeGate, <2>2, <2>3
<1>22. CASE SeeCard
  BY <1>22 DEF SeeCard
<1>23. CASE RecordApproval
  BY <1>23 DEF RecordApproval
<1>24. CASE CancelRun
  BY <1>24 DEF CancelRun
<1>25. ASSUME NEW id \in Feedbacks, SubmitFeedback(id) PROVE Position' /\ Placed'
  BY <1>25 DEF SubmitFeedback, RecordFeedback
<1>26. CASE UNCHANGED vars
  BY <1>26 DEF vars
<1> QED
  BY <1>1, <1>2, <1>3, <1>4, <1>5, <1>6, <1>7, <1>8, <1>9, <1>10, <1>11, <1>12,
     <1>13, <1>14, <1>15, <1>16, <1>17, <1>18, <1>19, <1>20, <1>21, <1>22, <1>23,
     <1>24, <1>25, <1>26
     DEF Next, Run, User, ConfirmOverWebSocket, ApproveGate

-----------------------------------------------------------------------------
(* Requests *)

LEMMA PendingNext ==
    TypeOK /\ Position /\ Taken /\ AnsweredOnce /\ [Next]_vars => Taken' /\ AnsweredOnce'
<1> SUFFICES ASSUME TypeOK, Position, Taken, AnsweredOnce, [Next]_vars
             PROVE  Taken' /\ AnsweredOnce'
  OBVIOUS
<1>a. /\ row \in Row /\ eng \in Engine /\ fb \in [Feedbacks -> Submission]
      /\ eng.pc \in {"apply", "redo", "finish", "answer"} => eng.fb \in Feedbacks
  BY DEF TypeOK
<1> USE <1>a DEF Taken, AnsweredOnce, Row, Engine, Submission
<1>1. CASE Produce
  BY <1>1 DEF Produce
<1>2. CASE ClearConfirm
  BY <1>2 DEF ClearConfirm, ClearedRow
<1>3. CASE WriteWaiting
  BY <1>3 DEF WriteWaiting
<1>4. CASE OpenGate
  BY <1>4 DEF OpenGate
<1>5. CASE TakeFeedback
  BY <1>5 DEF TakeFeedback, FeedbackPending
<1>6. CASE TakeApproval
  BY <1>6 DEF TakeApproval, FeedbackPending
<1>7. CASE FailRun
  BY <1>7 DEF FailRun
<1>8. CASE DropPayload
  BY <1>8 DEF DropPayload, LeavePayload
<1>9. CASE LeaveGate
  BY <1>9 DEF LeaveGate
<1>10. CASE ConfirmGate
  BY <1>10 DEF ConfirmGate, After
<1>11. CASE CompleteRun
  BY <1>11 DEF CompleteRun
<1>12. CASE RefuseFeedback
  BY <1>12 DEF RefuseFeedback
<1>13. CASE BeginRedo
  BY <1>13 DEF BeginRedo, LeavePayload
<1>14. CASE Redo
  BY <1>14 DEF Redo
<1>15. CASE RedoFails
  BY <1>15 DEF RedoFails
<1>16. CASE FinishFeedback
  BY <1>16 DEF FinishFeedback, GiveUpRequest
<1>17. CASE WriteReceipt
  BY <1>17 DEF WriteReceipt, Answered
<1>18. CASE Cancelled
  BY <1>18 DEF Cancelled
<1>19. CASE Crash
  BY <1>19 DEF Crash
<1>20. CASE DeclareDead
  BY <1>20 DEF DeclareDead
<1>21. CASE Resume
  <2>1. /\ eng' = [ResumePoint EXCEPT !.fb = NoFeedback]
        /\ row' = [row EXCEPT !.status = "running"]
        /\ UNCHANGED <<fb, version, passed, mark, basis>>
    BY <1>21 DEF Resume
  <2>2. eng'.pc \in {"produce", "complete"}
    BY <2>1, ResumeGate
  <2> QED BY <2>1, <2>2
<1>22. CASE SeeCard
  BY <1>22 DEF SeeCard
<1>23. CASE RecordApproval
  BY <1>23 DEF RecordApproval
<1>24. CASE CancelRun
  BY <1>24 DEF CancelRun
<1>25. ASSUME NEW id \in Feedbacks, SubmitFeedback(id) PROVE Taken' /\ AnsweredOnce'
  BY <1>25 DEF SubmitFeedback, RecordFeedback
<1>26. CASE UNCHANGED vars
  BY <1>26 DEF vars
<1> QED
  BY <1>1, <1>2, <1>3, <1>4, <1>5, <1>6, <1>7, <1>8, <1>9, <1>10, <1>11, <1>12,
     <1>13, <1>14, <1>15, <1>16, <1>17, <1>18, <1>19, <1>20, <1>21, <1>22, <1>23,
     <1>24, <1>25, <1>26
     DEF Next, Run, User, ConfirmOverWebSocket, ApproveGate

-----------------------------------------------------------------------------
(* Approvals *)

LEMMA StandingNext ==
    TypeOK /\ Position /\ Standing /\ ApprovalOfStandingVersion /\ [Next]_vars
        => Standing' /\ ApprovalOfStandingVersion'
<1> SUFFICES ASSUME TypeOK, Position, Standing, ApprovalOfStandingVersion, [Next]_vars
             PROVE  Standing' /\ ApprovalOfStandingVersion'
  OBVIOUS
<1>a. /\ row \in Row /\ eng \in Engine /\ passed \subseteq Gate
      /\ version \in [Gate -> Version] /\ mark \in Mark /\ basis \in [Gate -> Mark]
  BY DEF TypeOK
<1>b. eng.pc \notin {"complete", "down"} => eng.gate \notin passed
  BY <1>a DEF Position
<1> USE <1>a DEF Standing, Stands, ApprovalOfStandingVersion, Row, Engine
<1>1. CASE Produce
  <2>1. passed' = passed /\ basis' = basis /\ eng.gate \notin passed
    BY <1>1, <1>b DEF Produce
  <2>2. \A g \in passed : version'[g] = version[g]
    BY <1>1, <2>1 DEF Produce
  <2>3. eng'.pc = "clear"
    BY <1>1 DEF Produce
  <2> QED BY <2>1, <2>2, <2>3
<1>2. CASE ClearConfirm
  BY <1>2 DEF ClearConfirm, ClearedRow
<1>3. CASE WriteWaiting
  BY <1>3 DEF WriteWaiting
<1>4. CASE OpenGate
  BY <1>4 DEF OpenGate
<1>5. CASE TakeFeedback
  BY <1>5 DEF TakeFeedback, FeedbackPending
<1>6. CASE TakeApproval
  BY <1>6 DEF TakeApproval, FeedbackPending
<1>7. CASE FailRun
  BY <1>7 DEF FailRun
<1>8. CASE DropPayload
  BY <1>8 DEF DropPayload, LeavePayload
<1>9. CASE LeaveGate
  BY <1>9 DEF LeaveGate
<1>10. CASE ConfirmGate
  BY <1>10 DEF ConfirmGate, After
<1>11. CASE CompleteRun
  BY <1>11 DEF CompleteRun
<1>12. CASE RefuseFeedback
  BY <1>12 DEF RefuseFeedback
<1>13. CASE BeginRedo
  BY <1>13 DEF BeginRedo, LeavePayload
<1>14. CASE Redo
  <2>1. passed' = passed /\ basis' = basis /\ eng.gate \notin passed
    BY <1>14, <1>b DEF Redo
  <2>2. \A g \in passed : version'[g] = version[g]
    BY <1>14, <2>1 DEF Redo
  <2>3. eng'.pc = "finish"
    BY <1>14 DEF Redo
  <2> QED BY <2>1, <2>2, <2>3
<1>15. CASE RedoFails
  BY <1>15 DEF RedoFails
<1>16. CASE FinishFeedback
  BY <1>16 DEF FinishFeedback, GiveUpRequest
<1>17. CASE WriteReceipt
  BY <1>17 DEF WriteReceipt, Answered
<1>18. CASE Cancelled
  BY <1>18 DEF Cancelled
<1>19. CASE Crash
  BY <1>19 DEF Crash
<1>20. CASE DeclareDead
  BY <1>20 DEF DeclareDead
<1>21. CASE Resume
  <2>1. /\ eng' = [ResumePoint EXCEPT !.fb = NoFeedback]
        /\ row' = [row EXCEPT !.status = "running"]
        /\ UNCHANGED <<fb, version, passed, mark, basis>>
    BY <1>21 DEF Resume
  <2>2. eng'.pc \in {"produce", "complete"}
    BY <2>1, ResumeGate
  <2> QED BY <2>1, <2>2
<1>22. CASE SeeCard
  BY <1>22 DEF SeeCard
<1>23. CASE RecordApproval
  BY <1>23 DEF RecordApproval
<1>24. CASE CancelRun
  BY <1>24 DEF CancelRun
<1>25. ASSUME NEW id \in Feedbacks, SubmitFeedback(id) PROVE Standing' /\ ApprovalOfStandingVersion'
  BY <1>25 DEF SubmitFeedback, RecordFeedback
<1>26. CASE UNCHANGED vars
  BY <1>26 DEF vars
<1> QED
  BY <1>1, <1>2, <1>3, <1>4, <1>5, <1>6, <1>7, <1>8, <1>9, <1>10, <1>11, <1>12,
     <1>13, <1>14, <1>15, <1>16, <1>17, <1>18, <1>19, <1>20, <1>21, <1>22, <1>23,
     <1>24, <1>25, <1>26
     DEF Next, Run, User, ConfirmOverWebSocket, ApproveGate

-----------------------------------------------------------------------------
(* The invariant and its consequences *)

LEMMA InitIInv == Init => IInv
<1> SUFFICES ASSUME Init PROVE IInv
  OBVIOUS
<1>1. TypeOK
  BY TypeInit
<1>2. Position /\ Placed
  BY DEF Init, Position, Placed
<1>3. Taken /\ AnsweredOnce
  BY DEF Init, Taken, AnsweredOnce
<1>4. Standing /\ ApprovalOfStandingVersion
  BY DEF Init, Standing, ApprovalOfStandingVersion
<1> QED BY <1>1, <1>2, <1>3, <1>4 DEF IInv

LEMMA Invariant == Spec => []IInv
<1>1. IInv /\ [Next]_vars => IInv'
  BY TypeNext, PositionNext, PendingNext, StandingNext DEF IInv
<1> QED BY InitIInv, <1>1, PTL DEF Spec

\* Every variable keeps its type, and the engine answers only what it took from the
\* row: no step of the runner, the gateway, the user or a crash leaves the state space.
THEOREM TypeCorrect == Spec => []TypeOK
<1>1. IInv => TypeOK
  BY DEF IInv
<1> QED BY Invariant, <1>1, PTL

\* A gate is left only on an approval recorded at that gate, of the version that
\* still stands: runGate clears confirm_requested before it polls, and a resume
\* after any crash comes back to the gate the runner stood at.
THEOREM ApprovalStands == Spec => []ApprovalOfStandingVersion
<1>1. IInv => ApprovalOfStandingVersion
  BY DEF IInv
<1> QED BY Invariant, <1>1, PTL

\* A request whose receipt says how it ended is never pending in the row again:
\* finish() of applyGateFeedback gives the request up before it writes the receipt.
THEOREM AnswersOnce == Spec => []AnsweredOnce
<1>1. IInv => AnsweredOnce
  BY DEF IInv
<1> QED BY Invariant, <1>1, PTL

\* A reload replays the card of the gate the runner stands at, or none: the payload
\* in the row is dropped before the gate is left, and a crash does not move the gate.
THEOREM PayloadMatches == Spec => []AwaitingMatchesRunner
<1>1. IInv => AwaitingMatchesRunner
  BY DEF IInv, Placed, AwaitingMatchesRunner
<1> QED BY Invariant, <1>1, PTL

=============================================================================
