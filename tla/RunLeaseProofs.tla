--------------------------- MODULE RunLeaseProofs ---------------------------
(* Theorems about RunLease, for every set of engines and of requests and      *)
(* every bound MaxAttempts.                                                   *)
EXTENDS RunLease, TLAPS

(***************************************************************************)
(* The inductive invariant.  CancelledOnlyOnRequest is not inductive: why  *)
(* an executor may write "cancelled" depends on why it was aborted, and on *)
(* what the handlers that abort it and settle the row already wrote.       *)
(***************************************************************************)

\* Attempt numbers are handed out in order, and an executor began with each.
Issued ==
    /\ run.token <= run.attempt
    /\ \A t \in Token : ex[t].pc = "idle" <=> t > run.attempt

\* The row says "stopping" or "stopped" only after a cancel was recorded.
Requested == run.status \in {"cancelling", "cancelled"} => run.cancel

\* A handler that remembers a cancel read it from the row, or wrote it there.
Intended ==
    \A q \in Requests :
        gw[q].cancel \/ gw[q].pc \in {"settle", "signal"} => run.cancel

\* An executor that was aborted without a cancel stopped beating and lost its lease.
Abandoned ==
    \A t \in Token : ex[t].abort /\ ~run.cancel => run.token # t /\ ~ex[t].beating

Released == run.token # NoToken => ex[run.token].pc # "done"

IInv == TypeOK /\ Issued /\ Requested /\ Intended /\ Abandoned /\ Released

-----------------------------------------------------------------------------
(* Typing *)

USE DEF NoToken, Token

LEMMA RowTypes ==
    ASSUME TypeOK
    PROVE  /\ run.status \in Active \cup Terminal
           /\ run.error \in ErrorText
           /\ run.cancel \in BOOLEAN
           /\ run.live \in BOOLEAN
           /\ run.token \in Token \cup {NoToken}
           /\ run.attempt \in 0..MaxAttempts
BY DEF TypeOK, RunRow

LEMMA TypeInit == Init => TypeOK
<1> SUFFICES ASSUME Init PROVE TypeOK
  OBVIOUS
<1>1. run \in RunRow /\ (run.live => run.token # NoToken)
  BY MaxAttemptsAssumption DEF Init, RunRow, Active, ErrorText
<1>2. ex \in [Token -> Executor]
  BY DEF Init, NoExecutor, Executor
<1>3. gw \in [Requests -> Handler]
  <2>1. Idle \in Handler /\ [Idle EXCEPT !.pc = "dispatch"] \in Handler
    BY DEF Idle, Handler, Active
  <2> QED BY <2>1 DEF Init
<1> QED
  BY <1>1, <1>2, <1>3 DEF Init, TypeOK

LEMMA TypeNext == TypeOK /\ [Next]_vars => TypeOK'
<1> SUFFICES ASSUME TypeOK, [Next]_vars PROVE TypeOK'
  OBVIOUS
<1> USE MaxAttemptsAssumption
<1>1. ASSUME NEW q \in Requests, RequestStep(q) PROVE TypeOK'
  <2>1. CASE ResumeRun(q)
    BY <2>1 DEF ResumeRun, TypeOK, Handler
  <2>2. CASE DispatchFails(q)
    BY <2>2 DEF DispatchFails, Finish, Idle, TypeOK, Handler, Active
  <2>3. CASE LoadCandidate(q)
    <3>1. LoadedCandidate \in Handler
      BY RowTypes DEF LoadedCandidate, Idle, Handler, Active
    <3> QED BY <2>3, <3>1 DEF LoadCandidate, TypeOK
  <2>4. CASE CancelRun(q)
    <3>1. LoadedForCancel \in Handler
      BY RowTypes DEF LoadedForCancel, Idle, Handler, Active
    <3>2. [gw[q] EXCEPT !.pc = "dismiss"] \in Handler
      BY DEF TypeOK, Handler
    <3> QED BY <2>4, <3>1, <3>2 DEF CancelRun, TypeOK
  <2>5. CASE Dismiss(q)
    BY <2>5 DEF Dismiss, Finish, Idle, TypeOK, Handler, RunRow, Active, Terminal
  <2>6. CASE WriteIntent(q)
    BY <2>6 DEF WriteIntent, Idle, TypeOK, Handler, RunRow, Active
  <2>7. CASE SettleCancelled(q)
    BY <2>7 DEF SettleCancelled, Finish, Idle, TypeOK, Handler, RunRow, Active, Terminal
  <2>8. CASE LoseSignal(q)
    BY <2>8 DEF LoseSignal, Finish, Idle, TypeOK, Handler, Active
  <2>9. ASSUME NEW e \in Engines, StartPipeline(q, e) PROVE TypeOK'
    <3>1. PICK t \in Token : t = run.attempt + 1
      BY <2>9, RowTypes DEF StartPipeline
    <3>2. run' \in RunRow /\ run'.token # NoToken
      <4>1. run' = [run EXCEPT !.attempt = t, !.token = t, !.live = TRUE]
        BY <2>9, <3>1 DEF StartPipeline
      <4>2. t \in 0..MaxAttempts /\ t # NoToken
        OBVIOUS
      <4> QED BY <4>1, <4>2 DEF TypeOK, RunRow
    <3>3. ex' \in [Token -> Executor]
      BY <2>9, <3>1 DEF StartPipeline, TypeOK, Executor, Working
    <3>4. gw' \in [Requests -> Handler]
      BY <2>9 DEF StartPipeline, TypeOK, Idle, Handler, Active
    <3> QED BY <2>9, <3>2, <3>3, <3>4 DEF StartPipeline, TypeOK
  <2>10. ASSUME NEW e \in Engines, RefuseStart(q, e) PROVE TypeOK'
    BY <2>10 DEF RefuseStart, TypeOK, RunRow, Terminal, Idle, Handler, Active
  <2>11. ASSUME NEW e \in Engines, KeepActive(q, e) PROVE TypeOK'
    BY <2>11 DEF KeepActive, Listed, Finish, TypeOK, Idle, Handler, Active
  <2>12. ASSUME NEW e \in Engines, DeclareDead(q, e) PROVE TypeOK'
    <3>1. DeadRow(q, e) \in RunRow
      BY DEF DeadRow, TypeOK, RunRow, Terminal, ErrorText
    <3>2. DeadRow(q, e).live => DeadRow(q, e).token # NoToken
      BY DEF DeadRow, TypeOK, RunRow
    <3> QED BY <2>12, <3>1, <3>2 DEF DeclareDead, Finish, TypeOK, Idle, Handler, Active
  <2>13. ASSUME NEW e \in Engines, SignalCancel(q, e) PROVE TypeOK'
    <3>1. run' \in RunRow /\ (run'.live => run'.token # NoToken)
      BY <2>13 DEF SignalCancel, CancelRequestedRow, TypeOK, RunRow, Active
    <3>2. ex' \in [Token -> Executor]
      BY <2>13 DEF SignalCancel, CancelRequestedRow, TypeOK, Executor
    <3> QED BY <2>13, <3>1, <3>2 DEF SignalCancel, CancelRequestedRow, Finish, TypeOK, Idle, Handler, Active
  <2> QED
    BY <1>1, <2>1, <2>2, <2>3, <2>4, <2>5, <2>6, <2>7, <2>8, <2>9, <2>10,
       <2>11, <2>12, <2>13 DEF RequestStep
<1>2. ASSUME NEW t \in Token, ExecutorStep(t) PROVE TypeOK'
  <2>1. CASE RunStarted(t)
    BY <2>1 DEF RunStarted, Goto, TypeOK, RunRow, Executor, Working, Active, ErrorText
  <2>2. CASE CheckFence(t)
    BY <2>2 DEF CheckFence, Goto, TypeOK, Executor, Working
  <2>3. CASE WriteStatus(t)
    <3>1. CASE run' = [run EXCEPT !.status = "running"] /\ Goto(t, "work")
      BY <2>3, <3>1 DEF WriteStatus, Goto, TypeOK, RunRow, Executor, Working, Active
    <3>2. CASE run' = [run EXCEPT !.status = "waiting_for_approval"] /\ Goto(t, "gate")
      BY <2>3, <3>2 DEF WriteStatus, Goto, TypeOK, RunRow, Executor, Working, Active
    <3> QED BY <2>3, <3>1, <3>2 DEF WriteStatus
  <2>4. CASE CompleteRun(t)
    BY <2>4 DEF CompleteRun, CompletedRow, Goto, TypeOK, RunRow, Executor, Terminal
  <2>5. CASE FailRun(t)
    BY <2>5 DEF FailRun, Goto, TypeOK, RunRow, Executor, Terminal, ErrorText
  <2>6. CASE FinishCancelled(t)
    BY <2>6 DEF FinishCancelled, Goto, TypeOK, RunRow, Executor, Terminal
  <2>7. CASE LoseLease(t)
    BY <2>7 DEF LoseLease, Goto, TypeOK, Executor
  <2>8. CASE Release(t)
    BY <2>8 DEF Release, ReleasedRow, NoExecutor, TypeOK, RunRow, Executor
  <2>9. CASE Renew(t)
    <3>1. run' \in RunRow /\ run'.token = t
      BY <2>9 DEF Renew, TypeOK, RunRow
    <3> QED BY <2>9, <3>1 DEF Renew, TypeOK
  <2>10. CASE Reclaim(t)
    <3>1. run' \in RunRow /\ run'.token = t
      <4>1. run' = [run EXCEPT !.token = t, !.live = TRUE,
                      !.status = IF run.status = "failed" THEN "running" ELSE run.status,
                      !.error = IF run.status = "failed" THEN "none" ELSE run.error]
        BY <2>10 DEF Reclaim
      <4> QED BY <4>1 DEF TypeOK, RunRow, Active, ErrorText
    <3> QED BY <2>10, <3>1 DEF Reclaim, TypeOK
  <2>11. CASE GiveUp(t)
    BY <2>11 DEF GiveUp, TypeOK, Executor
  <2> QED
    BY <1>2, <2>1, <2>2, <2>3, <2>4, <2>5, <2>6, <2>7, <2>8, <2>9, <2>10,
       <2>11 DEF ExecutorStep
<1>3. ASSUME NEW e \in Engines, Crash(e) PROVE TypeOK'
  BY <1>3 DEF Crash, NoExecutor, TypeOK, Executor
<1>4. ASSUME NEW e \in Engines, Spawn(e) PROVE TypeOK'
  BY <1>4 DEF Spawn, TypeOK
<1>5. CASE Lapse
  BY <1>5 DEF Lapse, TypeOK, RunRow
<1>6. CASE OtherRun
  BY <1>6 DEF OtherRun, TypeOK
<1>7. CASE RestartBackend
  BY <1>7 DEF RestartBackend, InitDbRow, TypeOK, RunRow, Terminal, ErrorText,
              Idle, Handler, Active
<1>8. CASE UNCHANGED vars
  BY <1>8 DEF vars, TypeOK
<1> QED
  BY <1>1, <1>2, <1>3, <1>4, <1>5, <1>6, <1>7, <1>8 DEF Next

\* Every value of the row, of the executors and of the handlers has its type, and
\* a live lease always has a token (no statement resets half of a lease).
THEOREM TypeCorrect == Spec => []TypeOK
<1>1. Init => TypeOK BY TypeInit
<1>2. TypeOK /\ [Next]_vars => TypeOK' BY TypeNext
<1> QED BY <1>1, <1>2, PTL DEF Spec

-----------------------------------------------------------------------------
(* The inductive invariant, one lemma per conjunct *)

\* No statement takes a recorded cancel back.
LEMMA CancelStays ==
    ASSUME TypeOK, [Next]_vars
    PROVE  run.cancel => run'.cancel
<1>1. ASSUME NEW q \in Requests, RequestStep(q) PROVE run.cancel => run'.cancel
  <2>1. ASSUME NEW e \in Engines, DeclareDead(q, e) PROVE run.cancel => run'.cancel
    BY <2>1 DEF DeclareDead, DeadRow, TypeOK, RunRow
  <2>2. ASSUME NEW e \in Engines, StartPipeline(q, e) \/ RefuseStart(q, e) \/ SignalCancel(q, e)
        PROVE  run.cancel => run'.cancel
    BY <2>2 DEF StartPipeline, RefuseStart, SignalCancel, CancelRequestedRow, TypeOK, RunRow
  <2>3. CASE Dismiss(q) \/ WriteIntent(q) \/ SettleCancelled(q)
    BY <2>3 DEF Dismiss, WriteIntent, SettleCancelled, TypeOK, RunRow
  <2> QED
    BY <1>1, <2>1, <2>2, <2>3
       DEF RequestStep, ResumeRun, DispatchFails, LoadCandidate, CancelRun, LoseSignal, KeepActive, Listed
<1>2. ASSUME NEW t \in Token, ExecutorStep(t) PROVE run.cancel => run'.cancel
  <2>1. CASE RunStarted(t) \/ WriteStatus(t) \/ CompleteRun(t) \/ FailRun(t)
    BY <2>1 DEF RunStarted, WriteStatus, CompleteRun, CompletedRow, FailRun, TypeOK, RunRow
  <2>2. CASE FinishCancelled(t) \/ Release(t)
    BY <2>2 DEF FinishCancelled, Release, ReleasedRow, TypeOK, RunRow
  <2>3. CASE Renew(t) \/ Reclaim(t)
    BY <2>3 DEF Renew, Reclaim, ReclaimAllowed, TypeOK, RunRow
  <2> QED BY <1>2, <2>1, <2>2, <2>3 DEF ExecutorStep, CheckFence, LoseLease, GiveUp
<1>3. CASE Lapse \/ RestartBackend
  BY <1>3 DEF Lapse, RestartBackend, InitDbRow, TypeOK, RunRow
<1> QED BY <1>1, <1>2, <1>3 DEF Next, Crash, Spawn, OtherRun, vars

LEMMA IntendedNext == IInv /\ [Next]_vars => Intended'
<1> SUFFICES ASSUME IInv, [Next]_vars, NEW r \in Requests,
                    gw'[r].cancel \/ gw'[r].pc \in {"settle", "signal"}
             PROVE  run'.cancel
  BY DEF Intended
<1>1. TypeOK /\ (run.cancel => run'.cancel)
  BY CancelStays DEF IInv
<1>2. CASE gw'[r] = gw[r]
  BY <1>1, <1>2 DEF IInv, Intended
<1>3. gw'[r] # Idle
  BY DEF Idle
<1>4. ASSUME NEW q \in Requests, RequestStep(q), gw'[r] # gw[r] PROVE run'.cancel
  <2>1. gw' = [gw EXCEPT ![q] = gw'[q]]
    BY <1>1, <1>4 DEF RequestStep, ResumeRun, DispatchFails, LoadCandidate, CancelRun, Dismiss,
          WriteIntent, SettleCancelled, LoseSignal, StartPipeline, RefuseStart, KeepActive,
          DeclareDead, SignalCancel, CancelRequestedRow, Finish, TypeOK
  <2>2. q = r
    BY <1>1, <1>4, <2>1 DEF TypeOK
  <2>3. CASE ResumeRun(q)
    BY <1>1, <2>2, <2>3 DEF ResumeRun, TypeOK, Handler, IInv, Intended
  <2>4. CASE LoadCandidate(q)
    <3>1. gw'[r] = LoadedCandidate /\ run' = run
      BY <1>1, <2>2, <2>4 DEF LoadCandidate, TypeOK
    <3>2. LoadedCandidate.cancel = run.cancel /\ LoadedCandidate.pc = "probe"
      BY DEF LoadedCandidate, Idle
    <3> QED BY <3>1, <3>2
  <2>5. CASE CancelRun(q)
    <3>1. LoadedForCancel.cancel = FALSE /\ LoadedForCancel.pc = "cancel"
      BY DEF LoadedForCancel, Idle
    <3> QED BY <1>1, <2>2, <2>5, <3>1 DEF CancelRun, TypeOK, Handler, IInv, Intended
  <2>6. CASE WriteIntent(q)
    BY <1>1, <2>6 DEF WriteIntent, TypeOK, RunRow
  <2> QED
    BY <1>1, <1>3, <1>4, <2>2, <2>3, <2>4, <2>5, <2>6
       DEF RequestStep, DispatchFails, Dismiss, SettleCancelled, LoseSignal, StartPipeline,
           RefuseStart, KeepActive, DeclareDead, SignalCancel, CancelRequestedRow, Finish, TypeOK
<1>5. ASSUME NEW t \in Token, ExecutorStep(t) PROVE gw' = gw
  BY <1>5 DEF ExecutorStep, RunStarted, CheckFence, WriteStatus, CompleteRun, CompletedRow, FailRun,
     FinishCancelled, LoseLease, Release, Renew, Reclaim, GiveUp
<1>6. CASE RestartBackend
  BY <1>3, <1>6 DEF RestartBackend
<1> QED
  BY <1>2, <1>4, <1>5, <1>6 DEF Next, Crash, Spawn, Lapse, OtherRun, vars

LEMMA RequestedNext == IInv /\ [Next]_vars => Requested'
<1> SUFFICES ASSUME IInv, [Next]_vars,
                    run'.status \in {"cancelling", "cancelled"}
             PROVE  run'.cancel
  BY DEF Requested
<1>1. TypeOK /\ (run.cancel => run'.cancel)
  BY CancelStays DEF IInv
<1>2. CASE run'.status = run.status
  BY <1>1, <1>2 DEF IInv, Requested
<1>3. ASSUME NEW q \in Requests, RequestStep(q), run'.status # run.status PROVE run'.cancel
  <2>1. ASSUME NEW e \in Engines, StartPipeline(q, e) PROVE FALSE
    BY <1>1, <1>3, <2>1 DEF StartPipeline, TypeOK, RunRow
  <2>2. ASSUME NEW e \in Engines, RefuseStart(q, e) PROVE run'.cancel
    BY <1>1, <1>3, <2>2 DEF RefuseStart, TypeOK, RunRow
  <2>3. ASSUME NEW e \in Engines, DeclareDead(q, e) PROVE run'.cancel
    <3>1. gw[q].cancel
      BY <1>1, <1>3, <2>3 DEF DeclareDead, DeadRow, TypeOK, RunRow
    <3> QED BY <1>1, <3>1 DEF IInv, Intended
  <2>4. ASSUME NEW e \in Engines, SignalCancel(q, e) PROVE run'.cancel
    BY <1>1, <1>3, <2>4 DEF SignalCancel, CancelRequestedRow, TypeOK, RunRow
  <2>5. CASE Dismiss(q) \/ WriteIntent(q)
    BY <1>1, <1>3, <2>5 DEF Dismiss, WriteIntent, TypeOK, RunRow
  <2>6. CASE SettleCancelled(q)
    BY <1>1, <2>6 DEF SettleCancelled, IInv, Intended
  <2> QED
    BY <1>3, <2>1, <2>2, <2>3, <2>4, <2>5, <2>6
       DEF RequestStep, ResumeRun, DispatchFails, LoadCandidate, CancelRun, LoseSignal, KeepActive, Listed
<1>4. ASSUME NEW t \in Token, ExecutorStep(t), run'.status # run.status PROVE run'.cancel
  <2>1. CASE FinishCancelled(t)
    <3>1. Owns(t)
      BY <1>4, <2>1 DEF FinishCancelled, CancelCommitAllowed
    <3>2. ex[t].abort => run.cancel
      BY <3>1 DEF Owns, IInv, Abandoned
    <3>3. CancelSeen => run.cancel
      BY DEF CancelSeen, IInv, Requested
    <3> QED BY <1>1, <2>1, <3>2, <3>3 DEF FinishCancelled
  <2>2. CASE RunStarted(t) \/ WriteStatus(t) \/ CompleteRun(t) \/ FailRun(t)
    BY <1>1, <2>2 DEF RunStarted, WriteStatus, CompleteRun, CompletedRow, FailRun, TypeOK, RunRow
  <2>3. CASE Release(t) \/ Renew(t)
    BY <1>1, <1>4, <2>3 DEF Release, ReleasedRow, Renew, TypeOK, RunRow
  <2>4. CASE Reclaim(t)
    BY <1>1, <1>4, <2>4 DEF Reclaim, TypeOK, RunRow
  <2> QED
    BY <1>4, <2>1, <2>2, <2>3, <2>4 DEF ExecutorStep, CheckFence, LoseLease, GiveUp
<1>5. CASE RestartBackend
  BY <1>1, <1>2, <1>5 DEF RestartBackend, InitDbRow, TypeOK, RunRow
<1>6. CASE Lapse
  BY <1>1, <1>2, <1>6 DEF Lapse, TypeOK, RunRow
<1> QED
  BY <1>2, <1>3, <1>4, <1>5, <1>6 DEF Next, Crash, Spawn, OtherRun, vars

\* Which statement moves the lease, and to whom.
LEMMA TokenMoves ==
    ASSUME TypeOK, [Next]_vars, run'.token \notin {run.token, NoToken}
    PROVE  /\ ~run.cancel /\ run'.cancel = run.cancel
           /\ \/ \E q \in Requests, e \in Engines : StartPipeline(q, e)
              \/ \E t \in Token : Reclaim(t)
<1>1. ASSUME NEW q \in Requests, RequestStep(q)
      PROVE  \E e \in Engines : StartPipeline(q, e)
  <2>1. ASSUME NEW e \in Engines, DeclareDead(q, e) PROVE FALSE
    BY <2>1 DEF DeclareDead, DeadRow, TypeOK, RunRow
  <2>2. ASSUME NEW e \in Engines, RefuseStart(q, e) \/ SignalCancel(q, e) PROVE FALSE
    BY <2>2 DEF RefuseStart, SignalCancel, CancelRequestedRow, TypeOK, RunRow
  <2>3. CASE Dismiss(q) \/ WriteIntent(q) \/ SettleCancelled(q)
    BY <2>3 DEF Dismiss, WriteIntent, SettleCancelled, TypeOK, RunRow
  <2> QED
    BY <1>1, <2>1, <2>2, <2>3
       DEF RequestStep, ResumeRun, DispatchFails, LoadCandidate, CancelRun, LoseSignal, KeepActive, Listed
<1>2. ASSUME NEW t \in Token, ExecutorStep(t) PROVE Reclaim(t)
  <2>1. CASE RunStarted(t) \/ WriteStatus(t) \/ CompleteRun(t) \/ FailRun(t)
    BY <2>1 DEF RunStarted, WriteStatus, CompleteRun, CompletedRow, FailRun, TypeOK, RunRow
  <2>2. CASE FinishCancelled(t) \/ Release(t) \/ Renew(t)
    BY <2>2 DEF FinishCancelled, Release, ReleasedRow, Renew, TypeOK, RunRow
  <2> QED BY <1>2, <2>1, <2>2 DEF ExecutorStep, CheckFence, LoseLease, GiveUp
<1>3. ~(Lapse \/ RestartBackend)
  BY DEF Lapse, RestartBackend, InitDbRow, TypeOK, RunRow
<1>4. ASSUME NEW q \in Requests, NEW e \in Engines, StartPipeline(q, e)
      PROVE  ~run.cancel /\ run'.cancel = run.cancel
  BY <1>4 DEF StartPipeline, AcquireAllowed, TypeOK, RunRow
<1>5. ASSUME NEW t \in Token, Reclaim(t) PROVE ~run.cancel /\ run'.cancel = run.cancel
  BY <1>5 DEF Reclaim, ReclaimAllowed, TypeOK, RunRow
<1> QED BY <1>1, <1>2, <1>3, <1>4, <1>5 DEF Next, Crash, Spawn, OtherRun, vars

\* What a step may do to an executor that began: it stays begun, and it is
\* aborted without a cancel only by its own heartbeat giving up.
LEMMA ExecutorMoves ==
    ASSUME IInv, [Next]_vars, NEW t \in Token
    PROVE  /\ ex[t].pc # "idle" => ex'[t].pc # "idle"
           /\ ex'[t].abort /\ ~run'.cancel /\ ~ex[t].abort => GiveUp(t)
           /\ ex'[t].beating /\ ~ex[t].beating => \E q \in Requests, e \in Engines :
                    StartPipeline(q, e) /\ t = run.attempt + 1
           /\ ex'[t].pc = "done" /\ ex[t].pc # "done" => Release(t)
<1>1. TypeOK BY DEF IInv
<1>2. ASSUME NEW q \in Requests, NEW e \in Engines, SignalCancel(q, e) PROVE run'.cancel
  BY <1>1, <1>2, CancelStays DEF SignalCancel, CancelRequestedRow, IInv, Intended
<1>3. CASE ex' = ex
  BY <1>3
<1>4. ASSUME NEW q \in Requests, RequestStep(q), ex' # ex
      PROVE  \E e \in Engines : StartPipeline(q, e) \/ SignalCancel(q, e)
  BY <1>4 DEF RequestStep, ResumeRun, DispatchFails, LoadCandidate, CancelRun, Dismiss,
     WriteIntent, SettleCancelled, LoseSignal, RefuseStart, KeepActive, DeclareDead
<1>5. ASSUME NEW q \in Requests, NEW e \in Engines, StartPipeline(q, e)
      PROVE  ex' = [ex EXCEPT ![run.attempt + 1] = [pc |-> "begin", engine |-> e,
                                     abort |-> FALSE, beating |-> TRUE]]
  BY <1>5 DEF StartPipeline
<1>6. ASSUME NEW q \in Requests, NEW e \in Engines, SignalCancel(q, e)
      PROVE  ex'[t].pc = ex[t].pc /\ ex'[t].beating = ex[t].beating
  BY <1>1, <1>6 DEF SignalCancel, CancelRequestedRow, TypeOK, Executor
<1>7. ASSUME NEW u \in Token, ExecutorStep(u), ~Release(u), ~GiveUp(u), ex' # ex
      PROVE  /\ ex'[t].abort = ex[t].abort /\ ex'[t].beating = ex[t].beating
             /\ ex[t].pc # "idle" => ex'[t].pc # "idle"
             /\ ex[t].pc # "done" => ex'[t].pc # "done"
  <2>1. PICK pc \in {"work", "gate", "ending", "write_running", "write_waiting"} : Goto(u, pc)
    BY <1>7 DEF ExecutorStep, RunStarted, CheckFence, WriteStatus, CompleteRun, CompletedRow, FailRun,
       FinishCancelled, LoseLease, Renew, Reclaim
  <2> QED BY <1>1, <2>1 DEF Goto, TypeOK, Executor
<1>8. ASSUME NEW u \in Token, Release(u)
      PROVE  ex' = [ex EXCEPT ![u] = NoExecutor("done")]
  BY <1>8 DEF Release
<1>9. ASSUME NEW u \in Token, GiveUp(u)
      PROVE  ex' = [ex EXCEPT ![u].abort = TRUE, ![u].beating = FALSE]
  BY <1>9 DEF GiveUp
<1>10. ASSUME NEW e \in Engines, Crash(e)
       PROVE  ex'[t] \in {ex[t], NoExecutor("dead")}
  BY <1>1, <1>10 DEF Crash, TypeOK
<1>11. CASE \E q \in Requests, e \in Engines : StartPipeline(q, e)
  <2>1. PICK q \in Requests, e \in Engines : StartPipeline(q, e)
    BY <1>11
  <2>2. t # run.attempt + 1 => ex'[t] = ex[t]
    BY <1>1, <1>5, <2>1 DEF TypeOK
  <2>3. ASSUME t = run.attempt + 1 PROVE ex'[t].pc = "begin" /\ ~ex'[t].abort
    <3>1. ex'[t] = [pc |-> "begin", engine |-> e, abort |-> FALSE, beating |-> TRUE]
      BY <1>1, <1>5, <2>1, <2>3 DEF TypeOK
    <3> QED BY <3>1
  <2> QED BY <2>1, <2>2, <2>3
<1>12. CASE \E q \in Requests, e \in Engines : SignalCancel(q, e)
  BY <1>2, <1>6, <1>12
<1>13. CASE \E u \in Token : Release(u)
  <2>1. PICK u \in Token : Release(u)
    BY <1>13
  <2>2. t # u => ex'[t] = ex[t]
    BY <1>1, <1>8, <2>1 DEF TypeOK
  <2>3. t = u => ex'[t] = NoExecutor("done")
    BY <1>1, <1>8, <2>1 DEF TypeOK
  <2> QED BY <2>1, <2>2, <2>3 DEF NoExecutor
<1>14. CASE \E u \in Token : GiveUp(u)
  <2>1. PICK u \in Token : GiveUp(u)
    BY <1>14
  <2>2. t # u => ex'[t] = ex[t]
    BY <1>1, <1>9, <2>1 DEF TypeOK
  <2>3. ASSUME t = u PROVE ex'[t].pc = ex[t].pc /\ ~ex'[t].beating
    <3>1. ex'[t] = [ex[t] EXCEPT !.abort = TRUE, !.beating = FALSE]
      BY <1>1, <1>9, <2>1, <2>3 DEF TypeOK
    <3> QED BY <1>1, <3>1 DEF TypeOK, Executor
  <2> QED BY <2>1, <2>2, <2>3
<1>15. CASE \E e \in Engines : Crash(e)
  BY <1>10, <1>15 DEF NoExecutor
<1> QED
  BY <1>3, <1>4, <1>7, <1>11, <1>12, <1>13, <1>14, <1>15
     DEF Next, Spawn, Lapse, OtherRun, RestartBackend, vars

LEMMA AbandonedNext == IInv /\ [Next]_vars => Abandoned'
<1> SUFFICES ASSUME IInv, [Next]_vars, NEW t \in Token, ex'[t].abort, ~run'.cancel
             PROVE  run'.token # t /\ ~ex'[t].beating
  BY DEF Abandoned
<1>1. TypeOK /\ ~run.cancel
  BY CancelStays DEF IInv
<1>2. CASE ~ex[t].abort
  <2>1. GiveUp(t)
    BY <1>2, ExecutorMoves
  <2> QED BY <1>1, <2>1 DEF GiveUp, TypeOK, Executor
<1>3. CASE ex[t].abort
  <2>1. run.token # t /\ ~ex[t].beating
    BY <1>1, <1>3 DEF IInv, Abandoned
  <2>2. ASSUME NEW q \in Requests, NEW e \in Engines, StartPipeline(q, e)
        PROVE  run'.token = run.attempt + 1 /\ t # run.attempt + 1
    <3>1. run'.token = run.attempt + 1
      BY <1>1, <2>2 DEF StartPipeline, TypeOK, RunRow
    <3>2. t = run.attempt + 1 => ~ex'[t].abort
      BY <1>1, <2>2 DEF StartPipeline, TypeOK, Executor
    <3> QED BY <3>1, <3>2
  <2>3. ASSUME NEW u \in Token, Reclaim(u) PROVE run'.token = u /\ u # t
    BY <1>1, <2>1, <2>3 DEF Reclaim, Beats, TypeOK, RunRow
  <2>4. run'.token # t
    BY <1>1, <2>1, <2>2, <2>3, TokenMoves
  <2>5. ~ex'[t].beating
    BY <2>1, <2>2, ExecutorMoves
  <2> QED BY <2>4, <2>5
<1> QED BY <1>2, <1>3

LEMMA IssuedNext == IInv /\ [Next]_vars => Issued'
<1> SUFFICES ASSUME IInv, [Next]_vars PROVE Issued'
  OBVIOUS
<1>1. TypeOK /\ Issued BY DEF IInv
<1>2. ASSUME NEW q \in Requests, NEW e \in Engines, StartPipeline(q, e) PROVE Issued'
  <2>1. run'.attempt = run.attempt + 1 /\ run'.token = run.attempt + 1
    BY <1>1, <1>2 DEF StartPipeline, TypeOK, RunRow
  <2>2. ASSUME NEW t \in Token PROVE ex'[t].pc = "idle" <=> t > run.attempt + 1
    BY <1>1, <1>2, RowTypes, MaxAttemptsAssumption DEF StartPipeline, TypeOK, Executor, Issued
  <2> QED BY <2>1, <2>2, RowTypes, <1>1, MaxAttemptsAssumption DEF Issued
<1>3. CASE ~\E q \in Requests, e \in Engines : StartPipeline(q, e)
  <2>1. run'.attempt = run.attempt
    BY <1>1, <1>3 DEF Next, RequestStep, ResumeRun, DispatchFails, LoadCandidate, CancelRun,
       Dismiss, WriteIntent, SettleCancelled, LoseSignal, RefuseStart, KeepActive, DeclareDead,
       DeadRow, SignalCancel, CancelRequestedRow, ExecutorStep, RunStarted, CheckFence, WriteStatus, CompleteRun, CompletedRow,
       FailRun, FinishCancelled, LoseLease, Release, ReleasedRow, Renew, Reclaim, GiveUp, Crash,
       Spawn, Lapse, OtherRun, RestartBackend, InitDbRow, vars, TypeOK, RunRow
  <2>2. ASSUME NEW u \in Token, Reclaim(u) PROVE run'.token <= run.attempt
    <3>1. ex[u].pc # "idle" /\ run'.token = u
      BY <1>1, <2>2 DEF Reclaim, Beats, TypeOK, RunRow
    <3> QED BY <1>1, <3>1, RowTypes, MaxAttemptsAssumption DEF Issued
  <2>3. run'.token <= run.attempt
    BY <1>1, <1>3, <2>2, TokenMoves, RowTypes, MaxAttemptsAssumption DEF Issued
  <2>4. ASSUME NEW t \in Token PROVE ex'[t].pc = "idle" <=> ex[t].pc = "idle"
    <3>1. ex[t].pc # "idle" => ex'[t].pc # "idle"
      BY ExecutorMoves
    <3>2. ASSUME ex[t].pc = "idle" PROVE ex'[t] = ex[t] \/ ex'[t].pc = "idle"
      <4>1. ASSUME NEW u \in Token, ExecutorStep(u) PROVE ex'[t] = ex[t]
        <5>1. u # t \/ ex' = ex
          BY <3>2, <4>1 DEF ExecutorStep, RunStarted, CheckFence, WriteStatus, CompleteRun, CompletedRow,
             FailRun, FinishCancelled, LoseLease, Release, Renew, Reclaim, GiveUp, Beats
        <5>2. ex' = [ex EXCEPT ![u] = ex'[u]]
          BY <1>1, <4>1 DEF ExecutorStep, RunStarted, CheckFence, WriteStatus, CompleteRun, CompletedRow,
             FailRun, FinishCancelled, LoseLease, Release, Renew, Reclaim, GiveUp, Goto, TypeOK
        <5> QED BY <1>1, <5>1, <5>2 DEF TypeOK
      <4>2. ASSUME NEW e \in Engines, Crash(e) PROVE ex'[t] = ex[t]
        BY <1>1, <3>2, <4>2 DEF Crash, Alive, Working, TypeOK
      <4>3. ASSUME NEW q \in Requests, NEW e \in Engines, SignalCancel(q, e)
            PROVE  ex'[t].pc = "idle"
        BY <1>1, <3>2, <4>3 DEF SignalCancel, CancelRequestedRow, TypeOK, Executor
      <4> QED
        BY <1>3, <3>2, <4>1, <4>2, <4>3 DEF Next, RequestStep, ResumeRun, DispatchFails,
           LoadCandidate, CancelRun, Dismiss, WriteIntent, SettleCancelled, LoseSignal,
           RefuseStart, KeepActive, DeclareDead, Spawn, Lapse, OtherRun, RestartBackend, vars
    <3> QED BY <3>1, <3>2
  <2> QED BY <1>1, <2>1, <2>3, <2>4 DEF Issued
<1> QED BY <1>2, <1>3

LEMMA ReleasedNext == IInv /\ [Next]_vars => Released'
<1> SUFFICES ASSUME IInv, [Next]_vars, run'.token # NoToken
             PROVE  ex'[run'.token].pc # "done"
  BY DEF Released
<1>1. TypeOK BY DEF IInv
<1>2. ASSUME NEW q \in Requests, NEW e \in Engines, StartPipeline(q, e)
      PROVE  ex'[run'.token].pc # "done"
  <2>1. run'.token = run.attempt + 1 /\ run'.token \in Token
    BY <1>1, <1>2, TypeNext DEF StartPipeline, TypeOK, RunRow
  <2> QED BY <1>1, <1>2, <2>1 DEF StartPipeline, TypeOK, Executor
<1>3. ASSUME NEW t \in Token, Reclaim(t) PROVE ex'[run'.token].pc # "done"
  BY <1>1, <1>3 DEF Reclaim, Beats, TypeOK, RunRow
<1>4. CASE run'.token = run.token
  <2>1. run.token \in Token /\ ex[run.token].pc # "done"
    BY <1>1, <1>4, RowTypes DEF IInv, Released
  <2>2. ~Release(run.token)
    BY <1>1, <1>4 DEF Release, ReleasedRow, TypeOK, RunRow
  <2> QED BY <1>4, <2>1, <2>2, ExecutorMoves
<1> QED BY <1>1, <1>2, <1>3, <1>4, TokenMoves

-----------------------------------------------------------------------------
(* Theorems *)

LEMMA IInvInit == Init => IInv
<1> SUFFICES ASSUME Init PROVE IInv
  OBVIOUS
<1>1. TypeOK BY TypeInit
<1>2. Issued /\ Requested /\ Abandoned /\ Released
  BY MaxAttemptsAssumption DEF Init, Issued, Requested, Abandoned, Released, NoExecutor
<1>3. Intended
  BY DEF Init, Intended, Idle
<1> QED BY <1>1, <1>2, <1>3 DEF IInv

LEMMA IInvNext == IInv /\ [Next]_vars => IInv'
BY TypeNext, IssuedNext, RequestedNext, IntendedNext, AbandonedNext, ReleasedNext DEF IInv

LEMMA Invariant == Spec => []IInv
<1>1. Init => IInv BY IInvInit
<1>2. IInv /\ [Next]_vars => IInv' BY IInvNext
<1> QED BY <1>1, <1>2, PTL DEF Spec

\* An executor that lost its lease, by expiry or to another owner, never records
\* its own abort as the user's cancel: "cancelled" always has a recorded request.
THEOREM CancelledRequested == Spec => []CancelledOnlyOnRequest
<1>1. IInv => CancelledOnlyOnRequest
  BY DEF IInv, Requested, CancelledOnlyOnRequest
<1> QED BY <1>1, Invariant, PTL

\* However an executor ends (done, cancelled, failed, fenced out), its lease is
\* given back, also when it had expired before: no ended executor holds the run.
THEOREM LeaseReturned == Spec => []NoLeakedLease
<1>1. IInv => NoLeakedLease
  <2> SUFFICES ASSUME IInv, run.token # NoToken
               PROVE  ex[run.token].pc \notin {"idle", "done"}
    BY DEF NoLeakedLease
  <2>1. run.token \in Token /\ run.attempt \in Nat
    BY RowTypes, MaxAttemptsAssumption DEF IInv
  <2> QED BY <2>1, MaxAttemptsAssumption DEF IInv, Issued, Released
<1> QED BY <1>1, Invariant, PTL

\* A heartbeat that gave up is final: the aborted executor owns the lease no more.
THEOREM AbandonedIsFinal == Spec => []AbandonedNeverOwns
<1>1. IInv => AbandonedNeverOwns
  BY DEF IInv, Abandoned, AbandonedNeverOwns
<1> QED BY <1>1, Invariant, PTL

\* A recorded cancel wins over a completion: the success of a run whose cancel was
\* recorded first is never committed.
THEOREM CancelBeatsSuccess == Spec => NoSuccessAfterCancel
<1>1. TypeOK /\ [Next]_vars
        => [run.cancel /\ run.status # "succeeded" => run'.status # "succeeded"]_vars
  <2> SUFFICES ASSUME TypeOK, Next, run.cancel, run.status # "succeeded",
                      run'.status = "succeeded"
               PROVE  FALSE
    OBVIOUS
  <2>1. ASSUME NEW q \in Requests, RequestStep(q) PROVE FALSE
    <3>1. ASSUME NEW e \in Engines, DeclareDead(q, e) PROVE FALSE
      BY <3>1 DEF DeclareDead, DeadRow, TypeOK, RunRow
    <3>2. ASSUME NEW e \in Engines,
                 StartPipeline(q, e) \/ RefuseStart(q, e) \/ SignalCancel(q, e)
          PROVE  FALSE
      BY <3>2 DEF StartPipeline, RefuseStart, SignalCancel, CancelRequestedRow, TypeOK, RunRow
    <3>3. CASE Dismiss(q) \/ WriteIntent(q) \/ SettleCancelled(q)
      <4>1. CASE Dismiss(q)
        BY <4>1 DEF Dismiss, TypeOK, RunRow
      <4>2. CASE WriteIntent(q)
        <5>1. run'.status \in {run.status, "cancelling"}
          BY <4>2 DEF WriteIntent, TypeOK, RunRow
        <5> QED BY <5>1
      <4>3. CASE SettleCancelled(q)
        <5>1. run'.status = "cancelled"
          BY <4>3 DEF SettleCancelled, TypeOK, RunRow
        <5> QED BY <5>1
      <4> QED BY <3>3, <4>1, <4>2, <4>3
    <3> QED
      BY <2>1, <3>1, <3>2, <3>3 DEF RequestStep, ResumeRun, DispatchFails, LoadCandidate,
         CancelRun, LoseSignal, KeepActive
  <2>2. ASSUME NEW t \in Token, ExecutorStep(t) PROVE FALSE
    <3>1. CASE RunStarted(t) \/ CompleteRun(t) \/ FailRun(t)
      BY <3>1 DEF RunStarted, CompleteRun, CompletedRow, FailRun, CommitAllowed, CancelSeen
    <3>2. CASE FinishCancelled(t)
      <4>1. run' \in {run, [run EXCEPT !.status = "cancelled"]}
        BY <3>2 DEF FinishCancelled
      <4> QED BY <4>1 DEF TypeOK, RunRow
    <3>3. CASE WriteStatus(t)
      BY <3>3 DEF WriteStatus, TypeOK, RunRow
    <3>4. CASE Release(t) \/ Renew(t) \/ Reclaim(t)
      BY <3>4 DEF Release, ReleasedRow, Renew, Reclaim, ReclaimAllowed, TypeOK, RunRow
    <3> QED BY <2>2, <3>1, <3>2, <3>3, <3>4 DEF ExecutorStep, CheckFence, LoseLease, GiveUp
  <2>3. ~Lapse
    BY DEF Lapse, TypeOK, RunRow
  <2>4. ~RestartBackend
    <3>1. InitDbRow.status \in {run.status, "cancelled", "failed"}
      BY DEF InitDbRow, TypeOK, RunRow
    <3> QED BY <3>1 DEF RestartBackend
  <2> QED BY <2>1, <2>2, <2>3, <2>4 DEF Next, Crash, Spawn, OtherRun
<1> QED BY <1>1, TypeCorrect, PTL DEF Spec, NoSuccessAfterCancel

\* A recorded cancel closes the run to executors: no resume, new engine or late
\* heartbeat takes the lease afterwards.
THEOREM CancelClosesLease == Spec => NoLeaseAfterCancel
<1>1. TypeOK /\ [Next]_vars => [run.cancel => run'.token \in {run.token, NoToken}]_vars
  BY TokenMoves
<1> QED BY <1>1, TypeCorrect, PTL DEF Spec, NoLeaseAfterCancel

=============================================================================
