------------------------- MODULE ProviderCallProofs -------------------------
(* Theorems about ProviderCall, for every set of names, every shape of       *)
(* request and every limit on retries, polls, copies, kills and boots.       *)
EXTENDS ProviderCall, FiniteSetTheorems, TLAPS

(***************************************************************************)
(* The inductive invariant.  A file that is named stays on disk because    *)
(* the sweep removes only what it found unnamed, and while it runs nothing *)
(* can be named anew: no run is active, and the request of an executor     *)
(* that lingers holds a file younger than the sweep's grace.               *)
(***************************************************************************)

\* The file of a request is young, and has no row and no name until it is registered.
Young ==
    /\ call.file \notin aged
    /\ call.at = "linked" => call.file \in disk \ (rows \cup Mentioned)

\* A sweep works on registered files, in a project at rest.
Sweeping ==
    /\ gateway.todo \subseteq rows /\ gateway.gone \subseteq rows \ disk
    /\ gateway.at = "sweeping" => ~Busy
    /\ gateway.at # "sweeping" => gateway.todo = {}
    /\ gateway.todo \cap (Mentioned \cup {call.file}) = {}

\* An executor is aborted only when its run is no longer to be worked on.
Stopped == sig.aborted => sig.working /\ run.status # "active"

Counted == IsFiniteSet(disk \ rows) /\ UnregisteredOnlyByKill

IInv == TypeOK /\ Young /\ Sweeping /\ Stopped /\ MentionsResolve /\ Counted

-----------------------------------------------------------------------------
(* Steps that move the request and nothing else *)

Calls == [kind : Kinds \cup {"none"}, at : Steps,
          tries : 0 .. MaxRetries + MaxPollFailures + MaxCopies + 1,
          polls : 0 .. MaxPolls, file : Files \cup {NoFile}]

Moves ==
    /\ OnlyCall
    /\ call' \in Calls
    /\ call.at # "linked" /\ call'.at # "linked"
    /\ call'.file \in {call.file, NoFile}

\* What an aborted request may still do by such a step.
Quietly == sig.aborted => call'.at \notin Requested

USE KindsAssumption, FilesAssumption, LimitsAssumption

LEMMA IdleCall == Idle \in Calls /\ Idle.at = "idle" /\ Idle.file = NoFile
BY DEF Idle, Calls, Steps

LEMMA Limits ==
    MaxRetries \in Nat /\ MaxPollFailures \in Nat /\ MaxCopies \in Nat /\ MaxPolls \in Nat
BY DEF LimitsAssumption

\* Counters stay in their range, as every step on is guarded by its limit.
LEMMA Counters ==
    ASSUME call \in Calls
    PROVE  /\ call.kind \in Kinds \cup {"none"} /\ call.at \in Steps
           /\ call.file \in Files \cup {NoFile}
           /\ call.tries \in 0 .. MaxRetries + MaxPollFailures + MaxCopies + 1
           /\ call.polls \in 0 .. MaxPolls
           /\ 0 \in 0 .. MaxRetries + MaxPollFailures + MaxCopies + 1
           /\ 1 \in 0 .. MaxRetries + MaxPollFailures + MaxCopies + 1
           /\ call.tries < MaxRetries => call.tries + 1 \in 0 .. MaxRetries + MaxPollFailures + MaxCopies + 1
           /\ call.tries + 1 < MaxPollFailures => call.tries + 1 \in 0 .. MaxRetries + MaxPollFailures + MaxCopies + 1
           /\ call.tries + 1 < MaxCopies => call.tries + 1 \in 0 .. MaxRetries + MaxPollFailures + MaxCopies + 1
           /\ call.polls < MaxPolls => call.polls + 1 \in 0 .. MaxPolls
<1>1. call.kind \in Kinds \cup {"none"} /\ call.at \in Steps /\ call.file \in Files \cup {NoFile}
  BY DEF Calls
<1>2. call.tries \in 0 .. MaxRetries + MaxPollFailures + MaxCopies + 1 /\ call.polls \in 0 .. MaxPolls
  BY DEF Calls
<1> QED BY <1>1, <1>2, Limits

\* A request moves to another place, with other counters, and may give up its file.
Changed(at, n) ==
    \/ call' = [call EXCEPT !.at = at]
    \/ call' = [call EXCEPT !.at = at, !.tries = n]
    \/ call' = [call EXCEPT !.at = at, !.tries = n, !.file = NoFile]

Polled(at, n) == call' = [call EXCEPT !.at = at, !.polls = n]

LEMMA IsMove ==
    ASSUME call \in Calls, OnlyCall, call.at # "linked",
           NEW at \in Steps \ {"linked"}, at \in Requested => ~sig.aborted,
           NEW n \in 0 .. MaxRetries + MaxPollFailures + MaxCopies + 1,
           Changed(at, n)
    PROVE  Moves /\ Quietly
<1>1. CASE call' = [call EXCEPT !.at = at]
  <2>1. call' \in Calls /\ call'.at = at /\ call'.file = call.file
    BY <1>1 DEF Calls
  <2> QED BY <2>1 DEF Moves, Quietly
<1>2. CASE call' = [call EXCEPT !.at = at, !.tries = n]
  <2>1. call' \in Calls /\ call'.at = at /\ call'.file = call.file
    BY <1>2 DEF Calls
  <2> QED BY <2>1 DEF Moves, Quietly
<1>3. CASE call' = [call EXCEPT !.at = at, !.tries = n, !.file = NoFile]
  <2>1. call' \in Calls /\ call'.at = at /\ call'.file = NoFile
    BY <1>3 DEF Calls
  <2> QED BY <2>1 DEF Moves, Quietly
<1> QED BY <1>1, <1>2, <1>3 DEF Changed

LEMMA IsPoll ==
    ASSUME call \in Calls, OnlyCall, call.at # "linked",
           NEW at \in Steps \ {"linked"}, at \in Requested => ~sig.aborted,
           NEW n \in 0 .. MaxPolls, Polled(at, n)
    PROVE  Moves /\ Quietly
<1>1. call' \in Calls /\ call'.at = at /\ call'.file = call.file
  BY DEF Calls, Polled
<1> QED BY <1>1 DEF Moves, Quietly

LEMMA IsEnd ==
    ASSUME call \in Calls, OnlyCall, call.at # "linked", End
    PROVE  Moves /\ Quietly
BY IdleCall DEF Moves, Quietly, End, Requested

LEMMA Places ==
    /\ \A at \in {"idle", "start", "post", "copy", "got", "backoff", "gap", "pause"} :
         at \in Steps \ {"linked"} /\ at \notin Requested
    /\ \A at \in {"posted", "polled", "copying", "encoding"} : at \in Steps \ {"linked"}
BY DEF Steps, Waiting, Requested

\* Every step of the engine or of a provider that publishes nothing is a
\* silent move.
LEMMA MovesOnly ==
    ASSUME TypeOK,
           \/ Start \/ Post \/ Wake \/ Copy \/ Cut
           \/ AnswerText \/ RepairText \/ AnswerPost \/ LosePost
           \/ AnswerPoll \/ LosePoll \/ LoseCopy \/ LateCopy \/ LoseFilm
    PROVE  Moves /\ Quietly
<1>0. call \in Calls
  BY DEF TypeOK, Calls
<1> USE DEF MoveTo, InFlight
<1>1. CASE Start
  <2>1. OnlyCall /\ call.at # "linked" /\ (Changed("post", call.tries) \/ End)
    BY <1>0, <1>1, Counters DEF Start, Changed
  <2> QED BY <1>0, <2>1, IsMove, IsEnd, IsPoll, Counters, Places
<1>2. CASE Post
  <2>1. OnlyCall /\ call.at # "linked" /\ ((Changed("posted", call.tries) /\ ~sig.aborted) \/ End)
    BY <1>0, <1>2, Counters DEF Post, MayPost, Changed
  <2> QED BY <1>0, <2>1, IsMove, IsEnd, IsPoll, Counters, Places
<1>3. CASE Wake
  <2>1. OnlyCall /\ call.at # "linked" /\ (Changed("post", call.tries) \/ Changed("copy", call.tries) \/ End \/ (~sig.aborted /\ call.polls < MaxPolls /\ Polled("polled", call.polls + 1)))
    BY <1>0, <1>3, Counters DEF Wake, DoubaoPolls, TaskPolls, Waiting, Changed, Polled
  <2> QED BY <1>0, <2>1, IsMove, IsEnd, IsPoll, Counters, Places
<1>4. CASE Copy
  <2>1. OnlyCall /\ call.at # "linked" /\ ((Changed("copying", call.tries) /\ ~sig.aborted) \/ End)
    BY <1>0, <1>4, Counters DEF Copy, Changed
  <2> QED BY <1>0, <2>1, IsMove, IsEnd, IsPoll, Counters, Places
<1>5. CASE Cut
  <2>1. OnlyCall /\ call.at # "linked" /\ (End)
    BY <1>0, <1>5, Counters DEF Cut, Observes, Requested
  <2> QED BY <1>0, <2>1, IsMove, IsEnd, IsPoll, Counters, Places
<1>6. CASE AnswerText
  <2>1. OnlyCall /\ call.at # "linked" /\ (Changed("got", call.tries))
    BY <1>0, <1>6, Counters DEF AnswerText, Changed
  <2> QED BY <1>0, <2>1, IsMove, IsEnd, IsPoll, Counters, Places
<1>7. CASE RepairText
  <2>1. OnlyCall /\ call.at # "linked" /\ (Changed("post", 1) \/ End)
    BY <1>0, <1>7, Counters DEF RepairText, Changed
  <2> QED BY <1>0, <2>1, IsMove, IsEnd, IsPoll, Counters, Places
<1>8. CASE AnswerPost
  <2>1. OnlyCall /\ call.at # "linked" /\ (Changed("copy", 0) \/ Changed("gap", 0))
    BY <1>0, <1>8, Counters DEF AnswerPost, Changed
  <2> QED BY <1>0, <2>1, IsMove, IsEnd, IsPoll, Counters, Places
<1>9. CASE LosePost
  <2>1. OnlyCall /\ call.at # "linked" /\ ((call.tries < MaxRetries /\ Changed("backoff", call.tries + 1)) \/ End)
    BY <1>0, <1>9, Counters DEF LosePost, Retried, Changed
  <2> QED BY <1>0, <2>1, IsMove, IsEnd, IsPoll, Counters, Places
<1>10. CASE AnswerPoll
  <2>1. OnlyCall /\ call.at # "linked" /\ (Changed("gap", 0) \/ Changed("copy", 0) \/ End)
    BY <1>0, <1>10, Counters DEF AnswerPoll, Changed
  <2> QED BY <1>0, <2>1, IsMove, IsEnd, IsPoll, Counters, Places
<1>11. CASE LosePoll
  <2>1. OnlyCall /\ call.at # "linked" /\ ((call.tries + 1 < MaxPollFailures /\ Changed("gap", call.tries + 1)) \/ End)
    BY <1>0, <1>11, Counters DEF LosePoll, Changed
  <2> QED BY <1>0, <2>1, IsMove, IsEnd, IsPoll, Counters, Places
<1>12. CASE LoseCopy
  <2>1. OnlyCall /\ call.at # "linked" /\ ((call.tries + 1 < MaxCopies /\ Changed("pause", call.tries + 1)) \/ End)
    BY <1>0, <1>12, Counters DEF LoseCopy, CopyAgain, Changed
  <2> QED BY <1>0, <2>1, IsMove, IsEnd, IsPoll, Counters, Places
<1>13. CASE LateCopy
  <2>1. OnlyCall /\ call.at # "linked" /\ (End)
    BY <1>0, <1>13, Counters DEF LateCopy
  <2> QED BY <1>0, <2>1, IsMove, IsEnd, IsPoll, Counters, Places
<1>14. CASE LoseFilm
  <2>1. OnlyCall /\ call.at # "linked" /\ (End)
    BY <1>0, <1>14, Counters DEF LoseFilm
  <2> QED BY <1>0, <2>1, IsMove, IsEnd, IsPoll, Counters, Places
<1> QED
  BY <1>1, <1>2, <1>3, <1>4, <1>5, <1>6, <1>7, <1>8, <1>9, <1>10, <1>11, <1>12, <1>13, <1>14

-----------------------------------------------------------------------------
(* Steps keep the invariant *)

LEMMA MovesKeep == IInv /\ Moves => IInv'
<1> SUFFICES ASSUME IInv, Moves PROVE IInv'
  OBVIOUS
<1> USE DEF Moves, OnlyCall
<1>1. TypeOK'
  BY DEF IInv, TypeOK, Calls
<1>2. Young'
  BY DEF IInv, Young, TypeOK, Mentioned
<1>3. Sweeping'
  BY DEF IInv, Sweeping, Busy, Mentioned, TypeOK
<1>4. Stopped'
  BY DEF IInv, Stopped
<1>5. MentionsResolve'
  BY DEF IInv, MentionsResolve, Mentioned
<1>6. Counted'
  BY DEF IInv, Counted, UnregisteredOnlyByKill
<1> QED BY <1>1, <1>2, <1>3, <1>4, <1>5, <1>6 DEF IInv

\* A new file is nobody's and unregistered.
LEMMA LinkKeeps == IInv /\ LinkNew /\ call.at # "linked" => IInv'
<1> SUFFICES ASSUME IInv, LinkNew, call.at # "linked" PROVE IInv'
  OBVIOUS
<1>1. PICK f \in Free : disk' = disk \cup {f} /\ call' = [call EXCEPT !.at = "linked", !.file = f]
  BY DEF LinkNew
<1>2. UNCHANGED <<sig, run, rows, aged, shown, history, gateway, used>>
  BY DEF LinkNew
<1>3. f \in Files /\ f \notin disk /\ f \notin rows /\ f \notin Mentioned /\ f # NoFile
  BY <1>1 DEF Free
<1>4. call' \in Calls /\ call'.at = "linked" /\ call'.file = f
  BY <1>1, <1>3 DEF IInv, TypeOK, Calls, Steps
<1>5. TypeOK'
  BY <1>1, <1>2, <1>3, <1>4 DEF IInv, TypeOK, Calls
<1>6. Young'
  BY <1>1, <1>2, <1>3, <1>4 DEF IInv, Young, TypeOK, Mentioned
<1>7. Sweeping'
  BY <1>1, <1>2, <1>3, <1>4 DEF IInv, Sweeping, Busy, Mentioned
<1>8. Stopped'
  BY <1>2 DEF IInv, Stopped
<1>9. MentionsResolve'
  BY <1>1, <1>2, <1>4 DEF IInv, MentionsResolve, Mentioned
<1>10. Counted'
  <2>1. disk' \ rows' = (disk \ rows) \cup {f} /\ f \notin disk \ rows
    BY <1>1, <1>2, <1>3
  <2>2. IsFiniteSet(disk' \ rows') /\ Cardinality(disk' \ rows') = Cardinality(disk \ rows) + 1
    BY <2>1, FS_AddElement DEF IInv, Counted
  <2>3. Cardinality(disk \ rows) <= used.kills /\ used.kills \in Nat /\ Cardinality(disk \ rows) \in Nat
    BY FS_CardinalityType DEF IInv, Counted, UnregisteredOnlyByKill, TypeOK
  <2> QED BY <1>2, <1>4, <2>2, <2>3 DEF Counted, UnregisteredOnlyByKill
<1> QED BY <1>5, <1>6, <1>7, <1>8, <1>9, <1>10 DEF IInv

\* Leaving "linked", by a row, a refusal or a kill, keeps the count.
LEMMA OneFewer ==
    ASSUME IInv, call.at = "linked"
    PROVE  /\ call.file \in Files /\ call.file \in disk /\ call.file \notin rows \cup Mentioned
           /\ IsFiniteSet((disk \ rows) \ {call.file})
           /\ Cardinality((disk \ rows) \ {call.file}) <= used.kills
           /\ Cardinality(disk \ rows) <= used.kills + 1
           /\ used.kills \in Nat
<1>1. call.file \in disk \ rows /\ call.file \notin Mentioned /\ IsFiniteSet(disk \ rows) /\ disk \subseteq Files
  BY DEF IInv, Young, Counted, TypeOK
<1>2. Cardinality(disk \ rows) <= used.kills + 1 /\ used.kills \in Nat
  BY DEF IInv, Counted, UnregisteredOnlyByKill, TypeOK
<1>3. /\ IsFiniteSet((disk \ rows) \ {call.file})
      /\ Cardinality((disk \ rows) \ {call.file}) = Cardinality(disk \ rows) - 1
  BY <1>1, FS_RemoveElement
<1>4. Cardinality(disk \ rows) \in Nat
  BY <1>1, FS_CardinalityType
<1> QED BY <1>1, <1>2, <1>3, <1>4

LEMMA RegisterKeeps == IInv /\ Register => IInv'
<1> SUFFICES ASSUME IInv, Register PROVE IInv'
  OBVIOUS
<1>0. call \in Calls /\ call.at = "linked" /\ UNCHANGED <<sig, run, aged, shown, history, gateway, used>>
  BY DEF IInv, TypeOK, Calls, Register
<1>1. CASE FenceOpen
  <2>1. /\ rows' = rows \cup {call.file} /\ UNCHANGED disk
        /\ call' \in Calls /\ call'.at = "got" /\ call'.file = call.file
    BY <1>0, <1>1 DEF Register, MoveTo, Calls, Steps
  <2>2. TypeOK'
    BY <1>0, <2>1, OneFewer DEF IInv, TypeOK, Calls
  <2>3. Young'
    BY <1>0, <2>1 DEF IInv, Young
  <2>4. Sweeping'
    <3>1. gateway.at # "sweeping" /\ gateway.todo = {}
      BY <1>1 DEF IInv, Sweeping, Busy, FenceOpen
    <3>2. gateway.gone \subseteq rows' \ disk'
      BY <2>1, OneFewer, <1>0 DEF IInv, Sweeping
    <3> QED BY <1>0, <3>1, <3>2 DEF Sweeping
  <2>5. Stopped'
    BY <1>0 DEF IInv, Stopped
  <2>6. MentionsResolve'
    BY <1>0, <2>1 DEF IInv, MentionsResolve, Mentioned
  <2>7. Counted'
    <3>1. disk' \ rows' = (disk \ rows) \ {call.file}
      BY <2>1
    <3>2. IsFiniteSet(disk' \ rows') /\ Cardinality(disk' \ rows') <= used.kills /\ used.kills \in Nat
      BY <1>0, <3>1, OneFewer
    <3> QED BY <1>0, <2>1, <3>2 DEF Counted, UnregisteredOnlyByKill
  <2> QED BY <2>2, <2>3, <2>4, <2>5, <2>6, <2>7 DEF IInv
<1>2. CASE ~FenceOpen
  <2>1. disk' = disk \ {call.file} /\ UNCHANGED rows /\ (CopyAgain \/ End)
    BY <1>2 DEF Register, Unlinked
  <2>2. call' \in Calls /\ call'.at # "linked" /\ call'.file = NoFile
    <3>1. CASE End
      BY <3>1, IdleCall DEF End
    <3>2. CASE call.tries + 1 < MaxCopies /\ call' = [call EXCEPT !.at = "pause", !.tries = @ + 1, !.file = NoFile]
      <4>1. call.tries + 1 \in 0 .. MaxRetries + MaxPollFailures + MaxCopies + 1
        BY <1>0, <3>2, Counters
      <4>2. call' \in Calls
        BY <1>0, <3>2, <4>1 DEF Calls, Steps, Waiting
      <4>3. call'.at = "pause" /\ call'.file = NoFile
        BY <1>0, <3>2 DEF Calls
      <4> QED BY <4>2, <4>3
    <3> QED BY <2>1, <3>1, <3>2 DEF CopyAgain
  <2>3. TypeOK'
    BY <1>0, <2>1, <2>2 DEF IInv, TypeOK, Calls
  <2>4. Young'
    BY <1>0, <2>1, <2>2 DEF IInv, Young, TypeOK
  <2>5. Sweeping'
    BY <1>0, <2>1, <2>2 DEF IInv, Sweeping, Busy, Mentioned, TypeOK
  <2>6. Stopped'
    BY <1>0 DEF IInv, Stopped
  <2>7. MentionsResolve'
    BY <1>0, <2>1, <2>2, OneFewer DEF IInv, MentionsResolve, Mentioned
  <2>8. Counted'
    <3>1. disk' \ rows' = (disk \ rows) \ {call.file}
      BY <2>1
    <3>2. IsFiniteSet(disk' \ rows') /\ Cardinality(disk' \ rows') <= used.kills /\ used.kills \in Nat
      BY <1>0, <3>1, OneFewer
    <3> QED BY <1>0, <2>2, <3>2 DEF Counted, UnregisteredOnlyByKill
  <2> QED BY <2>3, <2>4, <2>5, <2>6, <2>7, <2>8 DEF IInv
<1> QED BY <1>1, <1>2

LEMMA CommitKeeps == IInv /\ Commit => IInv'
<1> SUFFICES ASSUME IInv, Commit PROVE IInv'
  OBVIOUS
<1>1. /\ call.at = "got" /\ call' = Idle
      /\ UNCHANGED <<sig, run, disk, rows, aged, gateway, used>>
      /\ \/ FenceOpen /\ call.file # NoFile /\ shown' = call.file /\ history' = history \cup ({shown} \ {NoFile})
         \/ UNCHANGED <<shown, history>>
  BY DEF Commit, End
<1>2. TypeOK'
  BY <1>1, IdleCall DEF IInv, TypeOK, Calls
<1>3. Young'
  BY <1>1, IdleCall DEF IInv, Young, TypeOK
<1>4. Sweeping'
  BY <1>1, IdleCall DEF IInv, Sweeping, Busy, Mentioned, FenceOpen, TypeOK
<1>5. Stopped'
  BY <1>1 DEF IInv, Stopped
<1>6. MentionsResolve'
  BY <1>1, IdleCall DEF IInv, MentionsResolve, Mentioned
<1>7. Counted'
  BY <1>1, IdleCall DEF IInv, Counted, UnregisteredOnlyByKill
<1> QED BY <1>2, <1>3, <1>4, <1>5, <1>6, <1>7 DEF IInv

LEMMA BeginKeeps == \A k \in Kinds : IInv /\ Begin(k) => IInv'
<1> SUFFICES ASSUME NEW k \in Kinds, IInv, Begin(k) PROVE IInv'
  OBVIOUS
<1>1. /\ call = Idle /\ UNCHANGED <<run, disk, rows, aged, shown, history, gateway, used>>
      /\ sig' = sig \/ sig' = [sig EXCEPT !.late = FALSE]
  BY DEF Begin
<1>2. call' \in Calls /\ call'.at # "linked" /\ call'.file = NoFile
  <2>1. PICK at \in Steps \ {"linked"} : call' = [Idle EXCEPT !.kind = k, !.at = at]
    BY Places DEF Begin
  <2>2. call' = [kind |-> k, at |-> at, tries |-> 0, polls |-> 0, file |-> NoFile]
    BY <2>1 DEF Idle
  <2> QED BY <2>2, Limits DEF Calls
<1>3. TypeOK'
  BY <1>1, <1>2 DEF IInv, TypeOK, Calls
<1>4. Young'
  BY <1>1, <1>2 DEF IInv, Young, TypeOK
<1>5. Sweeping'
  BY <1>1, <1>2 DEF IInv, Sweeping, Busy, Mentioned, TypeOK
<1>6. Stopped'
  BY <1>1 DEF IInv, Stopped, TypeOK
<1>7. MentionsResolve'
  BY <1>1, <1>2 DEF IInv, MentionsResolve, Mentioned
<1>8. Counted'
  BY <1>1, <1>2, IdleCall DEF IInv, Counted, UnregisteredOnlyByKill
<1> QED BY <1>3, <1>4, <1>5, <1>6, <1>7, <1>8 DEF IInv

LEMMA RunForms ==
    ASSUME run \in [status : {"active", "cancelling", "ended"}, leased : BOOLEAN]
    PROVE  /\ \A s \in {"active", "cancelling", "ended"} :
                [run EXCEPT !.status = s] \in [status : {"active", "cancelling", "ended"}, leased : BOOLEAN]
           /\ \A b \in BOOLEAN :
                [run EXCEPT !.leased = b] \in [status : {"active", "cancelling", "ended"}, leased : BOOLEAN]
           /\ \A s \in {"active", "ended"}, b \in BOOLEAN :
                [status |-> s, leased |-> b] \in [status : {"active", "cancelling", "ended"}, leased : BOOLEAN]
OBVIOUS

LEMMA SigForms ==
    ASSUME sig \in [working : BOOLEAN, aborted : BOOLEAN, late : BOOLEAN]
    PROVE  /\ [sig EXCEPT !.aborted = TRUE] \in [working : BOOLEAN, aborted : BOOLEAN, late : BOOLEAN]
           /\ [sig EXCEPT !.late = TRUE] \in [working : BOOLEAN, aborted : BOOLEAN, late : BOOLEAN]
           /\ [Quiet EXCEPT !.working = TRUE] \in [working : BOOLEAN, aborted : BOOLEAN, late : BOOLEAN]
           /\ Quiet \in [working : BOOLEAN, aborted : BOOLEAN, late : BOOLEAN]
BY DEF Quiet

\* Steps of the run, the heartbeat and the clock.
LEMMA RunKeeps ==
    IInv /\ (\/ StartRun \/ RequestCancel \/ Abort \/ Deadline
             \/ LeaseLapses \/ Reclaim \/ Finish \/ Reconcile) => IInv'
<1> SUFFICES ASSUME IInv, \/ StartRun \/ RequestCancel \/ Abort \/ Deadline
                          \/ LeaseLapses \/ Reclaim \/ Finish \/ Reconcile
             PROVE IInv'
  OBVIOUS
<1> USE DEF StartRun, RequestCancel, Abort, Deadline, LeaseLapses, Reclaim, Finish, Reconcile, Quiet
<1>1. UNCHANGED <<call, disk, rows, aged, shown, history, gateway>> /\ used'.kills = used.kills
  BY DEF IInv, TypeOK
<1>2. TypeOK'
  <2>0. /\ run \in [status : {"active", "cancelling", "ended"}, leased : BOOLEAN]
        /\ sig \in [working : BOOLEAN, aborted : BOOLEAN, late : BOOLEAN]
    BY DEF IInv, TypeOK
  <2>1. run' \in [status : {"active", "cancelling", "ended"}, leased : BOOLEAN]
    <3>1. CASE StartRun
      BY <2>0, <3>1, RunForms
    <3>2. CASE RequestCancel \/ Reconcile
      BY <2>0, <3>2, RunForms
    <3>3. CASE LeaseLapses \/ Reclaim
      BY <2>0, <3>3, RunForms
    <3>4. CASE Finish
      BY <2>0, <3>4, RunForms
    <3>5. CASE Abort \/ Deadline
      BY <2>0, <3>5
    <3> QED BY <3>1, <3>2, <3>3, <3>4, <3>5
  <2>2. sig' \in [working : BOOLEAN, aborted : BOOLEAN, late : BOOLEAN]
    BY <2>0, SigForms
  <2>3. used' \in [runs : 0 .. MaxRuns, kills : 0 .. MaxKills, boots : 0 .. MaxBoots]
    <3>1. used' = used \/ (used.runs < MaxRuns /\ used' = [used EXCEPT !.runs = @ + 1])
      OBVIOUS
    <3>2. MaxRuns \in Nat
      BY DEF LimitsAssumption
    <3> QED BY <3>1, <3>2 DEF IInv, TypeOK
  <2> QED BY <1>1, <2>1, <2>2, <2>3 DEF IInv, TypeOK
<1>3. Young'
  BY <1>1 DEF IInv, Young, Mentioned
<1>4. Sweeping'
  <2>1. gateway.at = "sweeping" => ~Busy'
    BY DEF IInv, Sweeping, Busy, Serving, TypeOK
  <2> QED BY <1>1, <2>1 DEF IInv, Sweeping, Mentioned
<1>5. Stopped'
  BY DEF IInv, Stopped, TypeOK
<1>6. MentionsResolve'
  BY <1>1 DEF IInv, MentionsResolve, Mentioned
<1>7. Counted'
  BY <1>1 DEF IInv, Counted, UnregisteredOnlyByKill
<1> QED BY <1>2, <1>3, <1>4, <1>5, <1>6, <1>7 DEF IInv

LEMMA KillKeeps == IInv /\ Kill => IInv'
<1> SUFFICES ASSUME IInv, Kill PROVE IInv'
  OBVIOUS
<1>1. /\ call' = Idle /\ UNCHANGED <<run, disk, rows, aged, shown, history, gateway>>
      /\ sig' = Quiet /\ used.kills < MaxKills /\ used' = [used EXCEPT !.kills = @ + 1]
  BY DEF Kill, End
<1>2. TypeOK'
  BY <1>1, IdleCall, Limits DEF IInv, TypeOK, Calls, Quiet
<1>3. Young'
  BY <1>1, IdleCall DEF IInv, Young, TypeOK
<1>4. Sweeping'
  BY <1>1, IdleCall DEF IInv, Sweeping, Busy, Mentioned, TypeOK
<1>5. Stopped'
  BY <1>1 DEF Stopped, Quiet
<1>6. MentionsResolve'
  BY <1>1, IdleCall DEF IInv, MentionsResolve, Mentioned
<1>7. Counted'
  <2>1. IsFiniteSet(disk \ rows) /\ Cardinality(disk \ rows) \in Nat
    BY FS_CardinalityType DEF IInv, Counted
  <2>2. Cardinality(disk \ rows) <= used.kills + 1 /\ used.kills \in Nat
    BY <2>1 DEF IInv, Counted, UnregisteredOnlyByKill, TypeOK
  <2>3. used'.kills = used.kills + 1
    BY <1>1 DEF IInv, TypeOK
  <2> QED BY <1>1, <2>1, <2>2, <2>3, IdleCall DEF Counted, UnregisteredOnlyByKill
<1> QED BY <1>2, <1>3, <1>4, <1>5, <1>6, <1>7 DEF IInv

\* Steps of the user and of the sweep.
LEMMA UserKeeps == IInv /\ (DeleteProject \/ \E f \in Files : Rollback(f)) => IInv'
<1> SUFFICES ASSUME IInv, DeleteProject \/ \E f \in Files : Rollback(f) PROVE IInv'
  OBVIOUS
<1>1. /\ gateway.at = "serving" /\ UNCHANGED <<call, sig, disk, rows, aged, gateway, used>>
      /\ Mentioned' \subseteq Mentioned /\ shown' \in Files \cup {NoFile} /\ history' \subseteq Files
      /\ \/ UNCHANGED run
         \/ run' = [status |-> "ended", leased |-> FALSE]
  BY DEF DeleteProject, Rollback, Serving, Mentioned, IInv, TypeOK
<1>2. TypeOK'
  <2>0. run \in [status : {"active", "cancelling", "ended"}, leased : BOOLEAN]
    BY DEF IInv, TypeOK
  <2>1. run' \in [status : {"active", "cancelling", "ended"}, leased : BOOLEAN]
    <3>1. CASE UNCHANGED run
      BY <2>0, <3>1
    <3>2. CASE run' = [status |-> "ended", leased |-> FALSE]
      BY <2>0, <3>2, RunForms
    <3> QED BY <1>1, <3>1, <3>2
  <2> QED BY <1>1, <2>1 DEF IInv, TypeOK
<1>3. Young'
  BY <1>1 DEF IInv, Young
<1>4. Sweeping'
  BY <1>1 DEF IInv, Sweeping
<1>5. Stopped'
  BY <1>1 DEF IInv, Stopped
<1>6. MentionsResolve'
  BY <1>1 DEF IInv, MentionsResolve
<1>7. Counted'
  BY <1>1 DEF IInv, Counted, UnregisteredOnlyByKill
<1> QED BY <1>2, <1>3, <1>4, <1>5, <1>6, <1>7 DEF IInv

LEMMA SweepKeeps == IInv /\ (Boot \/ Scan \/ EndSweep \/ \E f \in Files : Unlink(f) \/ Age(f)) => IInv'
<1>1. ASSUME IInv, Boot \/ Scan PROVE IInv'
  <2>1. /\ UNCHANGED <<call, sig, run, disk, rows, aged, shown, history>> /\ used'.kills = used.kills
        /\ gateway' \in [at : {"booting", "sweeping", "serving"}, todo : SUBSET Files, gone : SUBSET Files]
        /\ gateway'.todo \subseteq (rows \cap aged) \ Mentioned /\ gateway'.gone \subseteq rows \ disk
        /\ gateway'.at = "sweeping" => ~Busy
        /\ gateway'.at # "sweeping" => gateway'.todo = {}
    BY <1>1 DEF Boot, Scan, Unreferenced, IInv, TypeOK, Sweeping
  <2>2. TypeOK'
    BY <1>1, <2>1, Limits DEF IInv, TypeOK, Boot, Scan
  <2>3. Sweeping'
    BY <1>1, <2>1 DEF IInv, Sweeping, Young, Busy, Mentioned
  <2>4. Young' /\ Stopped' /\ MentionsResolve'
    BY <1>1, <2>1 DEF IInv, Young, Stopped, MentionsResolve, Mentioned
  <2>5. Counted'
    BY <1>1, <2>1 DEF IInv, Counted, UnregisteredOnlyByKill
  <2> QED BY <2>2, <2>3, <2>4, <2>5 DEF IInv
<1>2. ASSUME IInv, EndSweep PROVE IInv'
  <2>1. /\ rows' = rows \ gateway.gone /\ aged' = aged \ gateway.gone
        /\ gateway' = [at |-> "serving", todo |-> {}, gone |-> {}]
        /\ UNCHANGED <<call, sig, run, disk, shown, history, used>>
    BY <1>2 DEF EndSweep
  <2>2. TypeOK'
    BY <1>2, <2>1 DEF IInv, TypeOK
  <2>3. Sweeping'
    BY <2>1 DEF Sweeping
  <2>4. Young' /\ Stopped' /\ MentionsResolve'
    BY <1>2, <2>1 DEF IInv, Young, Stopped, MentionsResolve, Mentioned
  <2>5. disk' \ rows' = disk \ rows
    BY <1>2, <2>1 DEF IInv, Sweeping
  <2>6. Counted'
    BY <1>2, <2>1, <2>5 DEF IInv, Counted, UnregisteredOnlyByKill
  <2> QED BY <2>2, <2>3, <2>4, <2>6 DEF IInv
<1>3. ASSUME IInv, NEW f \in Files, Unlink(f) PROVE IInv'
  <2>1. /\ gateway.at = "sweeping" /\ f \in gateway.todo /\ disk' = disk \ {f}
        /\ gateway' = [gateway EXCEPT !.todo = @ \ {f}, !.gone = @ \cup (disk \cap {f})]
        /\ UNCHANGED <<call, sig, run, rows, aged, shown, history, used>>
    BY <1>3 DEF Unlink
  <2>2. f \in rows /\ f \notin Mentioned \cup {call.file}
    BY <1>3, <2>1 DEF IInv, Sweeping
  <2>3. /\ gateway'.at = gateway.at /\ gateway'.todo = gateway.todo \ {f}
        /\ gateway'.gone = gateway.gone \cup (disk \cap {f})
    BY <1>3, <2>1 DEF IInv, TypeOK
  <2>4. TypeOK'
    BY <1>3, <2>1 DEF IInv, TypeOK
  <2>5. Sweeping'
    BY <1>3, <2>1, <2>2, <2>3 DEF IInv, Sweeping, Busy, Mentioned
  <2>6. Young' /\ Stopped' /\ MentionsResolve'
    BY <1>3, <2>1, <2>2 DEF IInv, Young, Stopped, MentionsResolve, Mentioned
  <2>7. disk' \ rows' = disk \ rows
    BY <2>1, <2>2
  <2>8. Counted'
    BY <1>3, <2>1, <2>7 DEF IInv, Counted, UnregisteredOnlyByKill
  <2> QED BY <2>4, <2>5, <2>6, <2>8 DEF IInv
<1>4. ASSUME IInv, NEW f \in Files, Age(f) PROVE IInv'
  <2>1. /\ f \in rows /\ f # call.file /\ aged' = aged \cup {f}
        /\ UNCHANGED <<call, sig, run, disk, rows, shown, history, gateway, used>>
    BY <1>4 DEF Age
  <2>2. TypeOK'
    BY <1>4, <2>1 DEF IInv, TypeOK
  <2>3. Young' /\ Sweeping' /\ Stopped' /\ MentionsResolve'
    BY <1>4, <2>1 DEF IInv, Young, Sweeping, Busy, Stopped, MentionsResolve, Mentioned
  <2>4. Counted'
    BY <1>4, <2>1 DEF IInv, Counted, UnregisteredOnlyByKill
  <2> QED BY <2>2, <2>3, <2>4 DEF IInv
<1> QED BY <1>1, <1>2, <1>3, <1>4

-----------------------------------------------------------------------------
(* The theorems *)

LEMMA InitInv == Init => IInv
<1> SUFFICES ASSUME Init PROVE IInv
  OBVIOUS
<1>1. TypeOK
  BY IdleCall, Limits DEF Init, TypeOK, Calls, Quiet
<1>2. Young /\ Sweeping /\ Stopped /\ MentionsResolve
  BY IdleCall DEF Init, Young, Sweeping, Stopped, MentionsResolve, Mentioned, Quiet
<1>3. disk \ rows = {} /\ used.kills = 0
  BY DEF Init
<1>4. Counted
  BY <1>3, FS_EmptySet DEF Counted, UnregisteredOnlyByKill
<1> QED BY <1>1, <1>2, <1>4 DEF IInv

LEMMA NextInv == IInv /\ [Next]_vars => IInv'
<1> SUFFICES ASSUME IInv, [Next]_vars PROVE IInv'
  OBVIOUS
<1>1. CASE \E k \in Kinds : Begin(k)
  BY <1>1, BeginKeeps
<1>2. CASE \/ Start \/ Post \/ Wake \/ Copy \/ Cut
           \/ AnswerText \/ RepairText \/ AnswerPost \/ LosePost
           \/ AnswerPoll \/ LosePoll \/ LoseCopy \/ LateCopy \/ LoseFilm
  BY <1>2, MovesOnly, MovesKeep DEF IInv
<1>3. CASE LinkCopy \/ LinkBytes \/ LinkFilm
  BY <1>3, LinkKeeps DEF LinkCopy, LinkBytes, LinkFilm
<1>4. CASE Register
  BY <1>4, RegisterKeeps
<1>5. CASE Commit
  BY <1>5, CommitKeeps
<1>6. CASE \/ StartRun \/ RequestCancel \/ Abort \/ Deadline
           \/ LeaseLapses \/ Reclaim \/ Finish \/ Reconcile
  BY <1>6, RunKeeps
<1>7. CASE Kill
  BY <1>7, KillKeeps
<1>8. CASE DeleteProject \/ \E f \in Files : Rollback(f)
  BY <1>8, UserKeeps
<1>9. CASE Boot \/ Scan \/ EndSweep \/ \E f \in Files : Unlink(f) \/ Age(f)
  BY <1>9, SweepKeeps
<1>10. CASE UNCHANGED vars
  BY <1>10 DEF vars, IInv, TypeOK, Young, Sweeping, Busy, Mentioned, Stopped,
               MentionsResolve, Counted, UnregisteredOnlyByKill
<1> QED
  BY <1>1, <1>2, <1>3, <1>4, <1>5, <1>6, <1>7, <1>8, <1>9, <1>10 DEF Next, EngineStep, Outside

\* What an aborted request may still do in a step: end, or publish a file that
\* is then refused.
LEMMA SilentStep ==
    ASSUME IInv, Next, sig.aborted, call /= Idle
    PROVE  /\ rows' \subseteq rows
           /\ call'.at \in Requested => call' = call
           /\ call' /= call => UNCHANGED <<shown, history>>
<1> USE Places, IdleCall
<1>0. ~FenceOpen /\ ~InFlight /\ call \in Calls
  BY DEF IInv, Stopped, FenceOpen, InFlight, TypeOK, Calls
<1>1. ASSUME NEW k \in Kinds PROVE ~Begin(k)
  BY DEF Begin
<1>2. CASE \/ Start \/ Post \/ Wake \/ Copy \/ Cut
           \/ AnswerText \/ RepairText \/ AnswerPost \/ LosePost
           \/ AnswerPoll \/ LosePoll \/ LoseCopy \/ LateCopy \/ LoseFilm
  BY <1>2, MovesOnly DEF IInv, Moves, Quietly, OnlyCall
<1>3. CASE LinkCopy \/ LinkBytes \/ LinkFilm
  <2>1. PICK f \in Free : call' = [call EXCEPT !.at = "linked", !.file = f]
    BY <1>3 DEF LinkCopy, LinkBytes, LinkFilm, LinkNew
  <2>2. call'.at = "linked"
    BY <1>0, <2>1 DEF Calls
  <2>3. "linked" \notin Requested
    BY DEF Requested
  <2> QED BY <1>3, <2>2, <2>3 DEF LinkCopy, LinkBytes, LinkFilm, LinkNew
<1>4. CASE Register
  <2>1. End /\ UNCHANGED <<rows, shown, history>>
    BY <1>0, <1>4 DEF Register, CopyAgain
  <2> QED BY <2>1 DEF End
<1>5. CASE Commit
  BY <1>0, <1>5 DEF Commit, End
<1>6. CASE \/ StartRun \/ RequestCancel \/ Abort \/ Deadline
           \/ LeaseLapses \/ Reclaim \/ Finish \/ Reconcile
  BY <1>6 DEF StartRun, RequestCancel, Abort, Deadline, LeaseLapses, Reclaim, Finish, Reconcile
<1>7. CASE Kill
  BY <1>7 DEF Kill, End
<1>8. CASE DeleteProject \/ \E f \in Files : Rollback(f)
  BY <1>8 DEF DeleteProject, Rollback
<1>9. CASE Boot \/ Scan \/ EndSweep \/ \E f \in Files : Unlink(f) \/ Age(f)
  BY <1>9 DEF Boot, Scan, EndSweep, Unlink, Age
<1> QED
  BY <1>1, <1>2, <1>3, <1>4, <1>5, <1>6, <1>7, <1>8, <1>9 DEF Next, EngineStep, Outside

\* Every variable keeps its type: the counters of a request stay within the
\* limits that the loops of media.ts set.
THEOREM TypeCorrect == Spec => []TypeOK
<1>1. Spec => []IInv
  BY InitInv, NextInv, PTL DEF Spec
<1> QED BY <1>1, PTL DEF IInv

\* No file is left behind by publishManagedFile but by a kill in its midst.
THEOREM OrphansAreKills == Spec => []UnregisteredOnlyByKill
<1>1. Spec => []IInv
  BY InitInv, NextInv, PTL DEF Spec
<1>2. IInv => UnregisteredOnlyByKill
  BY DEF IInv, Counted
<1> QED BY <1>1, <1>2, PTL

\* sweep_managed_media never removes a file that a column, a version or a
\* request still names.
THEOREM NamedFilesStay == Spec => []MentionsResolve
<1>1. Spec => []IInv
  BY InitInv, NextInv, PTL DEF Spec
<1>2. IInv => MentionsResolve
  BY DEF IInv
<1> QED BY <1>1, <1>2, PTL

\* After an abort nothing leaves the engine, no file is registered and nothing
\* that is shown changes, whatever the request was waiting for.
THEOREM AbortSilences == Spec => AbortIsSilent
<1>1. Spec => []IInv
  BY InitInv, NextInv, PTL DEF Spec
<1>2. IInv /\ [Next]_vars
      => [ sig.aborted /\ call /= Idle
           => /\ rows' \subseteq rows
              /\ call'.at \in Requested => call' = call
              /\ call' /= call => UNCHANGED <<shown, history>> ]_vars
  BY SilentStep
<1> QED BY <1>1, <1>2, PTL DEF Spec, AbortIsSilent

=============================================================================
