-------------------------- MODULE StageWritesProofs --------------------------
(* Theorems about StageWrites, for every size of a plan, every bound on the    *)
(* disturbances and every set of replies of the critic.                        *)
EXTENDS StageWrites, SequenceTheorems, WellFoundedInduction, TLAPS

(***************************************************************************)
(* The inductive invariant.  Two keys for one picture need two open         *)
(* attempts, which only a forced redo makes; a redo needs every shot drawn, *)
(* and of a shot that is drawn and in nobody's scope no picture is asked.   *)
(* What a redo asks for has no key yet, unless a crash cut short an earlier *)
(* redo of the same request.                                                *)
(***************************************************************************)

\* A version of the shots, live or frozen.
Cell == [rev : Nat, text : Nat \ {0}, frame : Nat, clip : Nat, review : Verdict]
Board == UNION {[S -> Cell] : S \in SUBSET (Nat \ {0})}
Film == [rev : Nat, superseded : BOOLEAN, cut : BOOLEAN]
Attempt == [stage : Stage \ {Gate}, status : {"started", "succeeded", "failed"},
            rows : Board, project : Film]
Wish == [open : BOOLEAN, ids : SUBSET Nat, broken : BOOLEAN]
Engine == [pc : Pc, stage : Stage, at : Nat, frozen : Board, project : Film, own : Nat,
           todo : SUBSET Nat, scope : SUBSET Nat, again : SUBSET Nat, rounds : Nat,
           redo : BOOLEAN, blind : BOOLEAN]

Typed ==
    /\ rows \in Board /\ \E top \in Nat : Ids \subseteq 1..top
    /\ project \in Film /\ attempts \in Seq(Attempt)
    /\ ck \in 0..Shoot /\ tck \subseteq Target
    /\ eng \in Engine /\ ask \in Wish
    /\ used \subseteq Target \X Nat /\ mine \subseteq Nat

Running == eng.pc \in {"stage", "provider", "made"}
Up == eng.pc \notin {"down", "over"}
Drawn == \A i \in Ids : rows[i].frame # NoPicture

\* What a running attempt works on.
AtWork ==
    /\ Running =>
         /\ eng.at \in Interrupted(eng.stage)
         /\ eng.todo \subseteq DOMAIN eng.frozen
         /\ eng.stage = Plan => eng.todo = {}
         /\ eng.stage # Plan => eng.frozen = attempts[eng.at].rows
         /\ eng.pc = "provider" /\ eng.stage # Plan => eng.todo # {}
    /\ eng.again # {} => eng.stage = Review

\* Before the first plan is checkpointed nothing else has happened.
Early ==
    /\ Up => (eng.stage = Plan <=> ck = 0)
    /\ ck = 0 => /\ tck = {}
                 /\ \A n \in DOMAIN attempts : attempts[n].stage = Plan

\* A frozen board against the live one.
Behind(board, live) ==
    \A i \in DOMAIN live : /\ i \in DOMAIN board /\ board[i].rev <= live[i].rev
                           /\ board[i].rev = live[i].rev => board[i] = live[i]
Frozen == \A n \in Interrupted(Render) : Behind(attempts[n].rows, rows)

\* Who may be without a picture, and when.
Missing ==
    /\ Drawn \/ /\ ck <= Plan /\ ~eng.redo /\ eng.scope = {}
                /\ eng.pc = "down" \/ eng.stage \in {Plan, Render}
    /\ eng.stage = Render /\ eng.pc \in {"made", "ended"} => Drawn
    /\ eng.stage = Render /\ Running =>
         \A i \in Ids : rows[i].frame # NoPicture \/ i \in eng.todo
    /\ \A i \in Ids : <<"frame", i>> \in tck => rows[i].frame # NoPicture

Scoped ==
    /\ eng.redo => eng.stage = Render
    /\ eng.scope # {} => eng.pc # "down" /\ eng.stage \in Render..Review

\* A request waits at the gate it was made at, until its redo has answered it.
Waiting ==
    /\ ~ask.open => ask.ids = {} /\ ~ask.broken
    /\ ask.open => ck = Render /\ (eng.pc = "down" \/ (eng.pc = "loop" /\ eng.stage = Gate) \/ eng.redo)
    /\ eng.redo => ask.open /\ eng.scope = ask.ids /\ eng.pc # "down"
    /\ eng.pc = "loop" /\ eng.stage = Gate => ck = Render

Single == \A s \in Stage : s # Render \/ ~Drawn => \A n, m \in Interrupted(s) : n = m

\* The keys in use.
Keyed ==
    \A u \in used : /\ u[2] \in DOMAIN attempts /\ attempts[u[2]].status = "started"
                    /\ u[1][1] = KindOf(attempts[u[2]].stage)
                    /\ attempts[u[2]].stage = Plan <=> u[1][2] = 0
Wanted ==
    \A u \in used : u[1][1] = "frame" =>
        /\ u[1][2] \in eng.scope => \/ (Running /\ eng.stage = Render /\ u[2] = eng.at)
                                    \/ (ask.broken /\ eng.redo /\ eng.pc # "ended")
        /\ Running /\ eng.stage = Render /\ u[2] # eng.at /\ u[1][2] \in Ids
             => (u[1][2] \notin eng.todo \/ SecondTry(u))
        /\ u[1][2] \in ask.ids => eng.redo \/ ask.broken

Own ==
    /\ mine # {} => Running
    /\ 0 \in mine => eng.own = project.rev /\ eng.own # 0
    /\ Running /\ eng.stage = Render => mine \cap eng.todo = {}

IInv ==
    /\ Typed /\ AtWork /\ Early /\ Frozen /\ Missing /\ Scoped /\ Waiting
    /\ Single /\ Keyed /\ Wanted /\ Own /\ OneKeyPerDemand

-----------------------------------------------------------------------------
(* Numbers and boards *)

USE DEF Plan, Render, Gate, Review, Shoot, NoPicture, NoScope, Ids

LEMMA NatMin ==
    ASSUME NEW S, S \subseteq Nat, S # {}
    PROVE  \E i \in S : \A j \in S : i <= j
<1>1. \E i \in S : \A j \in S : ~(<<j, i>> \in OpToRel(<, Nat))
  <2> HIDE DEF OpToRel
  <2> QED BY NatLessThanWellFounded, WFMin
<1>2. \A i, j \in Nat : j < i => <<j, i>> \in OpToRel(<, Nat)
  BY DEF OpToRel
<1> HIDE DEF OpToRel
<1>3. PICK i \in S : \A j \in S : ~(<<j, i>> \in OpToRel(<, Nat))
  BY <1>1
<1>4. ASSUME NEW j \in S PROVE i <= j
  <2>1. i \in Nat /\ j \in Nat
    OBVIOUS
  <2>2. ~(j < i)
    BY <1>2, <1>3, <2>1
  <2> QED BY <2>1, <2>2
<1> QED BY <1>4

LEMMA MinIn == ASSUME NEW S, S \subseteq Nat, S # {} PROVE Min(S) \in S
  BY NatMin DEF Min

LEMMA MaxIn ==
    ASSUME NEW n \in Nat, NEW S, S \subseteq 1..n, S # {} PROVE Max(S) \in S
<1> DEFINE T == {n - i : i \in S}
<1>1. T \subseteq Nat /\ T # {}
  <2>1. PICK i \in S : TRUE
    OBVIOUS
  <2>2. n - i \in T
    BY <2>1
  <2> QED BY <2>2
<1>2. PICK t \in T : \A u \in T : t <= u
  <2> HIDE DEF T
  <2> QED BY <1>1, NatMin
<1>3. PICK i \in S : t = n - i
  OBVIOUS
<1>4. ASSUME NEW j \in S PROVE i >= j
  <2>1. n - i <= n - j
    BY <1>2, <1>3
  <2> QED BY <2>1
<1> QED BY <1>4 DEF Max

LEMMA BoardFacts ==
    /\ \A b \in Board : /\ DOMAIN b \subseteq Nat \ {0}
                        /\ b = [i \in DOMAIN b |-> b[i]]
                        /\ \A i \in DOMAIN b : b[i] \in Cell
    /\ \A S \in SUBSET (Nat \ {0}) : \A f \in [S -> Cell] : f \in Board
    /\ <<>> \in Board
<1>1. \A S \in SUBSET (Nat \ {0}) : \A f \in [S -> Cell] : f \in Board
  BY DEF Board
<1>2. <<>> \in [{} -> Cell]
  OBVIOUS
<1>3. ASSUME NEW b \in Board
      PROVE  /\ DOMAIN b \subseteq Nat \ {0} /\ b = [i \in DOMAIN b |-> b[i]]
             /\ \A i \in DOMAIN b : b[i] \in Cell
  <2>1. PICK S \in SUBSET (Nat \ {0}) : b \in [S -> Cell]
    BY DEF Board
  <2> QED BY <2>1
<1> QED BY <1>1, <1>2, <1>3

LEMMA BoardExcept ==
    ASSUME NEW b \in Board, NEW i \in DOMAIN b, NEW c \in Cell
    PROVE  /\ [b EXCEPT ![i] = c] \in Board
           /\ DOMAIN [b EXCEPT ![i] = c] = DOMAIN b
           /\ \A j \in DOMAIN b : [b EXCEPT ![i] = c][j] = IF j = i THEN c ELSE b[j]
<1>1. b \in [DOMAIN b -> Cell] /\ DOMAIN b \in SUBSET (Nat \ {0})
  BY BoardFacts
<1>2. [b EXCEPT ![i] = c] \in [DOMAIN b -> Cell]
  BY <1>1
<1> QED BY <1>1, <1>2, BoardFacts

LEMMA IdleType == Idle \in Engine
  BY BoardFacts DEF Idle, Engine, Pc, Stage, Film, Unread

-----------------------------------------------------------------------------
(* What a step does to the rows *)

\* Outside of a plan a row only goes, or gets a higher revision, or stays; a
\* picture is replaced and never taken away.
RowsGrow ==
    \A i \in Ids' : /\ i \in Ids
                    /\ rows'[i] = rows[i] \/ rows'[i].rev > rows[i].rev
                    /\ rows[i].frame # NoPicture => rows'[i].frame # NoPicture

\* The row the stage is at.
LEMMA NowTodo ==
    ASSUME Typed, AtWork, Running, eng.stage # Plan, eng.todo # {}
    PROVE  /\ Now \in eng.todo /\ Now \in DOMAIN eng.frozen /\ Now \in Nat \ {0}
           /\ Now \in DOMAIN eng.frozen /\ eng.frozen[Now] \in Cell
<1>1. eng.todo \subseteq Nat /\ eng.frozen \in Board
  BY DEF Typed, Engine
<1>2. Now \in eng.todo
  BY <1>1, MinIn DEF Now
<1> QED BY <1>1, <1>2, BoardFacts DEF AtWork

\* One row is written anew.
LEMMA WriteOne ==
    ASSUME Typed, NEW i \in Ids, NEW c \in Cell,
           rows' = [rows EXCEPT ![i] = c]
    PROVE  /\ rows' \in Board /\ Ids' = Ids
           /\ rows'[i] = c /\ \A j \in Ids : j # i => rows'[j] = rows[j]
  BY BoardExcept DEF Typed

LEMMA RowsType == ASSUME Typed, NEW i \in Ids PROVE rows[i] \in Cell /\ i \in Nat \ {0}
  BY BoardFacts DEF Typed

\* A picture is saved.
LEMMA FrameRows ==
    ASSUME Typed, AtWork, WriteFrame
    PROVE  /\ rows' \in Board /\ Ids' = Ids /\ RowsGrow
           /\ Now \in Ids /\ Now \in eng.todo /\ rows'[Now].frame # NoPicture
           /\ Now \in DOMAIN eng.frozen /\ rows[Now].rev = eng.frozen[Now].rev
<1>1. Running /\ eng.stage = Render /\ eng.todo # {}
  BY DEF WriteFrame, Running, AtWork
<1>2. Now \in eng.todo /\ Now \in DOMAIN eng.frozen /\ eng.frozen[Now] \in Cell
  BY <1>1, NowTodo
<1>3. Now \in Ids /\ rows[Now] \in Cell /\ rows[Now].rev = eng.frozen[Now].rev
  BY RowsType DEF WriteFrame, RowFits
<1> DEFINE new == [rows[Now] EXCEPT !.frame = eng.frozen[Now].text, !.clip = NoPicture,
                                    !.review = "none"]
           c == [new EXCEPT !.rev = rows[Now].rev + 1]
<1>4. new \in Cell /\ new.frame # NoPicture
  BY <1>2, <1>3 DEF Cell, Verdict
<1> HIDE DEF new
<1>8. c \in Cell /\ c.rev = rows[Now].rev + 1 /\ c.frame # NoPicture
  BY <1>3, <1>4 DEF Cell
<1>5. rows' = [rows EXCEPT ![Now] = c]
  BY DEF WriteFrame, Write, new
<1> HIDE DEF c
<1>6. rows' \in Board /\ Ids' = Ids /\ rows'[Now] = c /\ \A j \in Ids : j # Now => rows'[j] = rows[j]
  BY <1>3, <1>5, <1>8, WriteOne
<1>7. RowsGrow
  BY <1>3, <1>6, <1>8 DEF RowsGrow, Cell
<1> QED BY <1>2, <1>3, <1>6, <1>7, <1>8

LEMMA ClipRows ==
    ASSUME Typed, AtWork, WriteClip
    PROVE  rows' \in Board /\ Ids' = Ids /\ RowsGrow /\ Now \in eng.todo /\ Now \in Nat \ {0}
<1>1. Running /\ eng.stage = Shoot /\ eng.todo # {}
  BY DEF WriteClip, Running, AtWork
<1>2. Now \in eng.todo /\ Now \in DOMAIN eng.frozen /\ eng.frozen[Now] \in Cell
  BY <1>1, NowTodo
<1>3. Now \in Ids /\ rows[Now] \in Cell
  BY RowsType DEF WriteClip
<1>4. PICK v \in ClipReviews :
        Write(Now, [rows[Now] EXCEPT !.clip = eng.frozen[Now].text, !.review = Status(v)])
  BY DEF WriteClip
<1> DEFINE new == [rows[Now] EXCEPT !.clip = eng.frozen[Now].text, !.review = Status(v)]
           c == [new EXCEPT !.rev = rows[Now].rev + 1]
<1>5. Status(v) \in Verdict
  BY DEF Status, Verdict
<1>10. new \in Cell /\ new.frame = rows[Now].frame
  BY <1>2, <1>3, <1>5 DEF Cell
<1> HIDE DEF new
<1>6. c \in Cell /\ c.rev = rows[Now].rev + 1 /\ c.frame = rows[Now].frame
  BY <1>3, <1>10 DEF Cell
<1>7. rows' = [rows EXCEPT ![Now] = c]
  BY <1>4 DEF Write, new
<1> HIDE DEF c
<1>8. rows' \in Board /\ Ids' = Ids /\ rows'[Now] = c /\ \A j \in Ids : j # Now => rows'[j] = rows[j]
  BY <1>3, <1>6, <1>7, WriteOne
<1>9. RowsGrow
  BY <1>3, <1>6, <1>8 DEF RowsGrow, Cell
<1> QED BY <1>1, <1>8, <1>9, NowTodo

LEMMA MarkedRows ==
    ASSUME Typed, NEW v \in Verdict, Marked(v)
    PROVE  rows' \in Board /\ Ids' = Ids /\ RowsGrow
<1>1. CASE Now \in Ids /\ rows[Now].review # v
  <2> DEFINE new == [rows[Now] EXCEPT !.review = v]
             c == [new EXCEPT !.rev = rows[Now].rev + 1]
  <2>1. rows[Now] \in Cell
    BY <1>1, RowsType
  <2>6. new \in Cell /\ new.frame = rows[Now].frame
    BY <2>1 DEF Cell
  <2> HIDE DEF new
  <2>2. c \in Cell /\ c.rev = rows[Now].rev + 1 /\ c.frame = rows[Now].frame
    BY <2>1, <2>6 DEF Cell
  <2>3. rows' = [rows EXCEPT ![Now] = c]
    <3>1. rows' = [rows EXCEPT ![Now].review = v, ![Now].rev = @ + 1]
      BY <1>1 DEF Marked
    <3>2. rows = [i \in Ids |-> rows[i]]
      BY BoardFacts DEF Typed
    <3> QED BY <1>1, <2>1, <3>1, <3>2 DEF Cell, new
  <2> HIDE DEF c
  <2>4. rows' \in Board /\ Ids' = Ids /\ rows'[Now] = c /\ \A j \in Ids : j # Now => rows'[j] = rows[j]
    BY <1>1, <2>2, <2>3, WriteOne
  <2>5. RowsGrow
    BY <1>1, <2>1, <2>2, <2>4 DEF RowsGrow, Cell
  <2> QED BY <2>4, <2>5
<1>2. CASE UNCHANGED rows
  BY <1>2 DEF Typed, RowsGrow
<1> QED BY <1>1, <1>2 DEF Marked

LEMMA UpdateRows ==
    ASSUME Typed, NEW i \in Ids, UpdateShot(i)
    PROVE  rows' \in Board /\ Ids' = Ids /\ RowsGrow
<1>1. rows[i] \in Cell
  BY RowsType
<1> DEFINE seen == IF Pictured(rows[i]) THEN "open" ELSE rows[i].review
           t == [rows[i] EXCEPT !.text = rows[i].text + 1]
           u == [t EXCEPT !.rev = rows[i].rev + 1]
           c == [u EXCEPT !.review = seen]
<1>3. seen \in Verdict
  BY <1>1 DEF Cell, Verdict
<1>6. t \in Cell /\ t.frame = rows[i].frame /\ t.rev = rows[i].rev /\ t.review = rows[i].review
  BY <1>1 DEF Cell
<1> HIDE DEF t, seen
<1>7. u \in Cell /\ u.frame = rows[i].frame /\ u.rev = rows[i].rev + 1 /\ u.review = rows[i].review
  BY <1>1, <1>6 DEF Cell
<1> HIDE DEF u
<1>4. c \in Cell /\ c.rev = rows[i].rev + 1 /\ c.frame = rows[i].frame
  BY <1>3, <1>7 DEF Cell
<1>2. rows' = [rows EXCEPT ![i] = c]
  <2>1. rows' = [rows EXCEPT ![i].text = @ + 1, ![i].rev = @ + 1,
                             ![i].review = IF Pictured(rows[i]) THEN "open" ELSE @]
    BY DEF UpdateShot
  <2>2. rows = [j \in Ids |-> rows[j]]
    BY BoardFacts DEF Typed
  <2> QED BY <1>1, <2>1, <2>2 DEF Cell, t, u, seen
<1> HIDE DEF c
<1>5. rows' \in Board /\ Ids' = Ids /\ rows'[i] = c /\ \A j \in Ids : j # i => rows'[j] = rows[j]
  BY <1>2, <1>4, WriteOne
<1> QED BY <1>1, <1>4, <1>5 DEF RowsGrow, Cell

LEMMA DeleteRows ==
    ASSUME Typed, NEW i \in Ids, DeleteShot(i)
    PROVE  rows' \in Board /\ Ids' = Ids \ {i} /\ RowsGrow
<1>1. rows' = [j \in Ids \ {i} |-> rows[j]]
  BY DEF DeleteShot
<1>2. rows' \in [Ids \ {i} -> Cell] /\ Ids \ {i} \in SUBSET (Nat \ {0})
  BY <1>1, RowsType
<1> QED BY <1>1, <1>2, BoardFacts DEF RowsGrow

\* The plan's rows get ids nobody has.
LEMMA PlanRows ==
    ASSUME Typed, WritePlan
    PROVE  rows' \in Board /\ \E top \in Nat : Ids' \subseteq 1..top
<1> DEFINE kept == DOMAIN Deleted
           start == IF kept = {} THEN 0 ELSE Max(kept)
           new == Inserted(kept)
<1>1. PICK top \in Nat : Ids \subseteq 1..top
  BY DEF Typed
<1>2. kept = Ids \ DOMAIN eng.frozen /\ \A i \in kept : Deleted[i] = rows[i]
  BY DEF Deleted
<1>3. start \in Nat
  <2>1. CASE kept = {}
    BY <2>1
  <2>2. CASE kept # {}
    <3>1. kept \subseteq 1..top
      BY <1>1, <1>2
    <3> HIDE DEF kept
    <3>2. Max(kept) \in kept
      BY <2>2, <3>1, MaxIn
    <3>3. 1..top \subseteq Nat
      OBVIOUS
    <3>4. Max(kept) \in Nat
      BY <3>1, <3>2, <3>3, Zenon
    <3> QED BY <2>2, <3>4
  <2> QED BY <2>1, <2>2
<1>4. new = (start + 1)..(start + PlanSize) /\ PlanSize \in Nat
  BY SizeAssumption DEF Inserted
<1>5. rows' = [i \in kept \cup new |-> IF i \in new THEN Blank ELSE Deleted[i]]
  BY DEF WritePlan
<1> HIDE DEF start, new, kept
<1>6. \A i \in kept \cup new : i \in Nat \ {0} /\ i \in 1..(top + start + PlanSize)
  BY <1>1, <1>2, <1>3, <1>4
<1>7. Blank \in Cell /\ \A i \in kept : Deleted[i] \in Cell
  BY <1>2, RowsType DEF Blank, Cell, Verdict
<1>8. rows' \in [kept \cup new -> Cell]
  BY <1>5, <1>7
<1>9. kept \cup new \in SUBSET (Nat \ {0}) /\ Ids' = kept \cup new
  BY <1>5, <1>6
<1>10. top + start + PlanSize \in Nat
  BY <1>3, <1>4
<1> QED BY <1>6, <1>8, <1>9, <1>10, BoardFacts

\* Every step but a plan's leaves boards, and rows that only grow.
Others == (Next /\ ~WritePlan) \/ UNCHANGED vars
LEMMA StepRows ==
    ASSUME Typed, AtWork, Others
    PROVE  rows' \in Board /\ Ids' \subseteq Ids /\ RowsGrow
<1>1. UNCHANGED rows => rows' \in Board /\ Ids' \subseteq Ids /\ RowsGrow
  BY DEF Typed, RowsGrow
<1>2. \A v : Status(v) \in Verdict /\ "open" \in Verdict
  BY DEF Status, Verdict
<1>3. CASE Judge
  <2>1. UNCHANGED rows \/ \E v : Marked(Status(v))
    BY <1>3 DEF Judge
  <2> QED BY <1>1, <1>2, <2>1, MarkedRows
<1>4. CASE MarkUnchecked
  <2>1. Marked("open")
    BY <1>4 DEF MarkUnchecked
  <2> QED BY <1>2, <2>1, MarkedRows
<1>5. CASE \E i \in Ids : UpdateShot(i) \/ DeleteShot(i)
  BY <1>5, UpdateRows, DeleteRows
<1>6. BeginAttempt \/ CallProvider \/ SkipClip \/ NothingToDo \/ Conflict \/ CompleteAttempt
        \/ SendBack \/ SaveCheckpoint \/ Approve \/ Resume \/ UpdateProject
        \/ RequestChanges \/ Redo \/ ProviderFails \/ Crash \/ UNCHANGED vars => UNCHANGED rows
  BY DEF BeginAttempt, CallProvider, SkipClip, NothingToDo, Conflict, CompleteAttempt, SendBack,
         SaveCheckpoint, Approve, Resume, UpdateProject, RequestChanges, Redo, ProviderFails, Crash,
         vars, store
<1> QED BY <1>1, <1>3, <1>4, <1>5, <1>6, FrameRows, ClipRows
        DEF Others, Next, EngineStep, PersonStep, HttpStep

-----------------------------------------------------------------------------
(* What a step does to the attempts and to the engine *)

LEMMA AttemptsSeq ==
    ASSUME Typed
    PROVE  /\ Len(attempts) \in Nat /\ DOMAIN attempts = 1..Len(attempts)
           /\ \A n \in DOMAIN attempts : attempts[n] \in Attempt
  BY ElementOfSeq, LenProperties DEF Typed

LEMMA PendingFacts ==
    ASSUME Typed, NEW s \in Stage, NEW b \in Board
    PROVE  /\ Pending(s, b) \subseteq DOMAIN b /\ Pending(s, b) \subseteq Nat
           /\ s = Plan => Pending(s, b) = {}
  BY BoardFacts DEF Pending, InScope

\* The attempt the engine takes up: the interrupted one, or one of its own.
Taken(n) == ~eng.redo /\ n \in Interrupted(eng.stage) /\ attempts' = attempts
Appended(n) ==
    /\ eng.redo \/ Interrupted(eng.stage) = {}
    /\ n \notin DOMAIN attempts /\ DOMAIN attempts' = DOMAIN attempts \cup {n}
    /\ \A m \in DOMAIN attempts : attempts'[m] = attempts[m]
    /\ attempts'[n] = Fresh(eng.stage)
Begins(n) ==
    /\ attempts' \in Seq(Attempt) /\ n \in Nat
    /\ Taken(n) \/ Appended(n)
    /\ n \in DOMAIN attempts' /\ attempts'[n] \in Attempt
    /\ attempts'[n].stage = eng.stage /\ attempts'[n].status = "started"
    /\ eng' = [eng EXCEPT !.pc = "stage", !.stage = eng.stage, !.at = n,
                          !.frozen = attempts'[n].rows, !.project = attempts'[n].project, !.own = 0,
                          !.todo = Pending(eng.stage, attempts'[n].rows), !.again = {}]

LEMMA Begun == ASSUME Typed, BeginAttempt PROVE \E n : Begins(n)
<1>1. /\ Len(attempts) \in Nat /\ DOMAIN attempts = 1..Len(attempts)
      /\ \A n \in DOMAIN attempts : attempts[n] \in Attempt
  BY AttemptsSeq
<1>2. eng.stage \in Stage \ {Gate}
  BY DEF Typed, Engine, BeginAttempt
<1>3. CASE ~eng.redo /\ Interrupted(eng.stage) # {}
             /\ Enter(eng.stage, Max(Interrupted(eng.stage)), attempts)
  <2> DEFINE n == Max(Interrupted(eng.stage))
  <2>1. n \in Interrupted(eng.stage)
    <3>1. Interrupted(eng.stage) \subseteq 1..Len(attempts)
      BY <1>1 DEF Interrupted
    <3> QED BY <1>1, <1>3, <3>1, MaxIn
  <2>2. Enter(eng.stage, n, attempts)
    BY <1>3
  <2> HIDE DEF n
  <2>3. n \in DOMAIN attempts /\ attempts[n].stage = eng.stage /\ attempts[n].status = "started"
    BY <2>1 DEF Interrupted
  <2>4. attempts' = attempts /\ n \in Nat
    BY <1>1, <2>2, <2>3 DEF Enter
  <2>5. Taken(n)
    BY <1>3, <2>1, <2>4 DEF Taken
  <2>6. Begins(n)
    BY <1>1, <2>2, <2>3, <2>4, <2>5 DEF Begins, Enter, Typed
  <2> QED BY <2>6
<1>4. CASE (eng.redo \/ Interrupted(eng.stage) = {})
             /\ Enter(eng.stage, Len(attempts) + 1, Append(attempts, Fresh(eng.stage)))
  <2> DEFINE n == Len(attempts) + 1
             fresh == Fresh(eng.stage)
  <2>1. fresh \in Attempt /\ fresh.stage = eng.stage /\ fresh.status = "started"
    BY <1>2 DEF Fresh, Attempt, Typed
  <2>2. attempts' = Append(attempts, fresh) /\ n \in Nat
    BY <1>1, <1>4 DEF Enter
  <2> HIDE DEF fresh
  <2>3. /\ attempts' \in Seq(Attempt) /\ Len(attempts') = n /\ attempts'[n] = fresh
        /\ \A m \in 1..Len(attempts) : attempts'[m] = attempts[m]
    BY <1>1, <2>1, <2>2, AppendProperties DEF Typed
  <2>4. DOMAIN attempts' = 1..n
    BY <2>3, LenProperties
  <2>5. n \notin DOMAIN attempts /\ 1..n = DOMAIN attempts \cup {n}
    BY <1>1
  <2>6. Enter(eng.stage, n, attempts')
    BY <1>4, <2>2 DEF fresh
  <2> HIDE DEF n
  <2>7. Appended(n)
    BY <1>1, <1>4, <2>3, <2>4, <2>5 DEF Appended, fresh
  <2>8. Begins(n)
    BY <2>1, <2>2, <2>3, <2>4, <2>5, <2>6, <2>7 DEF Begins, Enter
  <2> QED BY <2>8
<1> QED BY <1>3, <1>4 DEF BeginAttempt

\* An attempt ends.
LEMMA Finished ==
    ASSUME Typed, AtWork, Running, NEW status \in {"succeeded", "failed"}, Ends(status)
    PROVE  /\ attempts' \in Seq(Attempt) /\ DOMAIN attempts' = DOMAIN attempts
           /\ eng.at \in DOMAIN attempts /\ attempts'[eng.at].status = status
           /\ attempts'[eng.at].stage = attempts[eng.at].stage
           /\ \A m \in DOMAIN attempts : m # eng.at => attempts'[m] = attempts[m]
<1>1. /\ eng.at \in DOMAIN attempts /\ attempts[eng.at].stage = eng.stage
      /\ attempts[eng.at] \in Attempt /\ DOMAIN attempts = 1..Len(attempts)
      /\ attempts \in Seq(Attempt)
  BY AttemptsSeq DEF AtWork, Interrupted, Typed
<1> DEFINE a == [stage |-> eng.stage, status |-> status, rows |-> <<>>, project |-> Unread]
<1>2. a \in Attempt /\ a.status = status /\ a.stage = eng.stage
  BY <1>1, BoardFacts DEF Attempt, Unread, Film
<1>3. attempts' = [attempts EXCEPT ![eng.at] = a]
  BY DEF Ends, Ended
<1> HIDE DEF a
<1>4. /\ attempts' \in Seq(Attempt) /\ Len(attempts') = Len(attempts)
      /\ \A j \in 1..Len(attempts) : attempts'[j] = IF j = eng.at THEN a ELSE attempts[j]
  BY <1>1, <1>2, <1>3, ExceptSeq
<1>5. DOMAIN attempts' = DOMAIN attempts
  BY <1>1, <1>4, LenProperties
<1> QED BY <1>1, <1>2, <1>4, <1>5

\* How an attempt of the engine ends; the others neither end nor begin one.
EndStep == Conflict \/ ProviderFails \/ CompleteAttempt
LEMMA Ending ==
    ASSUME Typed, AtWork, EndStep
    PROVE  /\ Running /\ mine' = {}
           /\ used' = {u \in used : ~Settled(u)}
           /\ \E status \in {"succeeded", "failed"} : Ends(status)
  BY DEF EndStep, Conflict, ProviderFails, CompleteAttempt, Running, Ends
QuietStep ==
    \/ CallProvider \/ WritePlan \/ WriteFrame \/ WriteClip \/ SkipClip
    \/ Judge \/ MarkUnchecked \/ NothingToDo \/ SendBack \/ SaveCheckpoint
    \/ PersonStep \/ HttpStep \/ RequestChanges \/ Redo \/ Crash \/ UNCHANGED vars
LEMMA StepKinds == [Next]_vars => BeginAttempt \/ EndStep \/ QuietStep
  BY DEF Next, EngineStep, EndStep, QuietStep
LEMMA QuietAttempts == QuietStep => attempts' = attempts
  BY DEF QuietStep, CallProvider, WritePlan, WriteFrame, WriteClip, SkipClip, Judge,
         MarkUnchecked, NothingToDo, SendBack, SaveCheckpoint, PersonStep, Approve, Resume,
         HttpStep, UpdateProject, UpdateShot, DeleteShot, Request, RequestChanges, Redo, Crash, Write, vars

LEMMA StepAttempts == ASSUME Typed, AtWork, [Next]_vars PROVE attempts' \in Seq(Attempt)
<1>1. CASE BeginAttempt
  BY <1>1, Begun DEF Begins
<1>2. CASE EndStep
  BY <1>2, Ending, Finished
<1>3. CASE QuietStep
  BY <1>3, QuietAttempts DEF Typed
<1> QED BY <1>1, <1>2, <1>3, StepKinds

LEMMA StepEngine == ASSUME Typed, AtWork, [Next]_vars PROVE eng' \in Engine
<1>0. eng \in Engine /\ eng.stage \in Stage /\ eng.todo \subseteq Nat /\ eng.again \subseteq Nat
        /\ eng.rounds \in Nat /\ eng.scope \subseteq Nat
  BY DEF Typed, Engine
<1>1. CASE BeginAttempt
  <2>1. PICK n : Begins(n)
    BY <1>1, Begun
  <2>2. /\ n \in Nat /\ attempts'[n].rows \in Board /\ attempts'[n].project \in Film
    BY <2>1 DEF Begins, Attempt
  <2> DEFINE todo == Pending(eng.stage, attempts'[n].rows)
  <2>3. todo \subseteq Nat
    BY <1>0, <2>2, PendingFacts
  <2>4. eng' = [eng EXCEPT !.pc = "stage", !.stage = eng.stage, !.at = n,
                          !.frozen = attempts'[n].rows, !.project = attempts'[n].project, !.own = 0,
                          !.todo = todo, !.again = {}]
    BY <2>1 DEF Begins
  <2> HIDE DEF todo
  <2> QED BY <1>0, <2>2, <2>3, <2>4 DEF Engine, Pc
<1>2. \A i : DoneWith(i) \in Engine
  BY <1>0 DEF DoneWith, NextPc, Engine, Pc
<1>3. CASE WriteFrame \/ WriteClip
  <2>1. PICK i, row : Write(i, row)
    BY <1>3 DEF WriteFrame, WriteClip
  <2>2. project.rev + 1 \in Nat
    BY DEF Typed, Film
  <2>3. eng' = [DoneWith(i) EXCEPT !.own = IF MarksProject THEN OwnNoted(project.rev + 1)
                                                         ELSE DoneWith(i).own]
    BY <2>1 DEF Write
  <2> QED BY <1>2, <2>2, <2>3 DEF Engine, OwnNoted
<1>4. CASE Judge
  <2>1. CASE eng' = DoneWith(Now)
    BY <1>2, <2>1
  <2>2. CASE eng' = [DoneWith(Now) EXCEPT !.again = @ \cup {Now}]
    <3>1. Now \in Nat
      BY <1>4, NowTodo DEF Judge, Running, AtWork
    <3> HIDE DEF Now
    <3> QED BY <1>2, <2>2, <3>1 DEF Engine
  <2> QED BY <1>4, <2>1, <2>2 DEF Judge
<1>5. CASE MarkUnchecked
  BY <1>2, <1>5 DEF MarkUnchecked, Engine
<1>6. CASE SkipClip
  BY <1>2, <1>6 DEF SkipClip
<1>7. CASE CallProvider \/ WritePlan \/ NothingToDo
  BY <1>0, <1>7, BoardFacts DEF CallProvider, WritePlan, ForgetFrozen, NothingToDo, Engine, Pc
<1>8. CASE Conflict \/ ProviderFails
  <2>1. Stopped
    BY <1>8 DEF Conflict, ProviderFails
  <2>2. Gate \in Stage /\ "loop" \in Pc
    BY DEF Stage, Pc
  <2>3. eng' = Idle \/ eng' = [Idle EXCEPT !.pc = "loop", !.stage = Gate, !.rounds = eng.rounds]
    BY <2>1 DEF Stopped
  <2> QED BY <1>0, <2>2, <2>3, IdleType DEF Engine
<1>9. CASE CompleteAttempt
  BY <1>0, <1>9, BoardFacts DEF CompleteAttempt, Engine, Pc, Unread, Film
<1>10. CASE SendBack
  <2>1. Render \in Stage /\ "loop" \in Pc /\ eng.rounds + 1 \in Nat /\ eng.again \in SUBSET Nat
    BY <1>0 DEF Stage, Pc
  <2>2. eng' = [Idle EXCEPT !.pc = "loop", !.stage = Render, !.scope = eng.again,
                            !.rounds = eng.rounds + 1]
    BY <1>10 DEF SendBack
  <2> QED BY <2>1, <2>2, IdleType DEF Engine
<1>11. CASE SaveCheckpoint
  <2>1. eng.stage # Shoot => eng.stage + 1 \in Stage
    BY <1>0 DEF Stage
  <2> QED BY <1>0, <1>11, <2>1, IdleType DEF SaveCheckpoint, Engine, Pc
<1>12. CASE Approve
  BY <1>0, <1>12 DEF Approve, Engine, Stage
<1>13. CASE Redo
  <2>1. ask.ids \in SUBSET Nat /\ Render \in Stage
    BY DEF Typed, Wish, Stage
  <2> QED BY <1>0, <1>13, <2>1 DEF Redo, Engine
<1>17. CASE RequestChanges
  BY <1>0, <1>17 DEF RequestChanges
<1>14. CASE Resume
  <2>1. ck \in 0..Shoot /\ (ck # Shoot => ck + 1 \in Stage)
    BY DEF Typed, Stage
  <2> QED BY <1>14, <2>1, IdleType DEF Resume, Engine, Pc
<1>15. CASE Crash
  BY <1>15, IdleType DEF Crash
<1>16. CASE HttpStep \/ UNCHANGED vars
  BY <1>0, <1>16 DEF HttpStep, UpdateProject, UpdateShot, DeleteShot, Request, vars
<1> QED BY <1>1, <1>3, <1>4, <1>5, <1>6, <1>7, <1>8, <1>9, <1>10, <1>11, <1>12, <1>13, <1>14,
           <1>15, <1>16, <1>17 DEF Next, EngineStep, PersonStep

-----------------------------------------------------------------------------
(* Typing, and the attempt at work *)

\* One row of the stage is done.
RowStep == WriteFrame \/ WriteClip \/ SkipClip \/ Judge \/ MarkUnchecked
LEMMA RowDone ==
    ASSUME Typed, AtWork, RowStep
    PROVE  /\ Running /\ eng.stage \in {Render, Review, Shoot} /\ eng.todo # {}
           /\ WriteFrame => eng.stage = Render
           /\ ~WriteFrame => eng.stage # Render
           /\ eng'.stage = eng.stage /\ eng'.at = eng.at /\ eng'.frozen = eng.frozen
           /\ eng'.project = eng.project
           /\ eng'.scope = eng.scope /\ eng'.redo = eng.redo
           /\ eng'.todo = eng.todo \ {Now} /\ eng'.pc = NextPc(eng.todo \ {Now})
           /\ eng'.again = eng.again \/ eng.stage = Review
           /\ Now \in eng.todo /\ Now \in DOMAIN eng.frozen /\ Now \in Nat \ {0}
           /\ attempts' = attempts /\ ck' = ck /\ ask' = ask
           /\ used' \subseteq used /\ tck' \subseteq tck \cup {Here}
<1>0. eng \in Engine
  BY DEF Typed
<1>1. /\ Running /\ eng.stage \in {Render, Review, Shoot} /\ eng.todo # {}
      /\ attempts' = attempts /\ ck' = ck /\ ask' = ask
      /\ used' \subseteq used /\ tck' \subseteq tck \cup {Here}
      /\ WriteFrame => eng.stage = Render
      /\ ~WriteFrame => eng.stage # Render
  <2>1. CASE WriteFrame
    BY <2>1 DEF WriteFrame, Write, Running, AtWork, Served
  <2>2. CASE WriteClip
    <3>1. \E row : Write(Now, row)
      BY <2>2 DEF WriteClip
    <3>2. attempts' = attempts /\ ck' = ck /\ ask' = ask /\ used' \subseteq used /\ tck' \subseteq tck \cup {Here}
      BY <3>1 DEF Write, Served
    <3>3. eng.pc = "provider" /\ eng.stage = Shoot
      BY <2>2 DEF WriteClip
    <3> QED BY <3>2, <3>3 DEF Running, AtWork, WriteFrame
  <2>3. CASE SkipClip
    BY <2>3 DEF SkipClip, WriteFrame, Running, AtWork, Served, store
  <2>4. CASE Judge
    BY <2>4 DEF Judge, WriteFrame, Running, AtWork, Served
  <2>5. CASE MarkUnchecked
    BY <2>5 DEF MarkUnchecked, WriteFrame, Running
  <2> QED BY <2>1, <2>2, <2>3, <2>4, <2>5 DEF RowStep
<1>2. Now \in eng.todo /\ Now \in DOMAIN eng.frozen /\ Now \in Nat \ {0}
  BY <1>1, NowTodo
<1>3. /\ eng'.stage = DoneWith(Now).stage /\ eng'.at = DoneWith(Now).at
      /\ eng'.frozen = DoneWith(Now).frozen /\ eng'.project = DoneWith(Now).project
      /\ eng'.scope = DoneWith(Now).scope /\ eng'.redo = DoneWith(Now).redo
      /\ eng'.todo = DoneWith(Now).todo /\ eng'.pc = DoneWith(Now).pc
      /\ eng'.again = DoneWith(Now).again \/ eng.stage = Review
  <2>1. DoneWith(Now) \in Engine
    BY <1>0 DEF DoneWith, NextPc, Engine, Pc
  <2>2. CASE WriteFrame \/ WriteClip
    <3>1. \E row : Write(Now, row)
      BY <2>2 DEF WriteFrame, WriteClip
    <3>2. \E own : eng' = [DoneWith(Now) EXCEPT !.own = own]
      BY <3>1 DEF Write
    <3> QED BY <2>1, <3>2 DEF Engine
  <2>3. CASE SkipClip
    BY <2>3 DEF SkipClip
  <2>4. CASE Judge
    BY <2>1, <2>4 DEF Judge, Engine
  <2>5. CASE MarkUnchecked
    BY <2>1, <2>5 DEF MarkUnchecked, Engine
  <2> QED BY <2>2, <2>3, <2>4, <2>5 DEF RowStep
<1>4. /\ DoneWith(Now).stage = eng.stage /\ DoneWith(Now).at = eng.at
      /\ DoneWith(Now).frozen = eng.frozen /\ DoneWith(Now).project = eng.project
      /\ DoneWith(Now).scope = eng.scope /\ DoneWith(Now).redo = eng.redo
      /\ DoneWith(Now).todo = eng.todo \ {Now} /\ DoneWith(Now).pc = NextPc(eng.todo \ {Now})
      /\ DoneWith(Now).again = eng.again
  BY <1>0 DEF DoneWith, Engine
<1> QED BY <1>1, <1>2, <1>3, <1>4

\* The steps of the runner between two attempts.
TurnStep == SendBack \/ SaveCheckpoint \/ PersonStep \/ RequestChanges \/ Redo \/ Crash
LEMMA Turned ==
    ASSUME Typed, TurnStep
    PROVE  /\ eng'.pc \in {"loop", "over", "down"}
           /\ eng'.again = {} \/ eng'.again = eng.again
           /\ attempts' = attempts /\ rows' = rows /\ project' = project
           /\ used' \subseteq used /\ tck' \subseteq tck
           /\ ~Crash => ~Running /\ mine' = mine
           /\ Crash => mine' = {}
<1>0. eng \in Engine
  BY DEF Typed
<1>1. CASE SendBack
  BY <1>0, <1>1 DEF SendBack, Crash, Idle, Engine, Running
<1>2. CASE SaveCheckpoint
  BY <1>0, <1>2 DEF SaveCheckpoint, Crash, Idle, Engine, Running, store
<1>3. CASE PersonStep
  BY <1>0, <1>3 DEF PersonStep, Approve, Resume, Crash, Idle, Engine, Running, store
<1>4. CASE RequestChanges
  BY <1>0, <1>4 DEF RequestChanges, Crash, Idle, Engine, Running, store
<1>5. CASE Crash
  BY <1>0, <1>5 DEF Crash, Idle, Engine, Running, store
<1>6. CASE Redo
  BY <1>0, <1>6 DEF Redo, Crash, Idle, Engine, Running
<1> QED BY <1>1, <1>2, <1>3, <1>4, <1>5, <1>6 DEF TurnStep

LEMMA AsIs ==
    ASSUME HttpStep \/ UNCHANGED vars
    PROVE  eng' = eng /\ attempts' = attempts /\ ck' = ck /\ tck' = tck /\ used' = used
           /\ mine' \subseteq mine /\ ask' = ask
  BY DEF HttpStep, UpdateProject, UpdateShot, DeleteShot, Request, vars

LEMMA QuietKinds ==
    QuietStep => CallProvider \/ WritePlan \/ NothingToDo \/ RowStep \/ TurnStep \/ HttpStep
                   \/ UNCHANGED vars
  BY DEF QuietStep, RowStep, TurnStep

LEMMA HereType ==
    ASSUME Typed, AtWork, Running, eng.stage = Plan \/ eng.todo # {}
    PROVE  Here \in Target /\ (eng.stage = Plan <=> Here[2] = 0)
           /\ Here[1] = KindOf(eng.stage) /\ Here[2] = Now
<1>1. Now \in Nat /\ (eng.stage = Plan <=> Now = 0)
  BY NowTodo DEF Now
<1> HIDE DEF Now
<1> QED BY <1>1 DEF Here, Target, KindOf

LEMMA StepTyped == ASSUME Typed, AtWork, [Next]_vars PROVE Typed'
<1>1. rows' \in Board /\ \E top \in Nat : Ids' \subseteq 1..top
  <2>1. CASE WritePlan
    BY <2>1, PlanRows
  <2>2. CASE ~WritePlan
    <3>1. Others
      BY <2>2 DEF Others
    <3>2. rows' \in Board /\ Ids' \subseteq Ids
      BY <3>1, StepRows
    <3> QED BY <3>2 DEF Typed
  <2> QED BY <2>1, <2>2
<1>2. project' \in Film
  <2>1. project \in Film
    BY DEF Typed
  <2>6. project.rev + 1 \in Nat
    BY <2>1 DEF Film
  <2>4. MarkProject => project' \in Film
    BY <2>1, <2>6 DEF MarkProject, Film
  <2>2. \A i, row : Write(i, row) => project' \in Film
    BY <2>4 DEF Write
  <2>5. [project EXCEPT !.rev = @ + 1] \in Film /\ [project EXCEPT !.cut = FALSE, !.rev = @ + 1] \in Film
    BY <2>1, <2>6 DEF Film
  <2>3. UpdateProject \/ (\E i \in Ids : DeleteShot(i)) => project' \in Film
    BY <2>1, <2>5 DEF UpdateProject, DeleteShot
  <2> QED BY <2>1, <2>2, <2>3 DEF Next, EngineStep, PersonStep, HttpStep, BeginAttempt, CallProvider,
             WritePlan, WriteFrame, WriteClip, SkipClip, Judge, MarkUnchecked, NothingToDo, Conflict,
             CompleteAttempt, SendBack, SaveCheckpoint, Approve, Resume, UpdateShot, RequestChanges, Redo,
             ProviderFails, Crash, store, vars
<1>3. ck' \in 0..Shoot
  <2>1. ck \in 0..Shoot /\ eng.stage \in Stage
    BY DEF Typed, Engine
  <2>2. ck' \in {ck, Plan, Gate, eng.stage}
    BY DEF Next, EngineStep, PersonStep, HttpStep, BeginAttempt, CallProvider,
             WritePlan, WriteFrame, WriteClip, SkipClip, Judge, MarkUnchecked, NothingToDo, Conflict,
             CompleteAttempt, SendBack, SaveCheckpoint, Approve, Resume, UpdateShot, RequestChanges, Redo,
             ProviderFails, Crash, UpdateProject, DeleteShot, Request, Write, vars
  <2> QED BY <2>1, <2>2 DEF Stage
<1>4. tck' \subseteq Target /\ used' \subseteq Target \X Nat
  <2>1. tck \subseteq Target /\ used \subseteq Target \X Nat /\ eng.at \in Nat
    BY DEF Typed, Engine
  <2>2. CASE RowStep
    <3>1. Here \in Target
      BY <2>2, RowDone, HereType
    <3> QED BY <2>1, <2>2, <3>1, RowDone
  <2>3. CASE CallProvider
    <3>1. Here \in Target
      BY <2>3, HereType DEF CallProvider, Running
    <3> QED BY <2>1, <2>3, <3>1 DEF CallProvider, store
  <2>4. CASE TurnStep
    BY <2>1, <2>4, Turned
  <2>5. CASE HttpStep \/ UNCHANGED vars
    BY <2>1, <2>5, AsIs
  <2>6. CASE BeginAttempt \/ EndStep \/ WritePlan \/ NothingToDo
    BY <2>1, <2>6 DEF BeginAttempt, EndStep, Conflict, ProviderFails, CompleteAttempt, WritePlan,
       NothingToDo, Ends, Served, store
  <2> QED BY <2>2, <2>3, <2>4, <2>5, <2>6, StepKinds, QuietKinds
<1>5. mine' \subseteq Nat
  <2>1. mine \subseteq Nat
    BY DEF Typed
  <2>2. CASE RowStep
    <3>1. Now \in Nat
      BY <2>2, RowDone
    <3>2. \A row : Write(Now, row) => mine' \subseteq mine \cup {Now, 0}
      BY DEF Write
    <3>3. \A v : Marked(v) => mine' \subseteq mine \cup {Now}
      BY DEF Marked
    <3>4. (\E row : Write(Now, row)) \/ (\E v : Marked(v)) \/ mine' = mine
      BY <2>2 DEF RowStep, WriteFrame, WriteClip, SkipClip, Judge, MarkUnchecked
    <3>5. mine' \subseteq mine \cup {Now, 0}
      BY <3>2, <3>3, <3>4, Zenon
    <3> HIDE DEF Now
    <3> QED BY <2>1, <3>1, <3>5
  <2>3. CASE BeginAttempt \/ EndStep \/ CallProvider \/ WritePlan \/ NothingToDo \/ TurnStep
    BY <2>1, <2>3, Turned DEF BeginAttempt, EndStep, Conflict, ProviderFails, CompleteAttempt, Ends,
       CallProvider, WritePlan, NothingToDo
  <2>4. CASE HttpStep \/ UNCHANGED vars
    BY <2>1, <2>4, AsIs
  <2> QED BY <2>2, <2>3, <2>4, StepKinds, QuietKinds
<1>6. ask' \in Wish
  <2>1. ask \in Wish /\ NoAsk \in Wish /\ [ask EXCEPT !.broken = @ \/ eng.redo] \in Wish
    BY DEF Typed, Wish, NoAsk, Engine
  <2>2. CASE RequestChanges
    <3>1. PICK ids \in SUBSET Ids : ask' = Asked(ids)
      BY <2>2 DEF RequestChanges
    <3>2. ids \subseteq Nat
      BY <3>1, RowsType
    <3> QED BY <3>1, <3>2 DEF Asked, Wish
  <2>3. CASE Crash \/ Conflict \/ ProviderFails \/ SaveCheckpoint
    BY <2>1, <2>3 DEF Crash, Conflict, ProviderFails, SaveCheckpoint, Stopped, Answered
  <2>4. CASE ~(RequestChanges \/ Crash \/ Conflict \/ ProviderFails \/ SaveCheckpoint)
    <3>1. ask' = ask
      BY <2>4 DEF Next, EngineStep, PersonStep, HttpStep, BeginAttempt, CallProvider,
         WritePlan, WriteFrame, WriteClip, SkipClip, Judge, MarkUnchecked, NothingToDo,
         CompleteAttempt, SendBack, Approve, Resume, UpdateShot, Redo,
         UpdateProject, DeleteShot, Request, Write, vars
    <3> QED BY <2>1, <3>1
  <2> QED BY <2>2, <2>3, <2>4
<1> QED BY <1>1, <1>2, <1>3, <1>4, <1>5, <1>6, StepAttempts, StepEngine DEF Typed

LEMMA StepAtWork == ASSUME Typed, AtWork, [Next]_vars PROVE AtWork'
<1>0. eng \in Engine
  BY DEF Typed
<1>1. CASE BeginAttempt
  <2>1. PICK n : Begins(n)
    BY <1>1, Begun
  <2>2. /\ eng'.pc = "stage" /\ eng'.stage = eng.stage /\ eng'.at = n
        /\ eng'.frozen = attempts'[n].rows /\ eng'.again = {}
        /\ eng'.todo = Pending(eng.stage, attempts'[n].rows)
    BY <1>0, <2>1 DEF Begins, Engine
  <2>3. /\ eng'.todo \subseteq DOMAIN eng'.frozen
        /\ eng.stage = Plan => eng'.todo = {}
    <3>1. attempts'[n].rows \in Board /\ eng.stage \in Stage
      BY <1>0, <2>1 DEF Begins, Attempt, Engine
    <3> QED BY <2>2, <3>1, PendingFacts
  <2>4. n \in Interrupted(eng.stage)'
    BY <2>1, <2>2 DEF Begins, Interrupted
  <2> QED BY <2>2, <2>3, <2>4 DEF AtWork, Running
<1>2. CASE EndStep
  <2>1. CASE CompleteAttempt
    <3>1. eng'.pc = "ended" /\ eng'.again = eng.again /\ eng'.stage = eng.stage
      BY <1>0, <2>1 DEF CompleteAttempt, Engine
    <3> QED BY <3>1 DEF AtWork, Running
  <2>2. CASE Stopped
    <3>1. eng'.pc \in {"loop", "down"} /\ eng'.again = {}
      BY <2>2 DEF Stopped, Idle
    <3> QED BY <3>1 DEF AtWork, Running
  <2> QED BY <1>2, <2>1, <2>2 DEF EndStep, Conflict, ProviderFails
<1>3. CASE RowStep
  <2>1. \A s : Interrupted(s)' = Interrupted(s)
    BY <1>3, RowDone DEF Interrupted
  <2>2. eng'.todo # {} => eng'.pc = "stage"
    BY <1>3, RowDone DEF NextPc
  <2>3. eng'.pc \in {"stage", "made"}
    BY <1>3, RowDone DEF NextPc
  <2> QED BY <1>3, <2>1, <2>2, <2>3, RowDone DEF AtWork, Running
<1>4. CASE CallProvider \/ NothingToDo \/ WritePlan
  <2>1. /\ eng'.stage = eng.stage /\ eng'.at = eng.at /\ eng'.again = eng.again
        /\ eng'.todo = eng.todo /\ Running /\ attempts' = attempts
        /\ eng.stage # Plan => eng'.frozen = eng.frozen
        /\ eng'.pc = "provider" => eng.stage = Plan \/ eng.todo # {}
    BY <1>0, <1>4 DEF CallProvider, NothingToDo, WritePlan, ForgetFrozen, Engine, Running
  <2>2. \A s : Interrupted(s)' = Interrupted(s)
    BY <2>1 DEF Interrupted
  <2>3. eng.stage = Plan => eng.todo = {}
    BY <2>1 DEF AtWork
  <2> QED BY <2>1, <2>2, <2>3 DEF AtWork, Running
<1>5. CASE TurnStep
  <2>1. eng'.again = {} \/ eng'.stage = Review
    <3>3. SendBack => eng'.again = {}
      BY DEF SendBack, Idle
    <3>5. Crash => eng'.again = {}
      BY DEF Crash, Idle
    <3>4. SaveCheckpoint => eng'.again = {}
      BY DEF SaveCheckpoint, Idle
    <3>1. SendBack \/ SaveCheckpoint \/ Resume \/ Crash => eng'.again = {}
      BY <3>3, <3>4, <3>5 DEF Resume, Idle
    <3>2. RequestChanges \/ Redo \/ Approve => eng'.again = eng.again /\ eng.stage = Gate
      BY <1>0 DEF RequestChanges, Redo, Approve, Engine
    <3> QED BY <1>5, <3>1, <3>2 DEF TurnStep, PersonStep, AtWork
  <2> QED BY <1>5, <2>1, Turned DEF AtWork, Running
<1>6. CASE HttpStep \/ UNCHANGED vars
  BY <1>6, AsIs DEF AtWork, Running, Interrupted
<1> QED BY <1>1, <1>2, <1>3, <1>4, <1>5, <1>6, StepKinds, QuietKinds

-----------------------------------------------------------------------------
(* Where the run is *)

\* A step that asks, finds nothing to do, or plans.
AskStep == CallProvider \/ NothingToDo \/ WritePlan
LEMMA Posed ==
    ASSUME Typed, AskStep
    PROVE  /\ Running /\ eng'.pc \in {"provider", "made"}
           /\ eng'.stage = eng.stage /\ eng'.at = eng.at /\ eng'.again = eng.again
           /\ eng'.scope = eng.scope /\ eng'.redo = eng.redo /\ eng'.own = eng.own
           /\ eng'.todo = eng.todo
           /\ attempts' = attempts /\ ck' = ck /\ tck' = tck /\ mine' = mine /\ project' = project
           /\ ask' = ask
           /\ ~WritePlan => rows' = rows
           /\ ~CallProvider => used' \subseteq used
           /\ WritePlan => eng.stage = Plan
           /\ NothingToDo => eng.todo = {}
           /\ eng'.pc = "made" => NothingToDo \/ WritePlan
<1>0. eng \in Engine
  BY DEF Typed
<1>1. CASE CallProvider
  <2>1. /\ eng' = [eng EXCEPT !.pc = "provider"] /\ UNCHANGED <<store, attempts, ck, ask, mine>>
        /\ eng.pc = "stage"
    BY <1>1 DEF CallProvider
  <2>2. ~WritePlan /\ ~NothingToDo
    BY <1>0, <2>1 DEF WritePlan, NothingToDo, Engine
  <2> QED BY <1>0, <1>1, <2>1, <2>2 DEF Engine, Running, store
<1>2. CASE NothingToDo
  BY <1>0, <1>2 DEF NothingToDo, CallProvider, WritePlan, Engine, Running, store
<1>3. CASE WritePlan
  BY <1>0, <1>3 DEF WritePlan, CallProvider, NothingToDo, ForgetFrozen, Engine, Running, Served
<1> QED BY <1>1, <1>2, <1>3 DEF AskStep

LEMMA FiveSteps ==
    [Next]_vars => BeginAttempt \/ EndStep \/ AskStep \/ RowStep \/ TurnStep
                     \/ HttpStep \/ UNCHANGED vars
  BY StepKinds, QuietKinds DEF AskStep

LEMMA BegunEngine ==
    ASSUME Typed, NEW n, Begins(n)
    PROVE  /\ eng'.pc = "stage" /\ eng'.stage = eng.stage /\ eng'.at = n /\ eng'.own = 0
           /\ eng'.scope = eng.scope /\ eng'.redo = eng.redo
           /\ eng'.todo = Pending(eng.stage, attempts'[n].rows)
           /\ \A m \in DOMAIN attempts : m \in DOMAIN attempts' /\ attempts'[m] = attempts[m]
           /\ \A m \in DOMAIN attempts' : m \in DOMAIN attempts \/ (m = n /\ Appended(n))
<1>1. eng \in Engine
  BY DEF Typed
<1>2. /\ eng'.pc = "stage" /\ eng'.stage = eng.stage /\ eng'.at = n /\ eng'.own = 0
      /\ eng'.scope = eng.scope /\ eng'.redo = eng.redo
      /\ eng'.todo = Pending(eng.stage, attempts'[n].rows)
  BY <1>1 DEF Begins, Engine
<1>3. /\ \A m \in DOMAIN attempts : m \in DOMAIN attempts' /\ attempts'[m] = attempts[m]
      /\ \A m \in DOMAIN attempts' : m \in DOMAIN attempts \/ (m = n /\ Appended(n))
  <2>1. CASE Taken(n)
    BY <2>1 DEF Taken
  <2>2. CASE Appended(n)
    <3>1. /\ DOMAIN attempts' = DOMAIN attempts \cup {n}
          /\ \A m \in DOMAIN attempts : attempts'[m] = attempts[m]
      BY <2>2 DEF Appended
    <3> QED BY <2>2, <3>1
  <2> QED BY <2>1, <2>2 DEF Begins
<1> QED BY <1>2, <1>3

LEMMA BeginKeeps ==
    BeginAttempt => /\ rows' = rows /\ project' = project /\ tck' = tck /\ ck' = ck
                    /\ used' = used /\ mine' = mine /\ ask' = ask
                    /\ eng.pc = "loop" /\ eng.stage # Gate /\ ~Running
  BY DEF BeginAttempt, store, Running

LEMMA EndedEngine ==
    ASSUME Typed, AtWork, EndStep
    PROVE  /\ rows' = rows /\ project' = project /\ tck' = tck /\ ck' = ck
           /\ \/ /\ eng'.pc = "ended" /\ eng'.stage = eng.stage /\ eng.pc = "made"
                 /\ eng'.scope = eng.scope /\ eng'.redo = eng.redo /\ ask' = ask
              \/ /\ eng'.scope = {} /\ ~eng'.redo /\ ask' = IF eng.redo THEN NoAsk ELSE ask
                 /\ \/ ~eng.redo /\ eng'.pc = "down" /\ eng'.stage = Plan
                    \/ eng.redo /\ eng'.pc = "loop" /\ eng'.stage = Gate
<1>0. eng \in Engine
  BY DEF Typed
<1>1. CASE CompleteAttempt
  BY <1>0, <1>1 DEF CompleteAttempt, Engine, store
<1>2. CASE Conflict \/ ProviderFails
  <2>1. Stopped /\ UNCHANGED <<store, ck>>
    BY <1>2 DEF Conflict, ProviderFails
  <2> QED BY <2>1 DEF Stopped, Answered, Idle, store
<1> QED BY <1>1, <1>2 DEF EndStep

LEMMA EndedAttempts ==
    ASSUME Typed, AtWork, EndStep
    PROVE  /\ DOMAIN attempts' = DOMAIN attempts
           /\ \A m \in DOMAIN attempts : attempts'[m].stage = attempts[m].stage
           /\ \A m \in DOMAIN attempts : m # eng.at => attempts'[m] = attempts[m]
           /\ attempts'[eng.at].status # "started"
           /\ \A s : Interrupted(s)' \subseteq Interrupted(s) \ {eng.at}
<1>1. Running /\ \E status \in {"succeeded", "failed"} : Ends(status)
  BY Ending
<1>2. /\ DOMAIN attempts' = DOMAIN attempts /\ eng.at \in DOMAIN attempts
      /\ attempts'[eng.at].status # "started" /\ attempts'[eng.at].stage = attempts[eng.at].stage
      /\ \A m \in DOMAIN attempts : m # eng.at => attempts'[m] = attempts[m]
  BY <1>1, Finished
<1> QED BY <1>2 DEF Interrupted

\* How the runner goes on between two attempts.
LEMMA TurnedEngine ==
    ASSUME Typed, TurnStep
    PROVE  \/ /\ SendBack /\ eng.pc = "ended" /\ eng.again # {} /\ ck' = Plan
              /\ eng'.pc = "loop" /\ eng'.stage = Render /\ eng'.scope = eng.again /\ ~eng'.redo
              /\ ask' = ask
           \/ /\ SaveCheckpoint /\ eng.pc = "ended" /\ ck' = eng.stage /\ ~eng'.redo
              /\ ask' = IF eng.redo THEN NoAsk ELSE ask
              /\ \/ eng'.pc = "over" /\ eng'.scope = {} /\ eng'.stage = Plan /\ eng.stage = Shoot
                 \/ /\ eng'.pc = "loop" /\ eng'.stage = eng.stage + 1
                    /\ eng'.scope = {} \/ (eng.stage # Review /\ eng'.scope = eng.scope)
           \/ /\ Approve /\ eng.pc = "loop" /\ eng.stage = Gate /\ ck' = Gate /\ ~ask.open /\ ask' = ask
              /\ eng'.pc = "loop" /\ eng'.stage = Review
              /\ eng'.scope = eng.scope /\ eng'.redo = eng.redo
           \/ /\ Resume /\ eng.pc = "down" /\ ck' = ck /\ eng'.scope = {} /\ ~eng'.redo /\ ask' = ask
              /\ \/ eng'.pc = "over" /\ ck = Shoot /\ eng'.stage = Plan
                 \/ eng'.pc = "loop" /\ eng'.stage = ck + 1
           \/ /\ RequestChanges /\ eng.pc = "loop" /\ eng.stage = Gate /\ ck' = ck
              /\ eng' = eng /\ ~ask.open /\ ask'.open /\ ~ask'.broken
           \/ /\ Redo /\ eng.pc = "loop" /\ eng.stage = Gate /\ ck' = ck
              /\ eng'.pc = "loop" /\ eng'.stage = Render /\ eng'.redo /\ eng'.scope = ask.ids
              /\ ask.open /\ ask' = ask
           \/ /\ Crash /\ eng.pc # "over" /\ ck' = ck
              /\ ask' = [ask EXCEPT !.broken = ask.broken \/ eng.redo]
              /\ eng'.pc = "down" /\ eng'.scope = {} /\ ~eng'.redo /\ eng'.stage = Plan
<1>0. eng \in Engine
  BY DEF Typed
<1>1. CASE SendBack
  BY <1>0, <1>1 DEF SendBack, Idle
<1>2. CASE SaveCheckpoint
  <2>1. CASE eng.stage = Shoot
    BY <1>2, <2>1 DEF SaveCheckpoint, Answered, Idle
  <2>2. CASE eng.stage # Shoot
    <3>1. eng' = [Idle EXCEPT !.pc = "loop", !.stage = eng.stage + 1, !.rounds = eng.rounds,
                     !.scope = IF eng.redo \/ eng.stage = Review THEN NoScope ELSE eng.scope]
      BY <1>2, <2>2 DEF SaveCheckpoint
    <3>2. /\ eng'.pc = "loop" /\ eng'.stage = eng.stage + 1 /\ ~eng'.redo
          /\ eng'.scope = IF eng.redo \/ eng.stage = Review THEN NoScope ELSE eng.scope
      BY <3>1 DEF Idle
    <3>3. eng.pc = "ended" /\ ck' = eng.stage /\ ask' = IF eng.redo THEN NoAsk ELSE ask
      BY <1>2 DEF SaveCheckpoint, Answered
    <3>4. eng'.scope = {} \/ (eng.stage # Review /\ eng'.scope = eng.scope)
      BY <3>2
    <3> QED BY <1>2, <3>2, <3>3, <3>4
  <2> QED BY <2>1, <2>2
<1>3. CASE Approve
  BY <1>0, <1>3 DEF Approve, Engine
<1>4. CASE Resume
  BY <1>0, <1>4 DEF Resume, Idle
<1>5. CASE RequestChanges
  <2>1. PICK ids : ask' = Asked(ids)
    BY <1>5 DEF RequestChanges
  <2>2. ask'.open /\ ~ask'.broken
    BY <2>1 DEF Asked
  <2> QED BY <1>5, <2>2 DEF RequestChanges
<1>6. CASE Crash
  BY <1>0, <1>6 DEF Crash, Idle
<1>7. CASE Redo
  BY <1>0, <1>7 DEF Redo, Engine
<1> QED BY <1>1, <1>2, <1>3, <1>4, <1>5, <1>6, <1>7 DEF TurnStep, PersonStep

LEMMA StepScoped == ASSUME Typed, AtWork, Scoped, [Next]_vars PROVE Scoped'
<1>0. eng.stage \in Stage
  BY DEF Typed, Engine
<1>1. CASE BeginAttempt
  BY <1>1, Begun, BegunEngine, BeginKeeps DEF Scoped
<1>2. CASE EndStep
  BY <1>2, EndedEngine DEF Scoped
<1>3. CASE AskStep
  BY <1>3, Posed DEF Scoped
<1>4. CASE RowStep
  BY <1>4, RowDone DEF Scoped, NextPc
<1>5. CASE TurnStep
  <2>1. CASE Redo
    BY <1>0, <2>1 DEF Redo, Scoped, Typed, Engine
  <2>2. CASE ~Redo
    BY <1>0, <1>5, <2>2, TurnedEngine DEF Scoped, Stage
  <2> QED BY <2>1, <2>2
<1>6. CASE HttpStep \/ UNCHANGED vars
  BY <1>6, AsIs DEF Scoped
<1> QED BY <1>1, <1>2, <1>3, <1>4, <1>5, <1>6, FiveSteps

LEMMA StepWaiting ==
    ASSUME Typed, AtWork, Scoped, Waiting, [Next]_vars PROVE Waiting'
<1>0. eng.stage \in Stage /\ ask \in Wish /\ ~NoAsk.open /\ NoAsk.ids = {} /\ ~NoAsk.broken
  BY DEF Typed, Engine, NoAsk
<1>1. CASE BeginAttempt
  <2>1. eng'.pc = "stage" /\ eng'.redo = eng.redo /\ eng'.scope = eng.scope
    BY <1>1, Begun, BegunEngine
  <2> QED BY <1>1, <2>1, BeginKeeps DEF Waiting
<1>2. CASE EndStep
  <2>1. Running
    BY <1>2, Ending
  <2> QED BY <1>0, <1>2, <2>1, EndedEngine DEF Waiting, Running
<1>3. CASE AskStep
  BY <1>3, Posed DEF Waiting, Running
<1>4. CASE RowStep
  BY <1>4, RowDone DEF Waiting, Running, NextPc
<1>5. CASE TurnStep
  <2>1. CASE SendBack
    BY <2>1, <1>5, TurnedEngine DEF Waiting, Scoped, AtWork, SendBack, Crash, RequestChanges
  <2>2. CASE Crash
    <3>1. ask' = [ask EXCEPT !.broken = ask.broken \/ eng.redo] /\ ck' = ck
          /\ eng'.pc = "down" /\ ~eng'.redo
      BY <2>2 DEF Crash, Idle
    <3>2. ask'.open = ask.open /\ ask'.ids = ask.ids /\ ask'.broken = (ask.broken \/ eng.redo)
      BY <1>0, <3>1 DEF Wish
    <3> QED BY <3>1, <3>2 DEF Waiting
  <2>3. CASE SaveCheckpoint
    <3>1. /\ ask' = IF eng.redo THEN NoAsk ELSE ask
          /\ ck' = eng.stage /\ ~eng'.redo /\ eng.pc = "ended"
          /\ eng'.pc = "loop" => eng'.stage = eng.stage + 1
      BY <1>0, <2>3 DEF SaveCheckpoint, Answered, Idle
    <3>2. ~ask'.open
      BY <1>0, <3>1 DEF Waiting
    <3> QED BY <1>0, <3>1, <3>2 DEF Waiting, Stage
  <2>4. CASE Approve
    <3>1. /\ ask' = ask /\ ~ask.open /\ eng'.redo = eng.redo /\ eng'.stage = Review
      BY <2>4 DEF Approve, Typed, Engine
    <3> QED BY <3>1 DEF Waiting
  <2>5. CASE Resume
    <3>1. /\ ask' = ask /\ ck' = ck /\ ~eng'.redo /\ eng.pc = "down" /\ ~eng.redo
          /\ \/ eng'.pc = "over" /\ ck = Shoot
             \/ eng'.pc = "loop" /\ eng'.stage = ck + 1
      BY <2>5 DEF Resume, Idle, Waiting
    <3>2. ck \in Nat
      BY DEF Typed
    <3> QED BY <3>1, <3>2 DEF Waiting
  <2>6. CASE RequestChanges
    <3>1. ask'.open /\ eng' = eng /\ ck' = ck /\ eng.pc = "loop" /\ eng.stage = Gate /\ ~ask.open
      <4>1. PICK ids : ask' = Asked(ids)
        BY <2>6 DEF RequestChanges
      <4>2. ask'.open
        BY <4>1 DEF Asked
      <4> QED BY <2>6, <4>2 DEF RequestChanges
    <3> QED BY <3>1 DEF Waiting
  <2>7. CASE Redo
    <3>1. /\ ask.open /\ ask' = ask /\ ck' = ck /\ eng'.scope = ask.ids /\ eng'.redo
          /\ eng'.pc = "loop" /\ eng'.stage = Render
      BY <2>7 DEF Redo, Typed, Engine
    <3> QED BY <3>1 DEF Waiting
  <2> QED BY <1>5, <2>1, <2>2, <2>3, <2>4, <2>5, <2>6, <2>7 DEF TurnStep, PersonStep
<1>6. CASE HttpStep \/ UNCHANGED vars
  BY <1>6, AsIs DEF Waiting
<1> QED BY <1>1, <1>2, <1>3, <1>4, <1>5, <1>6, FiveSteps

LEMMA StepEarly == ASSUME Typed, AtWork, Early, Scoped, [Next]_vars PROVE Early'
<1>0. eng.stage \in Stage /\ ck \in 0..Shoot
  BY DEF Typed, Engine
<1>1. CASE BeginAttempt
  <2>1. PICK n : Begins(n)
    BY <1>1, Begun
  <2>2. ck = 0 => \A m \in DOMAIN attempts' : attempts'[m].stage = Plan
    <3> SUFFICES ASSUME ck = 0, NEW m \in DOMAIN attempts' PROVE attempts'[m].stage = Plan
      OBVIOUS
    <3>1. eng.stage = Plan
      BY <1>1, BeginKeeps DEF Early, Up
    <3>2. CASE m \in DOMAIN attempts
      BY <2>1, <3>2, BegunEngine DEF Early
    <3>3. CASE m = n
      BY <2>1, <3>1, <3>3 DEF Begins
    <3> QED BY <2>1, <3>2, <3>3, BegunEngine
  <2> QED BY <1>1, <2>1, <2>2, BegunEngine, BeginKeeps DEF Early, Up
<1>2. CASE EndStep
  <2>1. eng.redo => ck # 0
    <3>1. Up
      BY <1>2, Ending DEF Up, Running
    <3> QED BY <3>1 DEF Early, Scoped
  <2>2. eng.pc = "made" => Up
    BY DEF Up
  <2> QED BY <1>2, <2>1, <2>2, EndedEngine, EndedAttempts DEF Early, Up
<1>3. CASE AskStep
  BY <1>3, Posed DEF Early, Up, Running
<1>4. CASE RowStep
  <2>1. ck # 0 /\ eng'.stage = eng.stage /\ eng.stage # Plan /\ ck' = ck
    BY <1>4, RowDone DEF Early, Up, Running
  <2> QED BY <2>1 DEF Early
<1>5. CASE TurnStep
  <2>1. attempts' = attempts /\ tck' \subseteq tck
    BY <1>5, Turned
  <2> QED BY <1>0, <1>5, <2>1, TurnedEngine DEF Early, Up, Stage
<1>6. CASE HttpStep \/ UNCHANGED vars
  BY <1>6, AsIs DEF Early, Up
<1> QED BY <1>1, <1>2, <1>3, <1>4, <1>5, <1>6, FiveSteps

-----------------------------------------------------------------------------
(* The boards, the pictures, the open attempts *)

\* A plan is written before anything else has happened.
LEMMA PlanFirst ==
    ASSUME Typed, Early, WritePlan
    PROVE  ck = 0 /\ tck = {} /\ \A n \in DOMAIN attempts : attempts[n].stage = Plan
  BY DEF WritePlan, Early, Up

LEMMA BehindStays ==
    ASSUME Typed, Typed', RowsGrow, NEW b \in Board, Behind(b, rows) PROVE Behind(b, rows')
<1> SUFFICES ASSUME NEW i \in Ids'
             PROVE  /\ i \in DOMAIN b /\ b[i].rev <= rows'[i].rev
                    /\ b[i].rev = rows'[i].rev => b[i] = rows'[i]
  BY DEF Behind
<1>1. /\ i \in Ids /\ (rows'[i] = rows[i] \/ rows'[i].rev > rows[i].rev)
  BY DEF RowsGrow
<1>2. i \in DOMAIN b /\ b[i].rev <= rows[i].rev /\ (b[i].rev = rows[i].rev => b[i] = rows[i])
  BY <1>1 DEF Behind
<1>3. b[i].rev \in Nat /\ rows[i].rev \in Nat /\ rows'[i].rev \in Nat
  BY <1>1, <1>2, BoardFacts DEF Typed, Cell
<1> QED BY <1>1, <1>2, <1>3

LEMMA NewBehind == ASSUME Typed PROVE Behind(rows, rows)
<1>1. \A i \in Ids : rows[i].rev \in Nat
  BY RowsType DEF Cell
<1> QED BY <1>1 DEF Behind

LEMMA StepFrozen ==
    ASSUME Typed, Typed', AtWork, Early, Frozen, [Next]_vars PROVE Frozen'
<1> SUFFICES ASSUME NEW n \in Interrupted(Render)' PROVE Behind(attempts'[n].rows, rows')
  BY DEF Frozen
<1>0. n \in DOMAIN attempts' /\ attempts'[n].stage = Render /\ attempts'[n].status = "started"
  BY DEF Interrupted
<1>1. CASE WritePlan
  <2>1. attempts' = attempts /\ \A m \in DOMAIN attempts : attempts[m].stage = Plan
    BY <1>1, PlanFirst, QuietAttempts DEF QuietStep
  <2> QED BY <1>0, <2>1
<1>2. CASE ~WritePlan
  <2>1. RowsGrow
    BY <1>2, StepRows DEF Others
  <2>2. ASSUME n \in DOMAIN attempts, attempts'[n] = attempts[n]
        PROVE  Behind(attempts'[n].rows, rows')
    <3>1. attempts[n].rows \in Board
      BY <2>2, AttemptsSeq DEF Attempt
    <3>2. Behind(attempts[n].rows, rows)
      BY <1>0, <2>2 DEF Interrupted, Frozen
    <3> QED BY <2>1, <2>2, <3>1, <3>2, BehindStays
  <2>3. CASE BeginAttempt
    <3>1. PICK m : Begins(m)
      BY <2>3, Begun
    <3>2. CASE n \in DOMAIN attempts
      BY <2>2, <3>1, <3>2, BegunEngine
    <3>3. CASE n \notin DOMAIN attempts
      <4>1. n = m /\ Appended(n)
        BY <1>0, <3>1, <3>3, BegunEngine
      <4>2. attempts'[n].rows = rows /\ rows' = rows
        BY <2>3, <4>1, BeginKeeps DEF Appended, Fresh
      <4> QED BY <4>2, NewBehind
    <3> QED BY <3>2, <3>3
  <2>4. CASE EndStep
    <3>1. n \in DOMAIN attempts /\ n # eng.at
      BY <1>0, <2>4, EndedAttempts
    <3> QED BY <2>2, <2>4, <3>1, EndedAttempts
  <2>5. CASE QuietStep
    BY <1>0, <2>2, <2>5, QuietAttempts
  <2> QED BY <2>3, <2>4, <2>5, StepKinds
<1> QED BY <1>1, <1>2

LEMMA DrawnStays == ASSUME RowsGrow, Drawn PROVE Drawn'
  BY DEF RowsGrow, Drawn

\* What an attempt for pictures has to do has no picture, or somebody wants it.
LEMMA PendingPictures ==
    ASSUME Typed, NEW b \in Board, Behind(b, rows)
    PROVE  /\ \A i \in Ids : /\ eng.scope = {} /\ rows[i].frame = NoPicture /\ <<"frame", i>> \notin tck
                           => i \in Pending(Render, b)
           /\ \A i \in Ids \cap Pending(Render, b) : i \in eng.scope \/ rows[i].frame = NoPicture
  BY DEF Pending, InScope, Has, KindOf, Behind

LEMMA StepMissing ==
    ASSUME Typed, Typed', AtWork, Early, Scoped, Frozen, Frozen', Missing, [Next]_vars
    PROVE  Missing'
<1>0. eng.stage \in Stage /\ ck \in 0..Shoot
  BY DEF Typed, Engine
<1>1. CASE WritePlan
  <2>1. ck' = 0 /\ tck' = {} /\ eng'.stage = Plan /\ ~eng'.redo /\ eng'.scope = {}
    BY <1>1, PlanFirst, Posed DEF AskStep, Scoped
  <2> QED BY <2>1 DEF Missing
<1>2. CASE BeginAttempt
  <2>1. PICK n : Begins(n)
    BY <1>2, Begun
  <2>2. /\ eng'.pc = "stage" /\ eng'.stage = eng.stage /\ eng.pc = "loop" /\ ck' = ck /\ tck' = tck
        /\ eng'.scope = eng.scope /\ eng'.redo = eng.redo /\ rows' = rows
        /\ eng'.todo = Pending(eng.stage, attempts'[n].rows)
    BY <1>2, <2>1, BegunEngine, BeginKeeps
  <2>3. ASSUME eng.stage = Render, NEW i \in Ids, rows[i].frame = NoPicture
        PROVE  i \in Pending(Render, attempts'[n].rows)
    <3>1. attempts'[n].rows \in Board /\ n \in Interrupted(Render)'
      BY <2>1, <2>3 DEF Begins, Attempt, Interrupted
    <3>2. Behind(attempts'[n].rows, rows)
      BY <2>2, <3>1 DEF Frozen
    <3>3. eng.scope = {} /\ <<"frame", i>> \notin tck
      BY <2>3 DEF Missing, Drawn
    <3> QED BY <2>3, <3>1, <3>2, <3>3, PendingPictures
  <2> QED BY <2>2, <2>3 DEF Missing, Drawn
<1>3. CASE EndStep
  BY <1>0, <1>3, EndedEngine DEF Missing, Drawn, Running
<1>4. CASE AskStep /\ ~WritePlan
  <2>1. eng'.pc = "made" => eng.todo = {}
    BY <1>4, Posed
  <2>2. eng'.pc = "made" /\ eng.stage = Render => Drawn
    BY <1>4, <2>1, Posed DEF Missing, Drawn
  <2> QED BY <1>4, <2>2, Posed DEF Missing, Drawn, Running
<1>5. CASE RowStep
  <2>1. RowsGrow
    <3>1. ~WritePlan
      BY <1>5, RowDone DEF WritePlan
    <3> QED BY <1>5, <3>1, StepRows DEF Others, RowStep, Next, EngineStep
  <2>2. /\ eng'.stage = eng.stage /\ ck' = ck /\ eng'.scope = eng.scope /\ eng'.redo = eng.redo
        /\ eng'.todo = eng.todo \ {Now} /\ eng'.pc = NextPc(eng.todo \ {Now})
        /\ tck' \subseteq tck \cup {Here} /\ Running
    BY <1>5, RowDone
  <2>3. WriteFrame => eng.stage = Render /\ rows'[Now].frame # NoPicture
    BY <1>5, FrameRows, RowDone
  <2>4. eng.stage = Render => WriteFrame
    BY <1>5, RowDone
  <2>5. eng.stage = Render => \A i \in Ids' : rows'[i].frame # NoPicture \/ i \in eng'.todo
    BY <2>1, <2>2, <2>3, <2>4 DEF Missing, RowsGrow
  <2>6. \A i \in Ids' : <<"frame", i>> \in tck' => rows'[i].frame # NoPicture
    <3> SUFFICES ASSUME NEW i \in Ids', <<"frame", i>> \in tck' PROVE rows'[i].frame # NoPicture
      OBVIOUS
    <3>1. CASE <<"frame", i>> \in tck
      BY <2>1, <3>1 DEF Missing, RowsGrow
    <3>2. CASE <<"frame", i>> = Here
      <4>1. eng.stage = Render /\ i = Now
        BY <1>0, <3>2 DEF Here, KindOf, Stage
      <4> QED BY <2>3, <2>4, <4>1
    <3> QED BY <2>2, <3>1, <3>2
  <2>7. eng'.pc = "made" => eng'.todo = {}
    BY <2>2 DEF NextPc
  <2>8. Drawn \/ (ck <= Plan /\ ~eng.redo /\ eng.scope = {} /\ eng.stage \in {Plan, Render})
    BY <2>2 DEF Missing, Running
  <2>9. eng'.pc \in {"stage", "made"}
    BY <2>2 DEF NextPc
  <2>10. Drawn => Drawn'
    BY <2>1, DrawnStays
  <2>11. eng'.stage = Render /\ eng'.pc = "made" => Drawn'
    BY <2>2, <2>5, <2>7 DEF Drawn
  <2> QED BY <2>2, <2>5, <2>6, <2>8, <2>9, <2>10, <2>11 DEF Missing
<1>6. CASE TurnStep
  <2>1. /\ rows' = rows /\ tck' \subseteq tck /\ eng'.pc \in {"loop", "over", "down"}
    BY <1>6, Turned
  <2>2. Drawn' \/ (/\ ck' <= Plan /\ ~eng'.redo /\ eng'.scope = {}
                   /\ eng'.pc = "down" \/ eng'.stage \in {Plan, Render})
    <3>1. CASE Drawn
      BY <2>1, <3>1 DEF Drawn
    <3>2. CASE ~Drawn
      <4>1. /\ ck <= Plan /\ ~eng.redo /\ eng.scope = {}
            /\ eng.pc = "down" \/ eng.stage \in {Plan, Render}
            /\ ~(eng.stage = Render /\ eng.pc \in {"made", "ended"})
        BY <3>2 DEF Missing
      <4>2. eng.again # {} => eng.stage = Review
        BY DEF AtWork
      <4> QED BY <1>0, <1>6, <4>1, <4>2, TurnedEngine
    <3> QED BY <3>1, <3>2
  <2> QED BY <2>1, <2>2 DEF Missing, Running, Drawn
<1>7. CASE HttpStep \/ UNCHANGED vars
  <2>1. RowsGrow
    <3>1. ~WritePlan
      BY <1>7 DEF HttpStep, UpdateProject, UpdateShot, DeleteShot, Request, WritePlan, vars,
         ForgetFrozen, Typed, Engine
    <3> QED BY <1>7, <3>1, StepRows DEF Others, Next
  <2>2. Drawn => Drawn'
    BY <2>1, DrawnStays
  <2> QED BY <1>7, <2>1, <2>2, AsIs DEF Missing, RowsGrow, Running, Drawn
<1> QED BY <1>1, <1>2, <1>3, <1>4, <1>5, <1>6, <1>7, FiveSteps DEF AskStep

LEMMA StepSingle ==
    ASSUME Typed, AtWork, Early, Scoped, Missing, Single, [Next]_vars PROVE Single'
<1> SUFFICES ASSUME NEW s \in Stage, s # Render \/ ~Drawn',
                    NEW n \in Interrupted(s)', NEW m \in Interrupted(s)'
             PROVE  n = m
  BY DEF Single
<1>1. CASE WritePlan
  <2>1. attempts' = attempts /\ \A k \in DOMAIN attempts : attempts[k].stage = Plan
    BY <1>1, PlanFirst, QuietAttempts DEF QuietStep
  <2> QED BY <2>1 DEF Interrupted, Single
<1>2. CASE ~WritePlan
  <2>1. s # Render \/ ~Drawn
    BY <1>2, StepRows, DrawnStays DEF Others
  <2>2. \A k, l \in Interrupted(s) : k = l
    BY <2>1 DEF Single
  <2>3. CASE BeginAttempt
    <3>1. PICK k : Begins(k)
      BY <2>3, Begun
    <3>2. \A l \in Interrupted(s)' : l \in Interrupted(s) \/ (l = k /\ Appended(k) /\ eng.stage = s)
      <4> SUFFICES ASSUME NEW l \in Interrupted(s)'
                   PROVE  l \in Interrupted(s) \/ (l = k /\ Appended(k) /\ eng.stage = s)
        OBVIOUS
      <4>1. l \in DOMAIN attempts' /\ attempts'[l].stage = s /\ attempts'[l].status = "started"
        BY DEF Interrupted
      <4>2. CASE l \in DOMAIN attempts
        BY <3>1, <4>1, <4>2, BegunEngine DEF Interrupted
      <4>3. CASE l = k /\ Appended(k)
        BY <3>1, <4>1, <4>3 DEF Begins
      <4> QED BY <3>1, <4>1, <4>2, <4>3, BegunEngine
    <3>3. Appended(k) /\ eng.stage = s => Interrupted(s) = {}
      BY <2>1 DEF Appended, Missing, Scoped
    <3> QED BY <2>2, <3>2, <3>3
  <2>4. CASE EndStep
    BY <2>2, <2>4, EndedAttempts
  <2>5. CASE QuietStep
    BY <2>2, <2>5, QuietAttempts DEF Interrupted
  <2> QED BY <2>3, <2>4, <2>5, StepKinds
<1> QED BY <1>1, <1>2

-----------------------------------------------------------------------------
(* The keys *)

LEMMA NewKey ==
    ASSUME Typed, AtWork, CallProvider
    PROVE  /\ used' = used \cup {<<Here, eng.at>>} /\ Running
           /\ Here \in Target /\ (eng.stage = Plan <=> Here[2] = 0)
           /\ Here[1] = KindOf(eng.stage) /\ Here[2] = Now
           /\ eng.stage # Plan => Now \in eng.todo
<1>1. Running /\ used' = used \cup {<<Here, eng.at>>} /\ (eng.stage = Plan \/ eng.todo # {})
  BY DEF CallProvider, Running
<1> QED BY <1>1, HereType, NowTodo

\* Who is asked under which key.
Key(u) ==
    /\ u[2] \in DOMAIN attempts /\ attempts[u[2]].status = "started"
    /\ u[1][1] = KindOf(attempts[u[2]].stage)
    /\ attempts[u[2]].stage = Plan <=> u[1][2] = 0

LEMMA StepKeyed == ASSUME Typed, AtWork, Keyed, [Next]_vars PROVE Keyed'
<1> SUFFICES ASSUME NEW u \in used'
             PROVE  /\ u[2] \in DOMAIN attempts' /\ attempts'[u[2]].status = "started"
                    /\ u[1][1] = KindOf(attempts'[u[2]].stage)
                    /\ attempts'[u[2]].stage = Plan <=> u[1][2] = 0
  BY DEF Keyed
<1>1. u \in used => Key(u)
  BY DEF Keyed, Key
<1>2. CASE BeginAttempt
  <2>1. PICK n : Begins(n)
    BY <1>2, Begun
  <2> QED BY <1>1, <1>2, <2>1, BegunEngine, BeginKeeps DEF Key
<1>3. CASE EndStep
  BY <1>1, <1>3, Ending, EndedAttempts DEF Key, Settled
<1>4. CASE CallProvider
  <2>1. attempts' = attempts
    BY <1>4, QuietAttempts DEF QuietStep
  <2>2. CASE u = <<Here, eng.at>>
    <3>1. eng.at \in DOMAIN attempts /\ attempts[eng.at].status = "started" /\ attempts[eng.at].stage = eng.stage
      BY <1>4, NewKey DEF AtWork, Interrupted
    <3>2. u[1] = Here /\ u[2] = eng.at
      BY <2>2
    <3> QED BY <1>4, <2>1, <3>1, <3>2, NewKey
  <2>3. CASE u \in used
    BY <1>1, <2>1, <2>3 DEF Key
  <2> QED BY <1>4, <2>2, <2>3, NewKey
<1>5. CASE RowStep \/ TurnStep \/ HttpStep \/ UNCHANGED vars \/ (AskStep /\ ~CallProvider)
  <2>1. u \in used /\ attempts' = attempts
    BY <1>5, RowDone, Turned, AsIs, Posed
  <2> QED BY <1>1, <2>1 DEF Key
<1> QED BY <1>2, <1>3, <1>4, <1>5, FiveSteps DEF AskStep

\* The key of a picture is the one of an attempt for pictures.
LEMMA FrameKey ==
    ASSUME Typed, Keyed, NEW u \in used, u[1][1] = "frame"
    PROVE  u[2] \in Interrupted(Render) /\ u[1] = <<"frame", u[1][2]>>
<1>1. attempts[u[2]].stage \in Stage \ {Gate} /\ Key(u)
  BY AttemptsSeq DEF Keyed, Key, Attempt
<1>2. u[1] \in Target
  BY DEF Typed
<1> QED BY <1>1, <1>2 DEF Key, KindOf, Interrupted, Stage, Target

\* What is settled when an attempt of a redo ends, and when it is checkpointed.
LEMMA NothingWanted ==
    ASSUME Typed, Waiting, Wanted, eng.redo, NEW u \in used, u[1][1] = "frame",
           u[1][2] \in ask.ids, eng.pc = "ended"
    PROVE  FALSE
  BY DEF Waiting, Wanted, Running

LEMMA FrameOf ==
    ASSUME NEW u, NEW ids, u[1] \in Frames(ids)
    PROVE  u[1][1] = "frame" /\ u[1][2] \in ids
  BY DEF Frames

LEMMA StepWanted ==
    ASSUME Typed, AtWork, Early, Scoped, Waiting, Waiting', Frozen', Missing, Single, Keyed, Wanted,
           [Next]_vars, Typed'
    PROVE  Wanted'
<1> SUFFICES ASSUME NEW u \in used', u[1][1] = "frame"
             PROVE  /\ u[1][2] \in eng'.scope => \/ (Running' /\ eng'.stage = Render /\ u[2] = eng'.at)
                                                \/ (ask'.broken /\ eng'.redo /\ eng'.pc # "ended")
                    /\ Running' /\ eng'.stage = Render /\ u[2] # eng'.at /\ u[1][2] \in Ids'
                         => (u[1][2] \notin eng'.todo \/ SecondTry(u)')
                    /\ u[1][2] \in ask'.ids => eng'.redo \/ ask'.broken
  BY DEF Wanted
<1>0. u \in used => /\ u[1][2] \in eng.scope => \/ (Running /\ eng.stage = Render /\ u[2] = eng.at)
                                                \/ (ask.broken /\ eng.redo /\ eng.pc # "ended")
                    /\ Running /\ eng.stage = Render /\ u[2] # eng.at /\ u[1][2] \in Ids
                         => (u[1][2] \notin eng.todo \/ SecondTry(u))
                    /\ u[1][2] \in ask.ids => eng.redo \/ ask.broken
  BY DEF Wanted
<1>7. \A ids : u \in used /\ u[1][2] \in ids => u[1] \in Frames(ids)
  <2>1. u \in used => u[1] = <<"frame", u[1][2]>>
    BY FrameKey
  <2> QED BY <2>1 DEF Frames
<1>8. ask' = ask => (SecondTry(u)' <=> SecondTry(u))
  BY DEF SecondTry
<1>1. CASE BeginAttempt
  <2>1. PICK n : Begins(n)
    BY <1>1, Begun
  <2>2. /\ eng'.stage = eng.stage /\ ~Running /\ eng'.at = n /\ u \in used
        /\ eng'.scope = eng.scope /\ rows' = rows /\ eng'.redo = eng.redo /\ ask' = ask
        /\ eng'.todo = Pending(eng.stage, attempts'[n].rows) /\ eng'.pc = "stage"
    BY <1>1, <2>1, BegunEngine, BeginKeeps
  <2>3. u[1][2] \in eng.scope => ask.broken /\ eng.redo /\ SecondTry(u)
    <3>1. u[1][2] \in eng.scope => ask.broken /\ eng.redo
      BY <1>0, <2>2
    <3> QED BY <1>7, <2>2, <3>1 DEF Waiting, SecondTry
  <2>4. ASSUME eng.stage = Render, u[1][2] \in Ids, u[1][2] \in Pending(Render, attempts'[n].rows),
               u[1][2] \notin eng.scope
        PROVE  u[2] = n
    <3>1. attempts'[n].rows \in Board /\ n \in Interrupted(Render)'
      BY <2>1, <2>4 DEF Begins, Attempt, Interrupted
    <3>2. Behind(attempts'[n].rows, rows)
      BY <2>2, <3>1 DEF Frozen
    <3>3. ~Drawn
      BY <2>4, <3>1, <3>2, PendingPictures DEF Drawn
    <3>4. u[2] \in Interrupted(Render) /\ ~eng.redo
      BY <2>2, <3>3, FrameKey DEF Missing
    <3>5. n \in Interrupted(Render)
      BY <2>1, <2>4, <3>4 DEF Begins, Taken, Appended
    <3> QED BY <3>3, <3>4, <3>5 DEF Single, Stage
  <2> QED BY <1>0, <1>8, <2>2, <2>3, <2>4
<1>2. CASE EndStep
  <2>1. u \in used /\ u[2] # eng.at /\ (eng.redo => u[1] \notin Frames(ask.ids)) /\ Running
    BY <1>2, Ending DEF Settled
  <2>2. u[1][2] \notin eng.scope
    BY <1>0, <1>7, <2>1 DEF Waiting
  <2>3. NoAsk.ids = {}
    BY DEF NoAsk
  <2>4. ~Running'
    BY <1>2, EndedEngine DEF Running
  <2>5. u[1][2] \notin eng'.scope
    BY <1>2, <2>2, EndedEngine
  <2>6. u[1][2] \in ask'.ids => eng'.redo \/ ask'.broken
    BY <1>0, <1>2, <2>1, <2>3, EndedEngine
  <2> QED BY <2>4, <2>5, <2>6
<1>3. CASE AskStep
  <2>1. ~WritePlan => Ids' = Ids
    BY <1>3, Posed
  <2>2. WritePlan => eng'.stage # Render
    BY <1>3, Posed
  <2>5. ask' = ask /\ eng'.redo = eng.redo /\ eng'.pc # "ended" /\ Running /\ Running'
    BY <1>3, Posed DEF Running
  <2>3. CASE u \in used
    BY <1>0, <1>3, <1>8, <2>1, <2>2, <2>3, <2>5, Posed
  <2>4. CASE u \notin used
    <3>1. u = <<Here, eng.at>> /\ Here[1] = KindOf(eng.stage)
      BY <1>3, <2>4, Posed, NewKey
    <3>2. u[2] = eng.at /\ eng.stage = Render
      BY <3>1 DEF KindOf, Typed, Engine, Stage
    <3>3. u[1][2] \in ask.ids => eng.redo
      BY <2>5 DEF Waiting, Running
    <3> QED BY <1>3, <2>5, <3>2, <3>3, Posed
  <2> QED BY <2>3, <2>4
<1>4. CASE RowStep
  <2>1. Ids' \subseteq Ids
    <3>1. ~WritePlan
      BY <1>4, RowDone DEF WritePlan
    <3> QED BY <1>4, <3>1, StepRows DEF Others, RowStep, Next, EngineStep
  <2>2. eng'.pc \in {"stage", "made"} /\ Running /\ u \in used
    BY <1>4, RowDone DEF NextPc
  <2> QED BY <1>0, <1>4, <1>8, <2>1, <2>2, RowDone DEF Running
<1>5. CASE TurnStep
  <2>1. ~Running' /\ u \in used /\ (~Crash => ~Running)
    BY <1>5, Turned DEF Running
  <2>0. NoAsk.ids = {} /\ ask \in Wish /\ eng \in Engine
    BY DEF NoAsk, Typed
  <2>2. CASE SendBack
    <3>1. u[1][2] \notin eng.again /\ eng'.scope = eng.again /\ ask' = ask /\ ~eng.redo
      BY <1>7, <2>1, <2>2 DEF SendBack, Idle, Scoped, AtWork
    <3> QED BY <1>0, <2>1, <3>1
  <2>3. CASE RequestChanges
    <3>1. PICK ids : ask' = Asked(ids) /\ used' = {v \in used : v[1] \notin Frames(ids)}
      BY <2>3 DEF RequestChanges
    <3>2. u[1][2] \notin ids /\ ask'.ids = ids
      BY <1>7, <2>1, <3>1 DEF Asked
    <3>3. eng' = eng /\ eng.stage = Gate /\ ~eng.redo
      BY <2>3 DEF RequestChanges, Scoped
    <3>4. u[1][2] \notin eng.scope
      BY <1>0, <2>1, <3>3
    <3> QED BY <2>1, <3>2, <3>3, <3>4
  <2>4. CASE Redo
    <3>1. ask' = ask /\ eng'.scope = ask.ids /\ eng'.redo /\ eng'.pc = "loop" /\ ~eng.redo
      BY <2>0, <2>4 DEF Redo, Scoped, Engine
    <3> QED BY <1>0, <2>1, <3>1
  <2>5. CASE Crash
    <3>1. /\ eng'.scope = {} /\ ask'.ids = ask.ids
          /\ ask'.broken = (ask.broken \/ eng.redo)
      BY <2>0, <2>5 DEF Crash, Idle, Wish
    <3> QED BY <1>0, <2>1, <3>1
  <2>6. CASE SaveCheckpoint
    <3>1. /\ ask' = IF eng.redo THEN NoAsk ELSE ask
          /\ eng'.scope = {} \/ eng'.scope = eng.scope
          /\ eng.pc = "ended" /\ ~Running
      BY <1>5, <2>6, TurnedEngine DEF SaveCheckpoint, Idle, SendBack, Approve, Resume, RequestChanges,
         Redo, Crash, Running
    <3>2. u[1][2] \notin eng.scope
      BY <1>0, <2>1, <2>6, <3>1
    <3> QED BY <1>0, <2>0, <2>1, <3>1, <3>2
  <2>7. CASE Approve \/ Resume
    <3>3. Approve => /\ ask' = ask /\ eng'.scope = eng.scope /\ ~eng.redo /\ ~Running
      BY <2>0 DEF Approve, Scoped, Engine, Running
    <3>4. Resume => /\ ask' = ask /\ eng'.scope = {} /\ ~eng.redo /\ ~Running
      BY DEF Resume, Idle, Waiting, Running
    <3>1. ask' = ask /\ (eng'.scope = {} \/ eng'.scope = eng.scope) /\ ~eng.redo /\ ~Running
      BY <2>7, <3>3, <3>4
    <3>2. u[1][2] \notin eng.scope
      BY <1>0, <2>1, <2>7, <3>1
    <3> QED BY <1>0, <2>1, <3>1, <3>2
  <2> QED BY <1>5, <2>2, <2>3, <2>4, <2>5, <2>6, <2>7 DEF TurnStep, PersonStep
<1>6. CASE HttpStep \/ UNCHANGED vars
  <2>1. Ids' \subseteq Ids
    <3>1. ~WritePlan
      BY <1>6 DEF HttpStep, UpdateProject, UpdateShot, DeleteShot, Request, WritePlan, vars,
         ForgetFrozen, Typed, Engine
    <3> QED BY <1>6, <3>1, StepRows DEF Others, Next
  <2> QED BY <1>0, <1>6, <1>8, <2>1, AsIs DEF Running
<1> QED BY <1>1, <1>2, <1>3, <1>4, <1>5, <1>6, FiveSteps

-----------------------------------------------------------------------------
(* The stage's own writes *)

\* A write notes the revision it leaves the project at, if it changes it.
LEMMA WriteNotes ==
    ASSUME Typed, NEW i, NEW row, Write(i, row)
    PROVE  /\ mine' \subseteq mine \cup {i, 0}
           /\ \/ eng'.own = project'.rev /\ eng'.own # 0
              \/ /\ eng'.own = eng.own /\ project' = project
                 /\ mine' = mine \cup {i}
<1>1. eng \in Engine /\ DoneWith(i) \in Engine /\ DoneWith(i).own = eng.own
  BY DEF Typed, DoneWith, NextPc, Engine, Pc
<1>2. project.rev \in Nat /\ project \in Film
  BY DEF Typed, Film
<1>3. CASE MarksProject
  <2>1. project' = [project EXCEPT !.superseded = TRUE, !.rev = @ + 1]
    BY <1>3 DEF Write, MarkProject
  <2>2. project'.rev = project.rev + 1
    BY <1>2, <2>1 DEF Film
  <2>3. eng' = [DoneWith(i) EXCEPT !.own = project.rev + 1]
    BY <1>3 DEF Write, OwnNoted
  <2>4. eng'.own = project.rev + 1
    BY <1>1, <2>3 DEF Engine
  <2> QED BY <1>2, <2>2, <2>4 DEF Write
<1>4. CASE ~MarksProject
  <2>1. project' = project /\ mine' = mine \cup {i}
    BY <1>4 DEF Write, MarkProject
  <2>2. eng' = [DoneWith(i) EXCEPT !.own = DoneWith(i).own]
    BY <1>4 DEF Write
  <2>3. eng'.own = eng.own
    BY <1>1, <2>2 DEF Engine
  <2> QED BY <2>1, <2>3
<1> QED BY <1>3, <1>4

LEMMA StepOwn == ASSUME Typed, AtWork, Own, [Next]_vars PROVE Own'
<1>0. eng \in Engine
  BY DEF Typed
<1>1. CASE BeginAttempt
  BY <1>1, BeginKeeps DEF Own
<1>2. CASE EndStep
  BY <1>2, Ending DEF Own
<1>3. CASE AskStep
  BY <1>3, Posed DEF Own, Running
<1>4. CASE RowStep
  <2>1. /\ Running /\ Running' /\ eng'.stage = eng.stage /\ eng'.todo = eng.todo \ {Now}
        /\ Now \in Nat \ {0} /\ eng.todo \subseteq Nat
    BY <1>0, <1>4, RowDone DEF Running, NextPc, Engine
  <2>2. CASE WriteFrame \/ WriteClip
    <3>1. \E row : Write(Now, row)
      BY <2>2 DEF WriteFrame, WriteClip
    <3>2. /\ mine' \subseteq mine \cup {Now, 0}
          /\ \/ eng'.own = project'.rev /\ eng'.own # 0
             \/ /\ eng'.own = eng.own /\ project' = project
                /\ mine' = mine \cup {Now}
      BY <3>1, WriteNotes
    <3>3. 0 \notin eng.todo
      BY <1>4, RowDone, BoardFacts DEF AtWork, Engine, Typed
    <3> QED BY <2>1, <3>2, <3>3 DEF Own
  <2>3. CASE SkipClip \/ Judge \/ MarkUnchecked
    <3>1. mine' \subseteq mine \cup {Now} /\ project' = project
      BY <2>3 DEF SkipClip, Judge, MarkUnchecked, Marked, store
    <3>2. eng'.own = eng.own
      BY <1>0, <2>3 DEF SkipClip, Judge, MarkUnchecked, DoneWith, NextPc, Engine
    <3> QED BY <2>1, <3>1, <3>2 DEF Own
  <2> QED BY <1>4, <2>2, <2>3 DEF RowStep
<1>5. CASE TurnStep
  BY <1>5, Turned DEF Own, Running
<1>6. CASE HttpStep \/ UNCHANGED vars
  <2>1. 0 \in mine' => project' = project
    BY <1>6 DEF HttpStep, UpdateProject, UpdateShot, DeleteShot, vars
  <2> QED BY <1>6, <2>1, AsIs DEF Own, Running
<1> QED BY <1>1, <1>2, <1>3, <1>4, <1>5, <1>6, FiveSteps

-----------------------------------------------------------------------------
(* The theorems *)

\* While it waits for its answer, a request that was cut short stays so.
LEMMA TriesLast ==
    ASSUME Typed, AtWork, Scoped, Waiting, Wanted, [Next]_vars, NEW u \in used, SecondTry(u), u \in used'
    PROVE  SecondTry(u)'
<1>0. ask \in Wish /\ ask.broken /\ u[1] \in Frames(ask.ids)
  BY DEF SecondTry, Typed
<1>1. ASSUME ask' = ask PROVE SecondTry(u)'
  BY <1>0, <1>1 DEF SecondTry
<1>2. CASE Crash
  <2>1. ask' = [ask EXCEPT !.broken = ask.broken \/ eng.redo]
    BY <1>2 DEF Crash
  <2>2. ask'.ids = ask.ids /\ ask'.broken
    BY <1>0, <2>1 DEF Wish
  <2> QED BY <1>0, <2>2 DEF SecondTry
<1>3. CASE EndStep
  <2>1. ~eng.redo
    BY <1>0, <1>3, Ending DEF Settled
  <2> QED BY <1>1, <1>3, <2>1, EndedEngine
<1>4. CASE SaveCheckpoint
  <2>1. ~eng.redo
    BY <1>0, <1>4, FrameOf, NothingWanted DEF SaveCheckpoint
  <2> QED BY <1>1, <1>4, <2>1 DEF SaveCheckpoint, Answered
<1>5. CASE RequestChanges
  BY <1>0, <1>5 DEF RequestChanges, Waiting
<1>6. CASE SendBack \/ PersonStep \/ Redo
  BY <1>1, <1>6 DEF SendBack, PersonStep, Approve, Resume, Redo
<1>7. CASE BeginAttempt \/ AskStep \/ RowStep \/ HttpStep \/ UNCHANGED vars
  BY <1>1, <1>7, BeginKeeps, Posed, RowDone, AsIs
<1> QED BY <1>2, <1>3, <1>4, <1>5, <1>6, <1>7, FiveSteps DEF TurnStep

LEMMA StepOneKey ==
    ASSUME Typed, AtWork, Early, Scoped, Waiting, Single, Keyed, Wanted, OneKeyPerDemand,
           [Next]_vars, Typed'
    PROVE  OneKeyPerDemand'
<1> SUFFICES ASSUME NEW u \in used', NEW v \in used', u[1] = v[1], u[1][2] \in Ids' \cup {0}
             PROVE  u = v \/ SecondTry(u)'
  BY DEF OneKeyPerDemand
<1>1. ASSUME ~CallProvider PROVE u \in used /\ v \in used
  BY <1>1, FiveSteps, BeginKeeps, Ending, Posed, RowDone, Turned, AsIs
<1>2. CASE WritePlan
  <2>1. \A k \in used : k[1][2] = 0
    BY <1>2, PlanFirst DEF Keyed
  <2>2. u \in used /\ v \in used
    BY <1>2, Posed DEF AskStep, WritePlan, Served
  <2> QED BY <2>1, <2>2, TriesLast DEF OneKeyPerDemand
<1>3. CASE ~WritePlan /\ ~CallProvider
  <2>1. Ids' \subseteq Ids
    BY <1>3, StepRows DEF Others
  <2> QED BY <1>1, <1>3, <2>1, TriesLast DEF OneKeyPerDemand
<1>4. CASE CallProvider
  <2>1. Ids' = Ids /\ used' = used \cup {<<Here, eng.at>>} /\ ask' = ask
    BY <1>4, NewKey DEF CallProvider, store
  <2>6. \A k : SecondTry(k)' <=> SecondTry(k)
    BY <2>1 DEF SecondTry
  <2>2. ASSUME NEW k \in used, k[1] = Here, Here[2] \in Ids \cup {0}
        PROVE  k = <<Here, eng.at>> \/ SecondTry(k)
    <3>1. /\ attempts[k[2]].stage \in Stage \ {Gate} /\ k[2] \in DOMAIN attempts
          /\ attempts[k[2]].status = "started" /\ k[1][1] = KindOf(attempts[k[2]].stage)
      BY AttemptsSeq DEF Keyed, Attempt
    <3>2. Running /\ Here[1] = KindOf(eng.stage) /\ eng.at \in Interrupted(eng.stage)
      BY <1>4, NewKey DEF AtWork
    <3>3. eng.stage \in Stage \ {Gate}
      BY <3>2, AttemptsSeq DEF Interrupted, Attempt
    <3>4. attempts[k[2]].stage = eng.stage
      BY <2>2, <3>1, <3>2, <3>3 DEF KindOf, Stage
    <3>5. k[2] = eng.at \/ SecondTry(k)
      <4>1. CASE eng.stage = Render
        <5>1. k[1][1] = "frame" /\ Now \in eng.todo /\ k[1][2] = Now
          BY <1>4, <2>2, <3>2, <4>1, NewKey DEF KindOf
        <5>2. Now \in Ids
          BY <1>4, <2>2, <4>1, <5>1, NewKey
        <5> QED BY <3>2, <4>1, <5>1, <5>2 DEF Wanted
      <4>2. CASE eng.stage # Render
        <5>1. k[2] \in Interrupted(eng.stage)
          BY <3>1, <3>4 DEF Interrupted
        <5> QED BY <3>2, <3>3, <4>2, <5>1 DEF Single
      <4> QED BY <4>1, <4>2
    <3>6. k = <<k[1], k[2]>>
      BY DEF Typed
    <3> QED BY <2>2, <3>5, <3>6
  <2>3. CASE u \in used /\ v \in used
    BY <2>1, <2>3, <2>6 DEF OneKeyPerDemand
  <2>7. SecondTry(u) <=> SecondTry(v)
    BY DEF SecondTry
  <2>4. CASE u = <<Here, eng.at>>
    BY <2>1, <2>2, <2>4, <2>6, <2>7
  <2>5. CASE v = <<Here, eng.at>>
    BY <2>1, <2>2, <2>5, <2>6, <2>7
  <2> QED BY <2>1, <2>3, <2>4, <2>5
<1> QED BY <1>2, <1>3, <1>4

LEMMA InitInv == Init => IInv
<1> SUFFICES ASSUME Init PROVE IInv
  OBVIOUS
<1> DEFINE cell == [Blank EXCEPT !.frame = 1, !.clip = 1]
<1>1. cell \in Cell
  <2>1. Blank \in Cell
    BY DEF Blank, Cell, Verdict, NoPicture
  <2>2. 1 \in Nat
    OBVIOUS
  <2> HIDE DEF cell
  <2>3. cell = [Blank EXCEPT !.frame = 1, !.clip = 1]
    BY DEF cell
  <2> QED BY <2>1, <2>2, <2>3 DEF Cell
<1>2. PlanSize \in Nat
  BY SizeAssumption
<1>3. rows = <<>> \/ (rows = [i \in 1..PlanSize |-> cell])
  BY DEF Init
<1> HIDE DEF cell
<1>4. rows \in Board
  <2>1. CASE rows = <<>>
    BY <2>1, BoardFacts
  <2>2. CASE rows = [i \in 1..PlanSize |-> cell]
    <3>1. rows \in [1..PlanSize -> Cell] /\ 1..PlanSize \in SUBSET (Nat \ {0})
      BY <1>1, <1>2, <2>2
    <3> QED BY <3>1, BoardFacts
  <2> QED BY <1>3, <2>1, <2>2
<1>5. \E top \in Nat : Ids \subseteq 1..top
  <2>1. CASE rows = <<>>
    <3>1. DOMAIN rows = {}
      BY <2>1, EmptySeq
    <3> QED BY <1>2, <3>1
  <2>2. CASE rows = [i \in 1..PlanSize |-> cell]
    <3>1. DOMAIN rows = 1..PlanSize
      BY <2>2
    <3> QED BY <1>2, <3>1
  <2> QED BY <1>3, <2>1, <2>2
<1>6. project \in Film
  BY DEF Init, Film
<1>7. /\ attempts = <<>> /\ ck = 0 /\ tck = {} /\ used = {} /\ mine = {}
      /\ eng = [Idle EXCEPT !.pc = "loop"] /\ ask = NoAsk
  BY DEF Init
<1>8. /\ eng \in Engine /\ eng.pc = "loop" /\ eng.stage = Plan /\ eng.again = {} /\ eng.scope = {}
      /\ ~eng.redo
  BY <1>7, IdleType DEF Engine, Pc, Idle
<1>9. Typed
  <2>1. ask \in Wish
    BY <1>7 DEF NoAsk, Wish
  <2> QED BY <1>4, <1>5, <1>6, <1>7, <1>8, <2>1, EmptySeq DEF Typed
<1>14. Waiting
  BY <1>7, <1>8 DEF Waiting, NoAsk
<1>10. AtWork /\ Early /\ Scoped /\ Keyed /\ Wanted /\ Own /\ OneKeyPerDemand
  BY <1>7, <1>8 DEF AtWork, Early, Scoped, Keyed, Wanted, Own, OneKeyPerDemand, Running
<1>11. Missing
  BY <1>7, <1>8 DEF Missing, Running
<1>12. \A s : Interrupted(s) = {}
  BY <1>7 DEF Interrupted
<1>13. Frozen /\ Single
  BY <1>12 DEF Frozen, Single
<1> QED BY <1>9, <1>10, <1>11, <1>13, <1>14 DEF IInv

LEMMA StepInv == IInv /\ [Next]_vars => IInv'
<1> SUFFICES ASSUME IInv, [Next]_vars PROVE IInv'
  OBVIOUS
<1> USE DEF IInv
<1>1. Typed' /\ AtWork'
  BY StepTyped, StepAtWork
<1>2. Scoped' /\ Early' /\ Own' /\ Keyed' /\ Waiting'
  BY StepScoped, StepEarly, StepOwn, StepKeyed, StepWaiting
<1>3. Frozen'
  BY <1>1, StepFrozen
<1>4. Missing' /\ Wanted'
  BY <1>1, <1>2, <1>3, StepMissing, StepWanted
<1>5. Single' /\ OneKeyPerDemand'
  BY <1>1, StepSingle, StepOneKey
<1> QED BY <1>1, <1>2, <1>3, <1>4, <1>5

THEOREM Invariant == Spec => []IInv
  BY InitInv, StepInv, PTL DEF Spec

\* No picture of a shot, no review and no plan is asked for under two open keys:
\* a stage that is taken up again goes on with the key it had, whatever crashed
\* in between, and a forced redo asks only for what was taken out of the books.
\* The pictures of a redo that a crash cut short are the one exception, and only
\* until their request is answered.
THEOREM OneKey == Spec => []OneKeyPerDemand
  BY Invariant, PTL DEF IInv

\* A keyframe is saved over the very row it was drawn from.
THEOREM FrameKeepsEdits == Spec => FrameReplacesItsRow
<1>1. IInv /\ [Next]_vars => [\A i \in Ids : WriteFrame /\ i = Now => rows[i] = eng.frozen[i]]_vars
  <2> SUFFICES ASSUME IInv, NEW i \in Ids, WriteFrame, i = Now PROVE rows[i] = eng.frozen[i]
    OBVIOUS
  <2>1. Running /\ eng.stage = Render /\ rows[Now].rev = eng.frozen[Now].rev
    BY DEF WriteFrame, RowFits, Running
  <2>2. eng.at \in Interrupted(Render) /\ eng.frozen = attempts[eng.at].rows
    BY <2>1 DEF IInv, AtWork
  <2>3. Behind(eng.frozen, rows)
    BY <2>2 DEF IInv, Frozen
  <2> QED BY <2>1, <2>3 DEF Behind
<1> QED BY <1>1, Invariant, PTL DEF Spec, FrameReplacesItsRow

\* A stage that is refused was refused because of somebody else's write.
THEOREM OnlyOthersConflict == Spec => OwnWritesPass
<1>1. IInv /\ [Next]_vars
        => [Conflict => \/ eng.stage = Render /\ ~RowFits(Now) /\ Now \notin mine
                        \/ ~ProjectFits /\ 0 \notin mine]_vars
  <2> SUFFICES ASSUME IInv, Conflict
               PROVE  \/ eng.stage = Render /\ ~RowFits(Now) /\ Now \notin mine
                      \/ ~ProjectFits /\ 0 \notin mine
    OBVIOUS
  <2>1. Running
    BY DEF Conflict, Running
  <2>2. CASE ~ProjectFits
    <3>1. eng.own = project.rev /\ eng.own # 0 => ProjectFits
      BY DEF ProjectFits, Expected
    <3> QED BY <2>2, <3>1 DEF IInv, Own
  <2>3. CASE ProjectFits
    <3>1. eng.stage = Render /\ ~RowFits(Now) /\ eng.todo # {}
      BY <2>3 DEF Conflict, IInv, AtWork, Running
    <3>2. Now \in eng.todo
      BY <2>1, <3>1, NowTodo DEF IInv
    <3> QED BY <2>1, <3>1, <3>2 DEF IInv, Own
  <2> QED BY <2>2, <2>3
<1> QED BY <1>1, Invariant, PTL DEF Spec, OwnWritesPass

=============================================================================
