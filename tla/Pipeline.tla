------------------------------ MODULE Pipeline ------------------------------
(***************************************************************************)
(* What a run promises to the user who started it, whatever happens to the *)
(* processes that serve it: the stages stand in their order, one at a      *)
(* time; the only way back is a review that sends work back to the stage   *)
(* that drew it; and only a run with all its stages standing is a success. *)
(* A full run has every stage, one that composes the clips again only the  *)
(* last two, and a targeted run, which redraws a few artifacts, none.      *)
(***************************************************************************)
EXTENDS Naturals

CONSTANTS LastStage,      \* a number: stages are 1..LastStage, in STAGE_ORDER
          ReviewedStages  \* those whose output a review may send back

VARIABLES done,           \* the stages that stand
          outcome,
          first           \* the run's first stage; past the last one if it has none

vars == <<done, outcome, first>>

Stages == 1..LastStage
Own == {t \in Stages : first <= t}
Outcomes == {"active", "succeeded", "failed", "cancelled"}

Init ==
    /\ done = {}
    /\ outcome = "active"
    /\ first \in 1..LastStage + 1

\* A stage comes to stand only on all the run's stages before it.
Advance(s) ==
    /\ outcome = "active" /\ s \in Own
    /\ done = {t \in Own : t < s}
    /\ done' = done \cup {s}
    /\ UNCHANGED <<outcome, first>>

\* The stage and everything after it has to be done again.
SendBack(s) ==
    /\ outcome = "active" /\ s \in done
    /\ done' = {t \in done : t < s}
    /\ UNCHANGED <<outcome, first>>

\* A failed run with nothing left to do succeeds as it is taken up again.
Succeed ==
    /\ outcome \in {"active", "failed"} /\ done = Own
    /\ outcome' = "succeeded"
    /\ UNCHANGED <<done, first>>

GiveUp ==
    /\ outcome \in {"active", "failed"}
    /\ outcome' \in {"failed", "cancelled"}
    /\ UNCHANGED <<done, first>>

\* A failed run is taken up again where it stood.
Resume ==
    /\ outcome = "failed" /\ outcome' = "active"
    /\ UNCHANGED <<done, first>>

Next ==
    \/ \E s \in Stages : Advance(s)
    \/ \E s \in ReviewedStages : SendBack(s)
    \/ Succeed \/ GiveUp \/ Resume

Spec == Init /\ [][Next]_vars

=============================================================================
