----------------------------- MODULE MCWorkflow -----------------------------
EXTENDS Workflow

\* One frame shows every character, the others none: a redrawn character takes
\* the first with it and leaves the others.
MCCast == [s \in Shots |-> IF s = "s1" THEN Characters ELSE {}]
=============================================================================
