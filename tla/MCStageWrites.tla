--------------------------- MODULE MCStageWrites ---------------------------
EXTENDS StageWrites

\* A picture that passes, and one with a reported issue and no checks, asked twice.
MCReplies == {[score |-> "high", checks |-> "held", issues |-> FALSE],
              [score |-> "high", checks |-> "absent", issues |-> TRUE]}
=============================================================================
