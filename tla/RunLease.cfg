SPECIFICATION Spec
CONSTANTS
    e1 = e1
    e2 = e2
    q1 = q1
    q2 = q2
    NoEngine = NoEngine
    Engines = {e1, e2}
    Requests = {q1, q2}
    MaxAttempts = 2
SYMMETRY Symmetry
INVARIANTS CancelledOnlyOnRequest NoLeakedLease AbandonedNeverOwns
PROPERTIES NoSuccessAfterCancel NoLeaseAfterCancel
