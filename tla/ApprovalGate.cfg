SPECIFICATION LiveSpec
CONSTANTS
    f1 = f1
    f2 = f2
    NoFeedback = NoFeedback
    Feedbacks = {f1, f2}
    LastGate = 2
    MaxVersions = 2
CHECK_DEADLOCK FALSE
INVARIANTS ApprovalOfStandingVersion AnsweredOnce AwaitingMatchesRunner
PROPERTIES FeedbackResolves ApprovalTakesEffect
