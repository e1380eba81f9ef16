SPECIFICATION LiveSpec
CONSTANTS
    f1 = f1
    f2 = f2
    NoFile = NoFile
    Files = {f1, f2}
    Kinds = {"text", "image", "task", "doubao", "film"}
    MaxRetries = 1
    MaxPollFailures = 2
    MaxCopies = 2
    MaxPolls = 2
    MaxRuns = 2
    MaxKills = 1
    MaxBoots = 1
INVARIANTS UnregisteredOnlyByKill MentionsResolve
PROPERTIES AbortIsSilent AbortEnds
