SPECIFICATION Spec
CONSTANTS
    t1 = t1
    t2 = t2
    r1 = r1
    r2 = r2
    b1 = b1
    b2 = b2
    k1 = k1
    None = None
    Blank = Blank
    Tabs = {t1, t2}
    FullRuns = {r1}
    TargetedRuns = {r2}
    Bases = {b1, b2}
    DefaultBase = b1
    Secrets = {k1}
    MaxEdits = 2
SYMMETRY Symmetry
INVARIANT BothSeeTheSame
PROPERTIES AdmittedCanPay KeepsItsProvider
