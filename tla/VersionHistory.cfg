SPECIFICATION Spec
CONSTANTS
    t1 = t1
    t2 = t2
    a = a
    b = b
    NoText = NoText
    Tabs = {t1, t2}
    Texts = {a, b}
    Complete = {a}
    MaxChanges = 4
SYMMETRY Symmetry
INVARIANTS DrawnOverIsKept
PROPERTIES FormReplacesWhatItShowed
