SPECIFICATION Spec
CONSTANTS
    Nothing = Nothing
    p1 = p1
    p2 = p2
    k1 = k1
    k2 = k2
    k3 = k3
    w1 = w1
    w2 = w2
    Procs = {p1, p2}
    Dirs = {d1, d2}
    RootKeys = {k1, k2, k3}
    Phrases = {w1, w2}
    Texts <- MCTexts
    MaxFrame = 2
SYMMETRY AnyKeys

PROPERTY KeyNotReplaced
