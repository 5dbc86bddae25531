SPECIFICATION Spec
CONSTANTS
    Openers = {o1, o2}
    Keys = {k1, k2}
    NoKey = NoKey
    Free = Free
    Left = Left
    SlotCount = 2
    OddModes = TRUE
    MaxCrashes = 2
    MaxFaults = 2
    MaxLosses = 1
SYMMETRY OpenerSymmetry
INVARIANTS Reopens CorruptedMeansDamage StagesHeld ReadyIsPrivate
PROPERTIES ForeignUntouched RefinesStore
