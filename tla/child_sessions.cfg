SPECIFICATION Spec
CONSTANTS
    o1 = o1
    o2 = o2
    Ops = {o1, o2}
    MaxWork = 2
    MaxOthers = 1
    MaxCrashes = 1
    Scenes <- MCScenes
SYMMETRY OpSymmetry
INVARIANTS
    ProvenIsWhatLands
    WorkSurvives
PROPERTY
    OnlyTheReadyLand
CHECK_DEADLOCK FALSE
