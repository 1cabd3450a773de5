SPECIFICATION CollectionsSpec
CONSTANTS
    e1 = e1
    e2 = e2
    Sets = {1}
    SetNames = {"n1"}
    SeriesIds = {"s1", "s2", "s3", "s4"}
    Lists <- PairLists
    Edits <- PairEdits
    MinMembers = 2
    MaxMembers = 2
    SetEditors = {e1, e2}
SYMMETRY EditorSymmetry
INVARIANTS
    MembersAreOneList
CHECK_DEADLOCK FALSE
