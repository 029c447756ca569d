CONSTANTS
    Slots = {s1, s2}
    Ctx = {1, 2, 3}
    Documents <- Docs
    Patches <- AllPatches
    MergePatches <- AllMerges
    Policies = {"FIRST", "LAST", "ERROR"}
    MaxKids = 2
    MaxNodes = 5
    Starves = TRUE
SPECIFICATION Spec
CONSTRAINT Small
VIEW MCView
SYMMETRY MCSymmetry
INVARIANTS MembersDiffer HeldIsLive ValuesAreApart
PROPERTIES PatchFollowsRfc MergePatchFollowsRfc
CHECK_DEADLOCK FALSE
