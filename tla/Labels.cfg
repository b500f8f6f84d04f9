SPECIFICATION FairSpec
CONSTANTS
    Labels = {A, B}
    Letters = {"a", "b"}
    MaxName = 1
    None = None
    Unborn = Unborn
    Gone = Gone
    Root = Root
    FlatSets = {{}, {B}}
    MaxChanges = 3
    MaxFaults = 1
INVARIANT LabelsMirrored
PROPERTIES
    LabelsSettle
CHECK_DEADLOCK FALSE
