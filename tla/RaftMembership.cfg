SPECIFICATION FairSpec
CONSTANTS
    Nodes = {1, 2, 3, 4}
    InitialVoters <- TwoVoters
    Requests <- ReplaceTwo
    Blank = {3}
    MaxEntries = 2
INVARIANTS MembersShareGenesis
PROPERTIES RetainsMembers JointEnds
