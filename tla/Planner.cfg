CONSTANTS
    Families = {"duels", "pairs", "bands", "vacancies", "roles", "rosters"}
    Snapshots <- MCSnapshots

SPECIFICATION Spec

INVARIANTS
    BatchValid
    SelectionOptimal
    SolosOnFrontier
    OldestServed
    TruncationHonest
    BestMatchFound
    WindowAgrees

CHECK_DEADLOCK FALSE
