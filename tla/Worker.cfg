CONSTANTS
    Claims = {c1, c2}
    Procs = {p1, p2}
    Members <- BothMembers
    StrictDefs = {}
    Deliveries <- TwoDeliveries
    NoKey = "none"
SPECIFICATION Spec
SYMMETRY Symmetry
INVARIANTS SlotExclusive CompletedMeansProcessed AckMeansDone RenewsOnlyItsOwn NothingLeftBehind
