CONSTANTS
    Calls = {c1, c2}
    Owners = {svc}
    Members <- TwoAccounts
    FailIfHeld = {}
    StrictDefs = {}
    Requests <- PairRequests
SPECIFICATION Spec
PROPERTIES ReentrantMeansInUse
