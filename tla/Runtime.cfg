CONSTANTS
    Calls = {c1, c2}
    Owners = {svc, job}
    Members <- TransferMembers
    FailIfHeld = {"flag"}
    StrictDefs = {}
    Requests <- TransferRequests
SPECIFICATION Spec
SYMMETRY Symmetry
INVARIANTS ActiveCountExact AllOrNothing NilMeansHeld NoMutualRefusal GuardsProtect DrainedMeansReleased
