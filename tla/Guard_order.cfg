CONSTANTS
    Keys = {k1, k2}
    Sessions = {s1, s2, s3}
    Absent = Absent
SPECIFICATION GuardSpec
SYMMETRY Symmetry
INVARIANTS RejectedOnlyIfSuperseded
PROPERTIES WritesInLeaseOrder
