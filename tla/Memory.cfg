CONSTANTS
    order = order  item = item  sku = sku  user = user  pay = pay
    s1 = s1  s2 = s2  s3 = s3
    Keys = {order, item, sku, user, pay}
    Ancestors <- Chain
    StrictKeys = {pay}
    Sessions = {s1, s2, s3}
    Owners = {s1, s2, s3}
    Owner <- OwnIdentity
    Method <- Callers
    Ttl = 2
    Lag = 1
    MaxClock = 5
SPECIFICATION Spec
INVARIANTS MutualExclusion MembershipConsistent
PROPERTIES GrantRespectsLineage OnlyHolder ImplementsFencedLock
