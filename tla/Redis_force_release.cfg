CONSTANTS
    order = order  item = item  sku = sku  pay = pay
    s1 = s1  s2 = s2  s3 = s3  team = team
    Keys = {pay}
    Ancestors <- Chain
    StrictKeys = {pay}
    ForceKeys = {pay}
    Sessions = {s1, s2, s3}
    Asks <- Work
    Owners = {s1, s2, s3, team}
    Owner <- Identity
    Method <- Callers
    Offset <- OneAhead
    Ttl = 2
    Lag = 1
    MaxClock = 6
SPECIFICATION Spec
SYMMETRY Symmetry
PROPERTIES TokensIncrease
