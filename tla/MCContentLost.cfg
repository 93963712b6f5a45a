SPECIFICATION Spec
CONSTANTS
    Bodies = {b1, b2}
    b1 = b1
    b2 = b2
    Hashes = {h1, h2}
    h1 = h1
    h2 = h2
    Attached <- AttachedDef
    Inlined <- InlinedDef
    Jobs = {j1, j2}
    p1 = p1
    p2 = p2
    Idle = Idle
    MaxFaults = 1
    TemplateIds = {t1, t2}
    Packs = {p1, p2}
    Nothing = Nothing
    PromoteAt = 1
CONSTRAINT Moving
CHECK_DEADLOCK FALSE
INVARIANTS NamedIsThere
