SPECIFICATION Spec
CONSTANTS
    og = og
    c = c
    cg = cg
    b = b
    bq = bq
    bf = bf
    d = d
    z = z
    d1 = d1
    d2 = d2
    Procs <- BetaProcs
    Operator <- BetaOperator
    Kind <- KindOf
    After <- AfterOf
    Mode <- ModeOf
    Launch <- AllLaunches
    Docs <- MCDocs
    PrivateDocs <- MCPrivate
    Absent = Absent
    Killable <- BetaKillable
    MaxEvents = 1
INVARIANTS StatusAgreesWithReport SuccessNeedsNested FreezeIsBacked
CHECK_DEADLOCK FALSE
