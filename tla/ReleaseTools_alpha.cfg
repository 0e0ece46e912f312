SPECIFICATION FairSpec
CONSTANTS
    og = og
    c = c
    cg = cg
    b = b
    bq = bq
    bf = bf
    d = d
    z = z
    d1 = d1
    d2 = d2
    Procs <- AlphaProcs
    Operator <- AlphaOperator
    Kind <- KindOf
    After <- AfterOf
    Mode <- ModeOf
    Launch <- AllLaunches
    Docs <- MCDocs
    PrivateDocs <- MCPrivate
    Absent = Absent
    Killable <- AlphaProcs
    MaxEvents = 1
INVARIANTS PrivateStaysLocal GatesExclusive
PROPERTIES SuccessIsPublished EveryRunEnds
CHECK_DEADLOCK FALSE
