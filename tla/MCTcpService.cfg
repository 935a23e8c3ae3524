SPECIFICATION FairSpec
CONSTANTS
    Workers = {w1, w2}
    Main = Main
    Session = {s1, s2, s3}
    NoSession = NoSession
    Types <- AllTypes
    MaxSessionCount = 2
    Failures <- AllFailures
CHECK_DEADLOCK FALSE
INVARIANTS
    TypeOK
    SetsAgree
    IteratorValid
    ConnectedIsKnown
    EventsKept
PROPERTIES
    Rearmed
