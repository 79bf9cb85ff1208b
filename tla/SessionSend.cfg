SPECIFICATION FairSpec
CONSTANTS
    Threads = {t1, t2, t3}
    Msgs = {m1, m2, m3}
    NoMsg = NoMsg
    SendMayFail = TRUE
INVARIANTS
    OneSender
    BuffersOutliveSend
    FlagHasHolder
PROPERTIES
    ImplementsChannel
    ElectedSenderDrains
CHECK_DEADLOCK FALSE
