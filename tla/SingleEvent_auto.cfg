SPECIFICATION FairSpec
CONSTANTS
    Waiters = {a, b}
    m_bManualReset = FALSE
    bInitialState = FALSE
PROPERTY WaitEndsWhenSignalled
