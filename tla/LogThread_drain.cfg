SPECIFICATION ThreadsSpec
CONSTANTS
    Threads = {t1, t2, t3, t4}
    Clocks <- MCClocks
    Timeouts <- MCTimeouts
    p1 = p1
    c1 = c1
    c2 = c2
    Callers = {u1, u2}
    Workers = {w1, w2}
    Owner = u1
    Alarms = {a1, a2, a3}
    NoAlarm = NoAlarm
    Seconds = {0, 1, 3}
    MaxTime = 5
    stages = 3
    MaxStarts = 4
    ITERATIONS = 3
    m_nRollVolumes = 3
    m_nVolumeSize = 2
    Sizes = {1, 2}
    MaxMessages = 5
    MaxRestarts = 2
    Loggers = {p, q}
    LineLengths = {3, 7}
    m_nBufferSize = 4
    queue_size = 2
    MaxCalls = 2
INVARIANT CloseDrains
