SPECIFICATION TimerSpec
CONSTANTS
    spoke_bits_ = 1
    res_bits_ = 1
    LongBits = 8
    IntBits = 3
    Tasks = {t1, t2, t3, t4, t5}
    Delays = {1, 3}
    max_wait_time = 2
    MaxClock = 1
INVARIANT IdsApart
