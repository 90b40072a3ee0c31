SPECIFICATION TimersSpec
CONSTANTS
    spoke_bits_ = 1
    res_bits_ = 1
    LongBits = 8
    IntBits = 8
    Tasks = {t1, t2, t3}
    Delays = {0, 1, 3}
    max_wait_time = 2
    MaxClock = 4
    Seconds <- MCSeconds
    Micros <- MCMicros
    Millis <- MCMillis
    MaxOps = 3
SYMMETRY TaskSymmetry
INVARIANTS WheelSound StaysSilent LateBound TimesExact
PROPERTIES FiresAsPromised
