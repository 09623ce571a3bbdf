CONSTANTS
    Counters = {t0, t1}
    TCOUNT = 4
    COUNT_THRES = 6
    Threads = {foo, bar, baz}
    Limit = 4
SPECIFICATION SamplesSpec
INVARIANTS
    NoLostSignal
    SamplesSound
    ItemsKept
PROPERTIES
    AllEnd
