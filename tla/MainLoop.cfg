SPECIFICATION FairSpec
CONSTANTS
    p1 = p1
    t1 = t1
    t2 = t2
    Producers = {p1}
    Timers = {t1, t2}
    Delays = {0, 1}
    Platforms = {"esp32", "bk72xx", "esp8266", "rp2"}
    LoopInterval = 2
    MaxSets = 2
INVARIANTS TypeOK NeverOversleeps
PROPERTIES WakeIsEnough TimersComeUp
