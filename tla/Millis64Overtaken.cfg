SPECIFICATION Spec
CONSTANTS
    None = None
    Threads = {main, task}
    Range = 16
    Window = 4
    Builds = {"no_atomics"}
    MaxLag = 2
    MaxTime = 36
INVARIANTS CountedOnce
