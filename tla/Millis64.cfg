SPECIFICATION Spec
CONSTANTS
    None = None
    Threads = {main, task}
    Range = 16
    Window = 4
    Builds = {"single", "no_atomics", "atomics"}
    MaxLag = 2
    MaxTime = 36
INVARIANTS TypeOK CountedOnceUnlessOvertaken
PROPERTIES AnswersAreExact
