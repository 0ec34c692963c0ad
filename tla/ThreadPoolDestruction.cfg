SPECIFICATION FairSpec
CONSTANTS
    p1 = p1
    p2 = p2
    job1 = job1
    job2 = job2
    job3 = job3
    job4 = job4
    NoTask = NoTask
    Sizes = {1}
    Tasks = {job1, job2}
    Callers = {p1}
    TasksOf <- OneCaller
    WithAfter = {}
    Waited = {}
    Joining = {p1}
    MaxWakes = 0
PROPERTY
    DestructionEnds
CHECK_DEADLOCK FALSE
