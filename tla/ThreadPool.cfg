SPECIFICATION FairSpec
CONSTANTS
    p1 = p1
    p2 = p2
    job1 = job1
    job2 = job2
    job3 = job3
    job4 = job4
    NoTask = NoTask
    Sizes = {0, 2}
    Tasks = {job1, job2, job3, job4}
    Callers = {p1, p2}
    TasksOf <- TwoCallers
    WithAfter = {job2, job3}
    Waited = {job1}
    Joining = {p1}
    MaxWakes = 1
INVARIANTS
    CoresConserved
    WaitedAreDone
    DestroyedIsSettled
PROPERTIES
    NoTaskReplaced
    RunsEachTask
    CallersFinish
CHECK_DEADLOCK FALSE
