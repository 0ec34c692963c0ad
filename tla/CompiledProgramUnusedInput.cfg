SPECIFICATION Spec
CONSTANTS
    a = a
    b = b
    c = c
    f = f
    g = g
    h = h
    u = u
    Garbage = Garbage
    Parameters = {a, b}
    Consts = {c}
    Operators = {f, g, h, u}
    Supported = {f, g, h}
    Graphs <- UnusedInputGraphs
INVARIANTS
    OutputCountExpected
