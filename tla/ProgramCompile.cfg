SPECIFICATION CompileSpec
CONSTANTS
    x = x
    c = c
    w = w
    i = i
    v = v
    f = f
    g = g
    h = h
    u = u
    Originals = {x, c, w, i, v, f, g, h, u}
    Graphs <- Graph0
    Modules <- AllModules
    Arm = TRUE
    HalfOps = {"half", "conv2d", "batch_norm", "cast", "to_float"}
    DeviceOps = {"conv2d"}
    Supported = {"run", "half", "conv2d", "conv2d_v2", "conv2d_winograd", "inner_prod", "gemm", "mul", "add", "cast", "to_float", "batch_norm"}
INVARIANTS
    SameMeaning
    CompilesAGraph
    StaysShared
    PrecisionsMatch
    Inductive
