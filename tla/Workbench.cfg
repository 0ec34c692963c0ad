SPECIFICATION Spec
CONSTANTS
    main = main
    pair = pair
    wrong = wrong
    filter = filter
    x = x
    y = y
    NoTensor = NoTensor
    NoFilter = NoFilter
    Programs = {main, pair, wrong, filter}
    Inputs <- MCInputs
    Code <- MCCode
    Outputs <- MCOutputs
    Filters = {filter}
    Tensors = {x, y}
    Shapeless = {NoTensor}
    Hooks <- MCHooks
    Left <- MCLeft
    MaxRuns = 2
INVARIANTS
    HookedAreDenoted
PROPERTIES
    CallersTensorsKept
    ReturnsDenoted
