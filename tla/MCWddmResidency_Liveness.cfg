\* Two contexts sharing two allocations, two paging operations and one
\* command buffer per context: every call returns.
CONSTANTS
    c1 = c1
    c2 = c2
    x1 = x1
    x2 = x2
    Contexts = {c1, c2}
    Allocs = {x1, x2}
    MaxPaging = 2
    MaxSubmits = 1
SPECIFICATION FairSpec
PROPERTIES
    CallsReturn
