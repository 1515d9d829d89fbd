\* Two contexts sharing two allocations, two paging operations and two
\* command buffers per context: the safety properties.
CONSTANTS
    c1 = c1
    c2 = c2
    x1 = x1
    x2 = x2
    Contexts = {c1, c2}
    Allocs = {x1, x2}
    MaxPaging = 2
    MaxSubmits = 2
SPECIFICATION Spec
INVARIANTS
    TypeOK
    FenceCoherent
PROPERTIES
    CompletionDrainsContext
    ResidencyRespected
