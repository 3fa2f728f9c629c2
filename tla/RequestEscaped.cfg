\* Does a match capture every parameter of its route?
CONSTANTS
    Declarations <- AppDeclarations
    Targets <- ClientTargets
    Values <- HandlerValues
    Height <- Depth
    Requests = {r1}
    MaxRoutes = 1
SPECIFICATION Spec
INVARIANT
    SpecParamsCaptured
CHECK_DEADLOCK FALSE
