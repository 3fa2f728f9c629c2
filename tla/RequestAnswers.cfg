\* Applications of up to two routes, a request and what its handler returns.
CONSTANTS
    Declarations <- AppDeclarations
    Targets <- ClientTargets
    Values <- HandlerValues
    Height <- Depth
    Requests = {r1}
    MaxRoutes = 2
SPECIFICATION Spec
INVARIANTS
    TypeOK
    CalledAsDeclared
    AnswerAsDeclared
    BodyMeansValue
CHECK_DEADLOCK FALSE
