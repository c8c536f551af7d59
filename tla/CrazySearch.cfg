SPECIFICATION Spec
CONSTANTS
    Trits = 3
    Jobs <- MCJobs
INVARIANTS PlansReplay EachWordOnce ShortestFirst NotFoundIsTrue RouteReachesTarget SummaryIsTrue
