\* Two callers; a unit of time is 15 s, so margin and timeout are 30 s, and the
\* server grants no stated lifetime, less than the margin, or more.
SPECIFICATION FairSpec
CONSTANTS
    Callers = {g1, g2}
    None = None
    Margin = 2
    Timeout = 2
    DefaultLife = 4
    Lifetimes <- MCLifetimes
    MaxTime = 5
INVARIANTS CacheExclusive TokenInv
PROPERTIES HitsAreValid NoWastedFetch EveryCallReturns
