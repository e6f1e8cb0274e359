\* Two orders, two of the agent's processes, one poll of a dead connection, every
\* network error.
SPECIFICATION FairSpec
CONSTANTS
    Job = {j1, j2}
    Helper = {h1, h2}
    MaxJobs = 2
    MaxPolls = 1
    Errors = {"timeout", "connect", "dropped"}
INVARIANT TypeOK
PROPERTIES
    UnclaimedNeverRuns
    IsOrderChannel
    EveryRequestEnds
