SPECIFICATION FairSpec
CONSTANTS
    Jobs = {j1}
    Graphs = {g1}
    Futures = {f1, f2}
    Workers = {w1, w2}
    Clients = {c1, c2}
    None = None
INVARIANTS
    RunningIsLive
    SettledOutcome
    OneOutcomePerRun
    CompletedRunsLogged
PROPERTIES
    DeletedStaysSilent
    ImplementsLedger
    SubmittedSettles
    RunningEnds
