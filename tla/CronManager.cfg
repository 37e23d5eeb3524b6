CONSTANTS
    JobNames = {j1}
    MetaNames = {m1}
    ChildNames = {c1}
    ChildrenOf <- MCChildrenOf
    MaxClock = 2
    MaxHandlers = 3
    NoHandler = NoHandler
SPECIFICATION FairSpec
INVARIANT TypeOK
INVARIANT NameBindingIsLive
INVARIANT RecurringJobsStayArmed
PROPERTY NoFireAfterTombstone
PROPERTY DueEntriesFire
