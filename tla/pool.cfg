SPECIFICATION FairSpec
CONSTANTS
    Worker = {w1, w2}
    Handler = {h1}
    MaxThreads = 2
    MaxPoolSize = 2
    MaxUpserts = 1
    None = None
INVARIANTS TypeOK NobodyStuck NeverShort
PROPERTY EveryoneReturns
