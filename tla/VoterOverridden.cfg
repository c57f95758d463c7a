SPECIFICATION Spec
CONSTANTS
    Processors = {"stake"}
    Histories <- MCHistories
    IsChange <- ExtractorReads
    Statements <- StorerStatements
    FirstBatch <- ExtractorStart
    NextBatch <- ExtractorNext
    Parse <- ExtractorParse
    Upsert <- StorerUpsert
    TableKey <- StorerTableKey
    CommitGroup <- MCCommitGroup
    None = None
    MaxBatch = 2
    ChannelSize = 0
    MaxCrashes = 0
    Objects = {x1}
    Owners = {alice, bob}
    Pools = {"p1"}
    Delegators = {"d1"}
    Voters = {"w1"}
    Cycles = {1, 2}
    Accounts = {a1}
    CoinTypes = {"c1", "c2", "c3"}
    LongCoins = {"c3"}
    StaticCoins = {"c2"}
    MigratedCoins = {"c1"}
    ShortAddresses <- MCShortAddresses
    Holders = {"h1", "h2"}
    V1Tokens = {"t1"}
    Nfts = {"n1"}
    Names <- MCNames
    Registrants = {"r1"}
    Senders = {"s1"}
    Delegates = {"s2"}
    PublicKeys = {"k1", "k2"}
INVARIANT NewDataNotOverridden
