SPECIFICATION Spec
CONSTANTS
    None = None
    bridge = bridge
    pool = pool
    alice = alice
    bob = bob
    carol = carol
    usdc = usdc
    e1 = e1
    e2 = e2
    g1 = g1
    g2 = g2
    Events <- Chain
    Addresses = {bridge, pool, alice, bob, carol}
    Assets = {usdc}
    Evms = {e1, e2}
    Sentinel = sentinel
    LzSender <- Senders
    BridgeModule = bridge
    propagate_evm_sources = TRUE
    MaxRetries = 2
    MaxBatch = 2
    MaxStarts = 2
CHECK_DEADLOCK FALSE
INVARIANTS
    FundMatchesInflows
