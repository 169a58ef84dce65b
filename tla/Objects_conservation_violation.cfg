SPECIFICATION Spec
CONSTANTS
    coin = coin
    coin2 = coin2
    spend = spend
    block = block
    junk = junk
    coinId = coinId
    spendId = spendId
    blockId = blockId
    alice = alice
    bob = bob
    Id = {coinId, spendId, blockId}
    Text = {coin, coin2, spend, block, junk}
    ObjectId <- MCObjectId
    NoId = NoId
    None = None
    Session = {s1, s2}
    NoTx = NoTx
    Missing = Missing
    Failed = Failed
    Malformed = Malformed
    Key = {alice, bob}
    Parsed <- MCParsed
    Candidates <- MCCandidates
INVARIANT
    ConservesValue
