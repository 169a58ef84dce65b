SPECIFICATION PayloadSpec
CONSTANTS
    coin = coin
    coin2 = coin2
    spend = spend
    block = block
    junk = junk
    coinId = coinId
    spendId = spendId
    blockId = blockId
    alice = alice
    bob = bob
    Id = {coinId, spendId, blockId}
    Text = {coin, coin2, spend, block, junk}
    ObjectId <- MCObjectId
    NoId = NoId
    None = None
    Session = {s1, s2}
    NoTx = NoTx
    Missing = Missing
    Failed = Failed
    Malformed = Malformed
    Key = {alice, bob}
    Parsed <- MCParsed
    Candidates <- MCCandidates
    RECV_BUFFER_LIMIT = 3
    Sizes <- SizesAroundLimit
    Addresses <- ShortTexts
    Alphabet <- MCAlphabet
    Written <- MCWritten
INVARIANTS
    StoreInv
    AcceptsOnlyOwned
    AcceptsExactly
    DiscoveryRoundTrips
    IdNamesMeaning
    SignatureCoversRest
    AcceptedIsDurable
    PlainHostsReadBack
PROPERTIES
    ImplementsBlobStore
    ValidStaysValid
\* Every frame is read once.
CHECK_DEADLOCK FALSE
