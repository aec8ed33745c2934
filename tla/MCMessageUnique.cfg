SPECIFICATION Spec
CONSTANTS
    m1 = m1
    m2 = m2
    m3 = m3
    m4 = m4
    p1 = p1
    p2 = p2
    undefined = undefined
    MsgIds <- MCMsgIds
    Peers <- MCPeers
    ShortIds <- MCShortIds
    Hash <- MCHash
    maxMap = 3
INVARIANTS
    TypeOK
    DataTableSound
    EvictionEnds
    FreshIdResolves
    PeerOfRightMessage
PROPERTIES
    ImplementsBook
