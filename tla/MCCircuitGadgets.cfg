SPECIFICATION CallSpec
CONSTANTS
    P = 127
    LimbWidth = 2
    NLimbs = 2
    Operands <- MCOperands
    Moduli <- MCModuli
    Words <- MCWords
    ExpBits = {1, 3, 4, 8, 33}
    Squarings = {1, 3}
    Text <- MCText
    ChunkLens = {0, 1, 8, 56, 63, 65}
    Buffers <- MCBuffers
    Midstates = {0, 1}
    CompressInputs = {"empty", "second"}
    BlockOf <- MCBlockOf
    StateOf <- MCStateOf
    ByteBits = 2
    NumBitsTried = {1, 3, 4}
    Entries = {0, 1, 3, 6}
    Tokens <- MCTokens
    TokenRequests <- MCTokenRequests
    BufferLen = 128
    MaxPayload = 60
    MaxClaim = 4
    Leaves <- MCLeaves
    PackWidth = 2
    HostConfigs <- MCHostConfigs
    Identities <- MCIdentities
    ListSizes = {1, 2}
    BatchSizes = {1, 2}
    Systems <- MCSystems
INVARIANTS
    ChainsCompareNumbers
    ChecksStayInField
    OperationSound
    HonestProverSucceeds
    DigestIsOfTheMessage
    PadVerifierExact
    SidesCompressAlike
    CompressionIsSha256
    GatesMeanArithmetic
    AcceptedMeansSigned
    HonestAccepted
    AudienceListsAgree
    WellSizedBatchesServed
    SolvesExactly
CHECK_DEADLOCK FALSE
