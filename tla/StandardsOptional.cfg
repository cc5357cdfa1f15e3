SPECIFICATION Spec
CONSTANTS
    NoType = NoType
    Absent = NoType
    EOC = 0
    ChunkTag = 4
    Types <- MCTypes
    Schema <- MCSchema
    Tags <- MCTags
    Plain <- MCPlain
    AnyTokens <- MCAnyTokens
    Roots <- MCRoots
    MaxDepth = 128
    Rules = {"DER"}
    MaxChoices = 1
    Only = {"TbsCertList"}
    Excluded = {}
INVARIANT RoundTrip
