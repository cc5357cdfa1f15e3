SPECIFICATION Spec
CONSTANTS
    NoType = NoType
    EOC = 0
    ChunkTag = 4
    Types <- MCTypes
    Schema <- MCSchema
    Tags <- MCTags
    Plain <- MCPlain
    AnyTokens <- MCAnyTokens
    Rules = {"BER", "CER", "DER"}
    Roots = {"node", "group", "lax", "loose"}
    MaxChoices = 6
    MaxDepth = 128
INVARIANT EncoderOK
INVARIANT ReadsAsWritten
INVARIANT RoundTrip
INVARIANT CanonicalOrder
