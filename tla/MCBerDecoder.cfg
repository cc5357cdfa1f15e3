SPECIFICATION FairSpec
CONSTANTS
    Bool = Bool
    Num = Num
    Seqn = Seqn
    Ctx = Ctx
    NoType = NoType
    EOC = EOC
    ChunkTag = Num
    Types <- MCTypes
    Schema <- MCSchema
    Tags <- MCTags
    Inputs <- MCInputs
    Roots = {"node", "group", "strict", "lax", "mixed", "holder"}
    MaxDepth = 5
    Alphabet <- AllTokens
    MaxTokens = 4
INVARIANT TypeOK
INVARIANT SlicesNested
INVARIANT NestingBounded
INVARIANT AcceptsEveryEncoding
INVARIANT RecordsExact
INVARIANT DepthReported
PROPERTY Terminates
PROPERTY ReadsForward
