SPECIFICATION CodecSpec
CONSTANTS
    Type <- MCType
    Kind <- MCKind
    Names <- MCNames
    Variants <- MCVariants
    Parts <- MCParts
    Optional <- MCOptional
    SetOrder <- MCSetOrder
    SameName <- MCSameName
    Node <- MCNode
    TypeOf <- MCTypeOf
    Child <- MCChild
    Alt <- MCAlt
    Roots <- MCRoots
    Name <- MCName
    Tag <- MCTag
    EOC = 4
    Absent = Absent
    MaxDepth = 8
INVARIANTS
    StacksMatch
    EncodesFaithfully
    RoundTrip
