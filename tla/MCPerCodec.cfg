SPECIFICATION CodecSpec
CONSTANTS
    Type <- MCType
    Kind <- MCKind
    Fields <- MCFields
    Extensible <- MCExtensible
    Bound <- MCBound
    Versions <- MCVersions
    Node <- MCNode
    TypeOf <- MCTypeOf
    Child <- MCChild
    Alt <- MCAlt
    Roots <- MCNode
    Tag <- MCTag
    Inputs <- MCInputs
    ReadAs = {"Small", "Byte", "Pair", "List", "More", "Tree", "Link", "Fork", "Bag"}
    MaxBits = 8
    MaxPieces = 4
    MaxDepth = 4
    Absent = Absent
INVARIANTS PacksCanonically ReadersAgree ReadsNest
PROPERTY ReadsForward
