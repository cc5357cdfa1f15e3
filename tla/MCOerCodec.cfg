SPECIFICATION CodecSpec
CONSTANTS
    Type <- MCType
    Kind <- MCKind
    Fields <- MCFields
    Extensible <- MCExtensible
    Versions <- MCVersions
    Node <- MCNode
    TypeOf <- MCTypeOf
    Child <- MCChild
    Alt <- MCAlt
    Roots <- MCNode
    Tag <- MCTag
    Inputs <- MCInputs
    ReadAs = {"Leaf", "Pair", "List", "Tree", "Link", "Fork", "Sack"}
    Alphabet = {0, 1, 2, 3, 8, 64, 128, 129, 130, 192}
    MaxOctets = 4
    MaxDepth = 4
    Absent = Absent
INVARIANTS EncodesCanonically VersionsAgree SlicesNest
PROPERTY ReadsForward
