SPECIFICATION CodecSpec
CONSTANTS
    Type <- MCType
    Kind <- MCKind
    Ident <- MCIdent
    Names <- MCNames
    Parts <- MCParts
    Optional <- MCOptional
    Tagged <- MCTagged
    SetOrder <- MCSetOrder
    SameName <- MCSameName
    Shown <- ShownAs
    Node <- MCNode
    Roots <- MCRoots
    Absent = Absent
INVARIANTS
    NamesMatch
    WritesElements
    RoundTrip
