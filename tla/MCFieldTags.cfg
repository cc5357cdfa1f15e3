SPECIFICATION Spec
CONSTANTS
    Field <- MCField
    TagOf <- MCTagOf
    Declarations <- MCDeclarations
    MaxValue = 9
INVARIANTS
    Sorted
    Permuted
    UniqueExactly
    ReadsOwn
    SetOrderCanonical
