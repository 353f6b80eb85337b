\* Leaf pages of at most 2 keys and internal pages of at most 3 children:
\* seven keys grow the tree to three levels, and the page-id bound leaves
\* room for the merges and borrows of internal pages in both directions.
SPECIFICATION Spec
CONSTANTS
    Keys <- MCKeys7
    LeafMax = 2
    InternalMax = 3
    MaxPageId = 9
    INVALID_PAGE_ID = INVALID_PAGE_ID
INVARIANTS
    TypeOK
    TreeWellFormed
    SearchAgrees
    SlotZeroIsLowerBound
    ParentLinksConsistent
    LeafChainOrdered
    CheckAccepts
PROPERTIES
    KeySetRefinement
