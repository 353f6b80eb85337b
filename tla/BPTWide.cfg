\* Leaf pages of at most 4 keys (GetMinSize 2), the smallest leaves that
\* borrow from a sibling instead of always merging: both leaf
\* redistributions happen.  Two levels, internal pages of 3 children.
\* CallsRefine evaluates both operations for every key on every step,
\* which bounds the keys at 7.
SPECIFICATION Spec
CONSTANTS
    Keys <- MCKeys7
    LeafMax = 4
    InternalMax = 3
    MaxPageId = 9
    INVALID_PAGE_ID = INVALID_PAGE_ID
INVARIANTS
    GetValueFindsAll
    TreeWellFormed
    LeafChainOrdered
PROPERTIES
    CallsRefine
