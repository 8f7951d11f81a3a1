\* Edits of both files, pushes of the inline overlay and reloads, between any two system calls.
SPECIFICATION FairSpec
CONSTANTS
    Names <- FieldAndList
    ListOf <- RowsOfRank
    Numbers = {1, 2}
    Illegal = 0
    Documents <- FewDocuments
    Unseen = Unseen
    Blank = Blank
    Gone = Gone
    Malformed = Malformed
    MaxWrites = 2
INVARIANTS
    SchemaFollowsFiles
PROPERTIES
    KeepsDecoding
    Converges
