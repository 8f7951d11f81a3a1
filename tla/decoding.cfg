\* Frames, whole and cut, while the platform renumbers and the field map follows.
SPECIFICATION Spec
CONSTANTS
    Radix = 8
    MaxDigits = 4
    Utf8 <- Texts
    HasBrotli = TRUE
    Numberings <- TwoNumberings
    Posts <- AllPosts
    Cuts = {0, 1, 2, 3, 5}
    Nothing = Nothing
INVARIANTS
    DecodesWhatWasSent
    DriftOnlyLosesFields
    CutFrameTellsPrefix
