\* A frame of which the end is missing, with complete packets before it.
SPECIFICATION Spec
CONSTANTS
    Radix = 8
    MaxDigits = 4
    Utf8 <- Texts
    HasBrotli = TRUE
    Numberings <- TwoNumberings
    Posts <- AllPosts
    Cuts = {0, 1, 2, 3, 5}
    Nothing = Nothing
INVARIANT KeepsWhatCouldBeDecoded
