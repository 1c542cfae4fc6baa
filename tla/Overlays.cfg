SPECIFICATION Spec
CONSTANTS
  Grace = TRUE
  Named = FALSE
  MaxUpdates = 1
INVARIANT NoBareFrozenPicture
PROPERTY HandsOver
