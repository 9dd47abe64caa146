SPECIFICATION Spec
CONSTANTS
  imageA = imageA
  imageB = imageB
  v1 = v1
  Images <- MCImages
  Release <- MCRelease
  Clients = {c1}
  MaxAttempts = 2
  MaxFaults = 1
INVARIANTS
  PublishedImageWasVerified
CHECK_DEADLOCK FALSE
