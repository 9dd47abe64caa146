SPECIFICATION FairSpec
CONSTANTS
  imageA = imageA
  imageB = imageB
  v1 = v1
  Images <- MCImages
  Release <- MCRelease
  Clients = {c1}
  MaxAttempts = 3
  MaxFaults = 1
INVARIANTS
  AdmissionIsEarned
  OneLifePerMarker
  IdleWhileDataChanges
PROPERTIES
  FinalizationEnds
CHECK_DEADLOCK FALSE
