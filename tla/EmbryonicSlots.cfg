SPECIFICATION FairSpec
CONSTANTS
  Children = {c1, c2, c3}
  MaxEmbryonics = 2
  EmbryonicsStart = 1
  EmbryonicsRate = 10
  GraceTime = 2
  LastArrival = 5
  MaxTime = 9
  MaxRestarts = 1
INVARIANTS NoOverbookingUnlessOverrun AdmissionLaw
PROPERTIES SlotsReclaimed
CHECK_DEADLOCK FALSE
