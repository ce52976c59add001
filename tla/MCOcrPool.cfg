\* Two workers, two requests; children end at any time, starts and spawns may fail.
\* Room holds in every state of this instance: nothing is cut off.  No symmetry,
\* for the liveness property.
CONSTANTS
  Request = {r1, r2}
  Size = 2
  Clients = 6
  Children = 9
  StartsMayFail = TRUE
  SpawnsMayFail = TRUE
SPECIFICATION FairSpec
INVARIANTS TypeOK OwnUnlessRobbed 
PROPERTIES OcrSettlesUnlessHung
CHECK_DEADLOCK FALSE
