SPECIFICATION Spec
CONSTANTS
  Names = {r1, r2}
  Signatures = {panic, oops, reset}
  MaxRules = 2
  MaxFired = 1
  WindowCap = 5
  TrimAbove = 3
  TrimKeep = 2
  Overlap = 1
  Scratch = 3
  IncidentCap = 4
  MaxChunk = 3
  MaxStream = 5
  MaxConfigs = 3
CHECK_DEADLOCK FALSE
SYMMETRY NameSymmetry
INVARIANTS MatchesExact EveryIncidentAnnounced
