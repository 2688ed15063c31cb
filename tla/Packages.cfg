\* Two projects with one cache, interruptions and failures included.
SPECIFICATION FairSpec
CONSTANTS
  Projects = {p1, p2}
  MaxVersion = 2
  Constraints = {{1}, {1, 2}}
  Faults = TRUE
INVARIANTS
  BuildsWhatItReports
PROPERTIES
  LockedVersionsMatch
  RemainsDisappear
