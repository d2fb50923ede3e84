SPECIFICATION Spec
CONSTANTS
  Episodes = {e1, e2}
  Ids = {1, 2, 3, 4}
  Times = {1, 2}
  Relays = {r1, r2}
  BatchSize = 2
  Faults = {"error", "interrupt"}
  MaxFaults = 1
SYMMETRY EpisodeSymmetry
INVARIANTS
  OneProposalPerEpisode
  PublishedIsInProcess
PROPERTIES
  FeedSpec
CHECK_DEADLOCK FALSE
