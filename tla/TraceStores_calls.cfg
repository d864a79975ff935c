SPECIFICATION StoreSpec
CONSTANTS
  alice = alice
  bob = bob
  None = None
  Traces = {1, 2, 3}
  Sessions = {alice, bob}
  SessionOf <- MCSessionOf
  SpansOf <- MCSpansOf
  Tags = {"bad", "good"}
  MaxRuns = 1
  Single = {"w1"}
  Several = {"w1", "w2"}
  Picks <- MCPicks
  Starts <- MCStarts
  MaxEdits = 2
  MaxFaults = 1
  MaxCrashes = 1
INVARIANTS
  StoredWhole
  Retained
  NothingComesBack
PROPERTIES
  TagSeedsMark
CHECK_DEADLOCK FALSE
