SPECIFICATION Spec
CONSTANTS
  Ids = {"x"}
  Payloads = {"p"}
  Lines = {1, 2}
  Saved <- MCSaved
  MaxSent = 2
  NoId = NoId
  NoData = NoData
INVARIANTS TypeOK LinesFollow RunsAsSetUp SendsWhatItShows SavedIsRestored
PROPERTY SilentWhenStopped
