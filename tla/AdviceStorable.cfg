\* A conversation that was verified, looked at a week later.
SPECIFICATION NextActionSpec
CONSTANTS
  NULL = NULL
  Criteria = {"fit", "need", "size"}
  Unit = 3
  Weight <- Weights
  Scope <- ARegion
  Registry <- SomeKinds
  Fading <- Halvings
  Starts <- AllMet
  Findings = {}
  News <- AnAd
  Posts = {3}
  Recomputes = {x1}
  NbaDays = {0, 7}
  MaxFacts = 5
  MaxActions = 2
INVARIANT EveryAdviceIsStorable
CHECK_DEADLOCK FALSE
