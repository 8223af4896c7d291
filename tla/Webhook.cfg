CONSTANT Deliveries = {d1, d2, d3}
SPECIFICATION FairSpec
INVARIANTS
  OneIncident
  AnswerIsTrue
PROPERTY DispatchedUnlessCreatorFails
CHECK_DEADLOCK FALSE
