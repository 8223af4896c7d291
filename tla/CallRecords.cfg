\* An outbound and an inbound call, everything may fail.
SPECIFICATION Spec
CONSTANTS
  Outbound = {o1}
  Inbound = {i1}
  UnknownIncident = {}
  Faults = TRUE
INVARIANTS
  TranscriptOutlivesSummary
  AnsweredIsOutbound
PROPERTIES
  RecordedForGood
CHECK_DEADLOCK FALSE
