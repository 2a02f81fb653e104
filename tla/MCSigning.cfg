SPECIFICATION Spec
CONSTANT Calls <- AllCalls
INVARIANTS
  ReadmeDisplay
  SupportedAccepted
  OverLimitRefused
  TruncatedDisplay
  OversizedRefused
