SPECIFICATION Spec
CONSTANT Calls <- RefinementCalls
PROPERTIES
  ReviewCompletes
  ClearSigningSpec
