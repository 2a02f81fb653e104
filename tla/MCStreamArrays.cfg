SPECIFICATION Spec
CONSTANTS
  Selectors <- ArraySelectors
  Words <- ArrayWords
  MaxWords = 11
INVARIANTS
  ArrayIndexInBounds
  NoWrongByte
  FieldWhereHeadPoints
  PromisedScreensExist
PROPERTIES
  NoOverwrite
  OnePassSpec
