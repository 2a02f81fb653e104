SPECIFICATION Spec
CONSTANTS
  Selectors <- ClaimSelectors
  Words <- ClaimWords
  MaxWords = 12
INVARIANTS
  NoWrongByte
  FieldWhereHeadPoints
