SPECIFICATION Spec
CONSTANTS
  Selectors <- FieldSelectors
  Words <- FieldWords
  MaxWords = 11
INVARIANTS
  TypeOK
  HandledParam
  BytesMissingFresh
  NoWrongByte
  FieldWhereHeadPoints
PROPERTIES
  NoOverwrite
  OnePassSpec
