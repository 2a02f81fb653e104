SPECIFICATION Spec
CONSTANTS
  Chars = {"a", "b"}
  MaxSize = 6
  MaxLen = 7
INVARIANT TruncatedString
