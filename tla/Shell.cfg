CONSTANTS
  a = a
  b = b
  Chars <- MCChars
  Blank = b
  UsageErrors <- MCUsageErrors
  MAX_LINE_LENGTH = 2
  MAX_HISTORY = 3
SPECIFICATION Spec
INVARIANTS
  NeverPanics
  LookingBackIsSafe
PROPERTIES
  HistoryIsARecord
