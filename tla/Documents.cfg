SPECIFICATION Spec
CONSTANTS
  MinInt <- mcMinInt
  MaxInt = 31
  MaxUint = 63
  SignificandBits = 4
  MaxShift = 6
  MaxNesting = 2
  MaxEdits = 2
  MaxDocuments = 2
  MaxTyped = 4
  Origins = {"written", "typed"}
  Keyboard <- mcKeyboard
  Beginnings <- mcBeginnings
  Kinds = {"rows", "maps", "columns", "xml", "base64", "utf8", "utf16", "utf32"}
  MaxSteps <- mcMaxSteps
  CodeUnits <- mcCodeUnits
  MaxUrlEdits = 3
  MaxTypedUrl = 4
CHECK_DEADLOCK FALSE
INVARIANTS JsonReadsBack LimitsAreExact FormatsReadBack UrlTextsAgree
