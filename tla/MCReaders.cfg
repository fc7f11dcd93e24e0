SPECIFICATION MCSpec
CONSTANTS
  Texts <- MCTexts
  Rules <- MCRules
  Separators <- MCSeparators
  Radix = 2
  MaxBytes = 3
  ScalarSize = 2
  BufferSize = 4
  Logs <- MCLogs
  Foreign <- MCForeign
  JsonTexts <- MCJsonTexts
  Documents <- MCDocuments
INVARIANTS ReadsRules WrittenIsRead EntriesSurvive TokensAreTheText ManifestIsMeaning ErrorsAreAtTheFault
CHECK_DEADLOCK FALSE
