SPECIFICATION FairSpec
CONSTANTS
  Size = 16
  Formats <- MCFormats
  Malformed <- MCMalformed
  Length <- MCLength
  Texts <- MCTexts
  DefaultTime = "HM"
  DefaultDate = "dmy"
  Calls <- MCCalls
  MaxCalls = 2
INVARIANTS
  TypeOK
  BufferIsSafe
  LabelsAreCurrent
PROPERTIES
  LabelsConverge
\* A module that is disposed of does nothing more.
CHECK_DEADLOCK FALSE
