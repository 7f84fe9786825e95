SPECIFICATION Spec
CONSTANTS
  RequestSize = 3
  AnswerSize = 4
  Chunk = 3
  Descriptors = {3, 4, 5}
INVARIANTS
  DescriptorsAreOwned
PROPERTIES
  ImplementsExchange
\* The call ends.
CHECK_DEADLOCK FALSE
