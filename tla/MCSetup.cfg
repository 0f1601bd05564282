SPECIFICATION FairSpec
CONSTANTS
  Scripts <- MCScripts
  MaxEmits = 1
  MaxLosses = 1
  RxFifo = 7
  TxFifo = 1
  InputSize = 3
  TxSize = 8
  MaxBytes = 7
INVARIANTS
  TypeOK
  TxIsFramed
  AnswersInOrder
  AnsweredAsAsked
  HostKnowsMapping
PROPERTIES
  OnlyOneLineStores
  RequestsAreAnswered
  LinesAreAnswered
CHECK_DEADLOCK FALSE
