SPECIFICATION HttpSpec
CONSTANTS
  Requests <- mcRequests
  Answers <- mcAnswers
  MaxRequests = 4
  AfterBody = FALSE
  AfterClose = FALSE
  FirstLengths <- mcFirstLengths
CHECK_DEADLOCK FALSE
INVARIANTS MessagesArriveWhole
PROPERTIES EveryRequestIsAnswered
