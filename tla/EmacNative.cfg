SPECIFICATION EmacSpec
CONSTANTS
  Kinds = {"native"}
  TxSlots = 2
  RxSlots = 2
  MaxSubmitted = 3
  MaxInjected = 2
PROPERTIES SubmittedIsSent
CHECK_DEADLOCK FALSE
