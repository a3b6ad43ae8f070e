SPECIFICATION Spec
INVARIANTS
  
  
  PbufsSound
  NetconnOwnership
  TimeoutsSound
PROPERTIES
  ReceiverSound
  
  
  DatagramsSound
CHECK_DEADLOCK FALSE
