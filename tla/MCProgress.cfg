SPECIFICATION Spec
PROPERTIES
  KernelProgress
  SessionEnds
  TcpProgress
  
  DriverProgress
CHECK_DEADLOCK FALSE
