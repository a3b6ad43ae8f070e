CONSTANTS
  Bytes = {1, 255}
  Lens = {2}
  N = 6
  Mss = 3
  TcpHdr = 40000
  Pseudo = 30000
  Copies = {TRUE}
  More = FALSE
  Resends = FALSE
SPECIFICATION Spec
INVARIANT ChecksumRight
CHECK_DEADLOCK FALSE
