SPECIFICATION FairBindSpec
CONSTANTS
  Sockets = {s1, s2, s3}
  Senders = {x}
  Nil = Nil
  Batch = 2
  Backlog = 1
INVARIANTS
  BatchLeavesTogether
  OldReceiversStayOff
PROPERTIES
  ClosedReceiversReturn
  CloseReturns
