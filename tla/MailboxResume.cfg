SPECIFICATION Spec
CONSTANTS
  p1 = p1
  p2 = p2
  Procs <- MCProcs
  Grants <- MCGrants
  NoSource = NoSource
  BUFFERSIZE = 3
  ReceiverLists <- MCReceiverLists
  MaxSends = 4
PROPERTY
  SendResumesReceiver
\* PM caught in do_mreceive's endless loop answers no call any more.
CHECK_DEADLOCK FALSE
