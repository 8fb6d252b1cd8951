CONSTANTS
  m1 = m1
  c1 = c1
  Received = {m1}
  Sent = {s1}
  Chat = {c1}
  ChatOf <- OneChat
  Listener = {l1}
  MaxAck = 2
SPECIFICATION StoreSpec
INVARIANT AckUpToDate
CHECK_DEADLOCK FALSE
