CONSTANTS
  m1 = m1
  m2 = m2
  m3 = m3
  c1 = c1
  c2 = c2
  Received = {m1, m2, m3}
  Sent = {s1}
  Chat = {c1, c2}
  ChatOf <- ThreeMessages
  Listener = {l1, l2}
  MaxAck = 1
  Contact = {c1, c2}
  Message = {m1, m2}
  ContactOf <- OneMessageEach
  Agent = {a1, a2}
  NoAgent = NoAgent
  Capacity = 1
  Hooks = 1
  MaxDeliveries <- TwiceAndOnce
  LastDay = 2
  Email = {e1}
  Password = {p1, p2}
  Op = {o1, o2, o3}
  AuthMax = 1
  LastWindow = 1
  User = {u1}
  Row = {n1}
  ApiMax = 3
  SessionMax = 1
  MessageMax = 1
  Tenant = {t1, t2}
  Slug = {g1, g2}
  Plan = {"free", "pro"}
  Key = {y1}
  MaxDays = 2
  MaxRows = 2
SYMMETRY Symmetry
SPECIFICATION Spec
INVARIANTS
  StoreIsSound
  InboxIsSound
  TransfersWin
  AccountsAreSound
  RestIsSound
  TenantsAreSound
PROPERTIES
  RequestsAreEntitled
CHECK_DEADLOCK FALSE
