CONSTANTS
  u1 = u1  u2 = u2  n1 = n1  n2 = n2  n3 = n3  s1 = s1  s2 = s2  t1 = t1  t2 = t2
  r1 = r1  k1 = k1  k2 = k2  k3 = k3  q1 = q1  q2 = q2
  m1 = m1  m2 = m2  m3 = m3  w1 = w1  w2 = w2
  e1 = e1  l1 = l1  l2 = l2  v1 = v1  v2 = v2
  None = None
  Unit = {u1}
  MeteredUnit = {u1, u2}
  Meter = {n1, n2, n3}
  Serial = {s1, s2}
  Level = {0}
  Initial = {0}
  Tariff = {t1, t2}
  Date = {1, 2}
  Inputs <- MCInputs
  Month = {1}
  Resident = {r1}
  Link = {k1, k2, k3}
  Request = {q1, q2}
  Content = {m1, m2, m3}
  Broken = {m3}
  Files <- MCFiles
  Uploader = {w1, w2}
  MaxByHand = 1
  Email = {e1}
  Token = {l1, l2}
  Visitor = {v1, v2}
  MaxUses = 3
SYMMETRY RegistrySymmetry
SPECIFICATION RegistrySpec
INVARIANTS PrimariesNeedOverlap InsertsBounded FinishedIsStored SwitchedOffStaysOut LinkWorksOnce
PROPERTIES ExchangeKeepsOneActive LoadLeavesOne
CHECK_DEADLOCK FALSE
