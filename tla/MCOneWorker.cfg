CONSTANTS
  p1 = p1  p2 = p2  c1 = c1  c2 = c2  b1 = b1  u1 = u1  u2 = u2
  w1 = w1  w2 = w2  x1 = x1
  None = None
  OneUnit = TRUE
  Worker = {w1}
  Payment = {p1}
  Charge = {c1, c2}
  Period = {b1}
  BankTx = {x1}
  Unit = {u1}
  Amount = {1}
  PaymentUnit <- MCPaymentUnit
  ChargeUnit <- MCChargeUnit
  ChargePeriod <- MCChargePeriod
  DueDate <- MCDueDate
  ChargeDate <- MCChargeDate
  PenaltyCharge = {}
SPECIFICATION ConcurrentSpec
PROPERTIES RunsOneAtATime
CHECK_DEADLOCK FALSE
