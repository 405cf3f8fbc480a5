CONSTANTS
  p1 = p1  p2 = p2  c1 = c1  c2 = c2  b1 = b1  u1 = u1  u2 = u2
  w1 = w1  w2 = w2  x1 = x1
  None = None
  OneUnit = FALSE
  Worker = {w1, w2}
  Payment = {p1, p2}
  Charge = {c1, c2}
  Period = {b1}
  BankTx = {}
  Unit = {u1, u2}
  Amount = {1}
  PaymentUnit <- MCPaymentUnit
  ChargeUnit <- MCChargeUnit
  ChargePeriod <- MCChargePeriod
  DueDate <- MCDueDate
  ChargeDate <- MCChargeDate
  PenaltyCharge = {}
SPECIFICATION ApartSpec
INVARIANTS BalancesAgree
CHECK_DEADLOCK FALSE
