CONSTANTS
  p1 = p1  c1 = c1  c2 = c2  c3 = c3  b1 = b1  u1 = u1  u2 = u2  t1 = t1
  w1 = w1  w2 = w2
  None = None
  Payment = {p1}
  Charge = {c1, c2, c3}
  Period = {b1}
  BankTx = {}
  Unit = {u1, u2}
  Amount = {2}
  PaymentUnit <- MCPaymentUnit
  ChargeUnit <- MCChargeUnit
  ChargePeriod <- MCChargePeriod
  DueDate <- MCDueDate
  ChargeDate <- MCChargeDate
  PenaltyCharge = {}
  Worker = {w1}
  Type = {t1}
  ChargeType <- MCChargeType
  Config <- MCConfig
  DefaultAmount <- MCDefaultAmount
  AsOf <- MCAsOf
SPECIFICATION GenerationSpec
INVARIANTS GenerationTypeOK BilledOnce
PROPERTY FinishedBilledAll
CHECK_DEADLOCK FALSE
