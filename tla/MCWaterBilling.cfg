CONSTANTS
  u1 = u1  u2 = u2  c1 = c1  c2 = c2  n1 = n1  n2 = n2  s1 = s1
  t1 = t1  d1 = d1  p1 = p1
  None = None
  Payment = {p1}
  Charge = {c1, c2}
  Period = {}
  BankTx = {}
  Unit = {u1, u2}
  Amount = {2}
  PaymentUnit <- MCPaymentUnit
  ChargeUnit <- MCChargeUnit
  ChargePeriod <- MCChargePeriod
  DueDate <- MCDueDate
  ChargeDate <- MCChargeDate
  PenaltyCharge = {}
  Tariff = {t1}
  Date = {d1}
  Inputs <- MCInputs
  Month = {1}
  Meter = {n1, n2}
  Serial = {s1}
  Level = {0, 300}
  Initial = {0}
  Fee = {1}
  MacroPrice <- MCMacroPrice
  Adjustment = {0}
  Bill = {9}
  RowInputs <- MCRowInputs
  WaterCharge <- MCWaterCharge
SYMMETRY MeterSymmetry
SPECIFICATION WaterSpec
INVARIANTS ReportIsCharged CalculatedAddsUp
PROPERTIES RecalculationIdempotent ProrationRecovers
CHECK_DEADLOCK FALSE
