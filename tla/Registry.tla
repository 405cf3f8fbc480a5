------------------------------ MODULE Registry ------------------------------
(***************************************************************************)
(* The registers whose operations touch no row of one another: meters,     *)
(* tariffs with the periods that refer to them, residents, bank            *)
(* statements, and accounts.  What one does never disturbs another, so     *)
(* each is followed on its own: followed names the one whose operations    *)
(* happen.                                                                 *)
(***************************************************************************)
EXTENDS UnitResidents, BankImport

CONSTANTS
  MeteredUnit, Meter, Serial, Level, Initial,
  Tariff, Date, Inputs, Month,
  Email, Token, Visitor, MaxUses

VARIABLES
  followed,
  meter,
  tariff, loaded, wperiod,
  account, mailed, visit, uses, shut

INSTANCE WaterMeters WITH Unit <- MeteredUnit
INSTANCE WaterTariffs
INSTANCE Accounts

ASSUME RegistryAssumption ==
  /\ IsFiniteSet(Meter) /\ IsFiniteSet(Visitor) /\ IsFiniteSet(Token)
  /\ Inputs \subseteq TariffInput /\ None \notin Date

tariffVars   == <<tariff, loaded, wperiod>>
userVars     == <<account, mailed, visit, uses, shut>>
registryVars == <<followed, meter, tariffVars, residentVars, importVars, userVars>>

RegistryInit ==
  /\ followed \in {"meters", "tariffs", "residents", "statements", "accounts"}
  /\ MeterInit /\ TariffInit /\ ResidentInit /\ ImportInit /\ AccountInit

MeterStep ==
  /\ followed = "meters"
  /\ MeterNext
  /\ UNCHANGED <<followed, tariffVars, residentVars, importVars, userVars>>

TariffStep ==
  /\ followed = "tariffs"
  /\ TariffNext \/ WPeriodNext
  /\ UNCHANGED <<followed, meter, residentVars, importVars, userVars>>

ResidentStep ==
  /\ followed = "residents"
  /\ ResidentNext
  /\ UNCHANGED <<followed, meter, tariffVars, importVars, userVars>>

StatementStep ==
  /\ followed = "statements"
  /\ ImportNext
  /\ UNCHANGED <<followed, meter, tariffVars, residentVars, userVars>>

AccountStep ==
  /\ followed = "accounts"
  /\ AccountNext
  /\ UNCHANGED <<followed, meter, tariffVars, residentVars, importVars>>

RegistryNext == MeterStep \/ TariffStep \/ ResidentStep \/ StatementStep
                \/ AccountStep

RegistrySpec == RegistryInit /\ [][RegistryNext]_registryVars
=============================================================================
