------------------------------ MODULE WriteGate ------------------------------
(***************************************************************************)
(* What stands between a click and a destructive statement: the tables     *)
(* that the window knows from its last scan and its last dry run, the      *)
(* OVERWRITE confirmation, the dry-run gate (gui/main.py                   *)
(* _confirm_write_operation, application/safety.py), and the safety guard  *)
(* that apply-ddl asks over its own scan (core/safety_guard.py).  Between  *)
(* any two of them others may create tables and delete report files.       *)
(***************************************************************************)
EXTENDS Naturals, FiniteSets

CONSTANTS
  GateTables,    \* the source tables, and their names in the target
  MaxGateSteps   \* bound: steps over the whole behaviour

GatePolicies == {"skip", "append", "sync", "overwrite"}

ASSUME GateAssumption == IsFiniteSet(GateTables) /\ MaxGateSteps \in Nat

VARIABLES
  safetyConfig,  \* environment and safety section of the config, and its dry-run report
  policy,    \* existing_table_policy, a control of the window
  present,   \* the tables of the target
  options,   \* _target_table_options: the target as of the last scan-tables
  origins,   \* _last_dry_run_tables: the tables it found in the target
  report,    \* the file of _last_dry_run_report: "none", "there" or "deleted"
  pending,   \* the operation that was confirmed and has not reached the target
  destroyed, \* history: what the last operation destroyed, and what was known of it
  appeared,  \* history: tables that have come up since the window looked
  gateSteps

gateVars == <<safetyConfig, policy, present, options, origins, report, pending, destroyed,
              appeared, gateSteps>>

NoOperation == [selection |-> {}, listed |-> {}, reviewed |-> FALSE]
Nothing     == [tables |-> {}, listed |-> {}, reviewed |-> FALSE, policy |-> "skip", unseen |-> {}]

Step == gateSteps < MaxGateSteps /\ gateSteps' = gateSteps + 1

Waiting == pending = NoOperation

-----------------------------------------------------------------------------
Scan ==
  /\ Step /\ Waiting
  /\ options' = present
  /\ origins' = {}
  /\ report' = "none"
  /\ appeared' = {}
  /\ UNCHANGED <<safetyConfig, policy, present, pending, destroyed>>

(* The origins are those of the selected tables alone.                     *)
Review ==
  /\ Step /\ Waiting
  /\ \E selection \in SUBSET GateTables \ {{}} :
       /\ origins' = present \cap selection
       /\ appeared' = (appeared \ selection) \cup ((origins \ options) \ selection)
  /\ report' = "there"
  /\ UNCHANGED <<safetyConfig, policy, present, options, pending, destroyed>>

ChoosePolicy ==
  /\ Step /\ Waiting
  /\ policy' \in GatePolicies \ {policy}
  /\ UNCHANGED <<safetyConfig, present, options, origins, report, pending, destroyed, appeared>>

Others ==
  /\ Step
  /\ \/ /\ \E t \in GateTables \ present : present' = present \cup {t} /\ appeared' = appeared \cup {t}
        /\ UNCHANGED report
     \/ report = "there" /\ report' = "deleted" /\ UNCHANGED <<present, appeared>>
  /\ UNCHANGED <<safetyConfig, policy, options, origins, pending, destroyed>>

(* Mutant: a table is known to exist from the dry run alone.               *)
ListedByDryRun(selection) == selection \cap origins

(* _selected_existing_target_tables, _is_existing_target_table             *)
Listed(selection) == selection \cap (options \cup origins)

ReportExists == report = "there" \/ safetyConfig.configured

(* Mutant: only production needs a dry run.                                *)
GateOpensUnlessProduction(listed) == safetyConfig.production => ReportExists

(* evaluate_dry_run_gate: overwrite counts its candidates, the other       *)
(* policies are destructive as such.                                       *)
GateOpens(listed) ==
  LET destructive == IF policy = "overwrite" THEN listed # {} ELSE policy = "sync"
  IN  destructive \/ safetyConfig.production => ReportExists

(* The operator types OVERWRITE when tables are listed, and the name of    *)
(* the database.                                                           *)
Confirm ==
  /\ Step /\ Waiting
  /\ \E selection \in SUBSET GateTables \ {{}} :
       /\ GateOpens(Listed(selection))
       /\ pending' = [selection |-> selection,
                      listed |-> IF policy = "overwrite" THEN Listed(selection) ELSE {},
                      reviewed |-> ReportExists]
  /\ UNCHANGED <<safetyConfig, policy, present, options, origins, report, destroyed, appeared>>

(* The window's own report replaces the configured one.                    *)
GuardSeesReport == IF report = "none" THEN safetyConfig.configured ELSE report = "there"

(* TargetSafetyGuard.evaluate over the plan of a new scan.                 *)
GuardOpens(destructive) ==
  \/ destructive = {} \/ ~safetyConfig.protection \/ ~safetyConfig.production
  \/ safetyConfig.allow /\ (safetyConfig.required => GuardSeesReport)

(* Existing tables are dropped by overwrite; by sync they are altered and  *)
(* lose rows.  What was missing is created.                                *)
Execute ==
  /\ pending # NoOperation
  /\ LET destructive == IF policy \in {"sync", "overwrite"} THEN present \cap pending.selection ELSE {}
     IN  IF GuardOpens(destructive)
         THEN /\ destroyed' = [tables |-> destructive, listed |-> pending.listed,
                               reviewed |-> pending.reviewed, policy |-> policy, unseen |-> appeared]
              /\ present' = present \cup pending.selection
              /\ appeared' = appeared \cup (pending.selection \ present)
         ELSE destroyed' = Nothing /\ UNCHANGED <<present, appeared>>
  /\ pending' = NoOperation
  /\ UNCHANGED <<safetyConfig, policy, options, origins, report, gateSteps>>

GateInit ==
  /\ safetyConfig \in [production : BOOLEAN, protection : BOOLEAN, allow : BOOLEAN,
                   required : BOOLEAN, configured : BOOLEAN]
  /\ policy = "skip"
  /\ present \in SUBSET GateTables
  /\ options = present /\ origins = {} /\ report = "none" /\ appeared = {}
  /\ pending = NoOperation /\ destroyed = Nothing
  /\ gateSteps = 0

GateNext == Scan \/ Review \/ ChoosePolicy \/ Others \/ Confirm \/ Execute

GateSpec == GateInit /\ [][GateNext]_gateVars

-----------------------------------------------------------------------------
(* Every table that an overwrite drops was listed in the confirmation,     *)
(* unless it came up after the window last looked: the window's own full   *)
(* run is such a case, so that a second one drops without asking.          *)
OverwritesAreListed ==
  destroyed.policy = "overwrite" => destroyed.tables \subseteq destroyed.listed \cup destroyed.unseen

(* A destructive operation had a dry-run report when it was confirmed,     *)
(* unless it is an overwrite of tables that the window had not seen on a   *)
(* target that is not production.                                          *)
DestructionIsReviewed ==
  destroyed.tables # {} /\ ~destroyed.reviewed =>
    /\ ~safetyConfig.production
    /\ destroyed.policy = "overwrite" /\ destroyed.tables \subseteq destroyed.unseen
=============================================================================
