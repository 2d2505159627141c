--------------------------- MODULE PlanLifecycle ---------------------------
(***************************************************************************)
(* The states of a communication plan and the transition table of          *)
(* src/lifecycle.cpp.  The coordinator stores these states in its plan     *)
(* records but never consults the table; Recovery.tla compares a restart   *)
(* with it.                                                                *)
(***************************************************************************)

\* enum class PlanState.
PlanState ==
  { "REQUESTED", "DISCOVERING", "CONSTRUCTING", "FILTERING", "RANKING",
    "PLAN_READY", "AWAITING_RESOURCE_COMMIT", "COMMITTED",
    "AWAITING_EXECUTION", "ACTIVE", "COMPLETED", "REVALIDATION_REQUIRED",
    "CANCELLED", "FAILED", "SUPERSEDED", "RETIRED" }

\* The states from which the table allows nothing but RETIRED.
Closed == { "COMPLETED", "CANCELLED", "FAILED", "SUPERSEDED" }

\* The arms of the switch besides the common {CANCELLED, FAILED, RETIRED}.
OwnSuccessors(s) ==
  CASE s = "REQUESTED"    -> { "DISCOVERING", "CONSTRUCTING" }
    [] s = "DISCOVERING"  -> { "CONSTRUCTING", "FILTERING" }
    [] s = "CONSTRUCTING" -> { "FILTERING", "RANKING" }
    [] s = "FILTERING"    -> { "RANKING" }
    [] s = "RANKING"      -> { "PLAN_READY" }
    [] s = "PLAN_READY"   ->
         { "AWAITING_RESOURCE_COMMIT", "REVALIDATION_REQUIRED", "SUPERSEDED" }
    [] s = "AWAITING_RESOURCE_COMMIT" ->
         { "COMMITTED", "REVALIDATION_REQUIRED", "SUPERSEDED" }
    [] s = "COMMITTED" ->
         { "AWAITING_EXECUTION", "REVALIDATION_REQUIRED", "SUPERSEDED" }
    [] s = "AWAITING_EXECUTION" ->
         { "ACTIVE", "REVALIDATION_REQUIRED", "SUPERSEDED" }
    [] s = "ACTIVE"       -> { "COMPLETED", "REVALIDATION_REQUIRED" }
    [] s = "REVALIDATION_REQUIRED" -> { "AWAITING_EXECUTION", "PLAN_READY" }

\* canTransition(from, to).
CanTransition(from, to) ==
  IF from = "RETIRED" THEN FALSE
  ELSE IF from \in Closed THEN to = "RETIRED"
  ELSE to \in OwnSuccessors(from) \cup { "CANCELLED", "FAILED", "RETIRED" }

=============================================================================
