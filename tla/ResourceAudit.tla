--------------------------- MODULE ResourceAudit ----------------------------
(***************************************************************************)
(* The audit trail of the schemes (backend/internal/audit).  A service     *)
(* records an event after its own write has committed, in a statement of   *)
(* its own whose error it drops, so an event may be missing.  The table    *)
(* has no foreign key to schemes: events outlive the scheme they name.     *)
(***************************************************************************)
EXTENDS Naturals, FiniteSets

CONSTANTS Schemes,     \* ids of schemes, all of one organisation
          MaxEvents    \* bound: rows of the trail

VARIABLES scheme,      \* id -> unit_count, 0 when there is no such row
          trail        \* rows of resource_audit_events

(* A row: scheme_id, action, resource_id, before_state and after_state.    *)
Event(s, action, id, before, after) ==
  [scheme |-> s, action |-> action, id |-> id, before |-> before, after |-> after]

GetScheme(s) == scheme[s] > 0

(* RecordResourceEvent succeeds or is lost.                                *)
RecordResourceEvent(e) ==
  \/ trail' = trail
  \/ Cardinality(trail) < MaxEvents /\ trail' = trail \cup {e}

ListResourceAuditEventsByScheme(s) == {e \in trail: e.scheme = s}

(* Events of a scheme that is gone are for the admins of the organisation. *)
listEventsForDeletedScheme(role, s) ==
  IF role = "admin" THEN ListResourceAuditEventsByScheme(s) ELSE {}

(* ListSchemeEvents: an admin of the organisation or a trustee, whose      *)
(* membership goes with the scheme.                                        *)
ListSchemeEvents(role, s) ==
  IF ~GetScheme(s) THEN listEventsForDeletedScheme(role, s)
  ELSE IF role \in {"admin", "trustee"} THEN ListResourceAuditEventsByScheme(s)
  ELSE {}
=============================================================================
