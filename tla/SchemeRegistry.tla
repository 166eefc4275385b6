--------------------------- MODULE SchemeRegistry ---------------------------
(***************************************************************************)
(* The schemes of an organisation and their units (backend/internal/       *)
(* scheme), and the Setup that creates the first scheme (auth).  A request *)
(* reads, checks and then writes in separate statements; nothing locks     *)
(* what it read.  What a request checked with its reads is one step here,  *)
(* its write and the audit event that follows it another.  The ids of rows *)
(* that are gone are drawn again, which a uuid is not; a request that      *)
(* still names one has raced.                                              *)
(***************************************************************************)
EXTENDS ResourceAudit, FiniteSetsExt

CONSTANTS UnitIds,     \* ids of units
          Whole,       \* 10000 basis points, in shares the instance tells apart
          MaxCount,    \* bound: unit_count of a scheme
          Requests     \* requests that may be under way at one time

ASSUME RegistryAssumption ==
  /\ Whole \in Nat \ {0} /\ MaxCount \in Nat \ {0}
  /\ Schemes \cap UnitIds = {} /\ "none" \notin Schemes /\ IsFiniteSet(UnitIds)

VARIABLES unit,        \* id -> row
          request,     \* request -> what it checked and is about to write
          raced        \* some request committed while another was under way

registryVars == <<scheme, trail, unit, request, raced>>

Count == 1..MaxCount
Share == 1..Whole

NoUnitRow == [scheme |-> "none", bps |-> 0]
Unit == [scheme: Schemes, bps: Share]

Idle == [op |-> "idle", s |-> "none", u |-> "none", n |-> 0, seen |-> 0]
Request == [op: {"idle", "setup", "update", "createUnit", "updateUnit"}, s: Schemes \cup {"none"},
            u: UnitIds \cup {"none"}, n: Nat, seen: Nat]

RegistryInit ==
  /\ scheme = [s \in Schemes |-> 0]
  /\ unit = [u \in UnitIds |-> NoUnitRow]
  /\ trail = {} /\ raced = FALSE
  /\ request = [r \in Requests |-> Idle]

(* The reads.                                                              *)
ListUnitsByScheme(s) == {u \in UnitIds: unit[u].scheme = s}
SumOf(us) == SumFunctionOnSet([u \in UnitIds |-> unit[u].bps], us)
SumSectionValuesByScheme(s) == SumOf(ListUnitsByScheme(s))
ListSchemesByOrg == {s \in Schemes: GetScheme(s)}

Checked(r, rec) ==
  /\ request[r] = Idle
  /\ request' = [request EXCEPT ![r] = rec]
  /\ UNCHANGED <<scheme, trail, unit, raced>>

Overtakes(r) == raced' = (raced \/ \E q \in Requests \ {r}: request[q] # Idle)

Answered(r) == request' = [request EXCEPT ![r] = Idle] /\ Overtakes(r)

(* The before-image of an audit event: what the request read.  A plausible *)
(* bug takes it from the row after the write.                              *)
StateWritten(q) == q.n
BeforeState(q) == q.seen

(***************************************************************************)
(* Setup: only for an organisation without schemes.                        *)
(***************************************************************************)
Setup(r) ==
  /\ ListSchemesByOrg = {}
  /\ Checked(r, [op |-> "setup", s |-> "none", u |-> "none", n |-> 0, seen |-> 0])

CommitSetup(r, s, n) ==
  /\ request[r].op = "setup"
  /\ ~GetScheme(s)
  /\ scheme' = [scheme EXCEPT ![s] = n]
  /\ Answered(r)
  /\ UNCHANGED <<unit, trail>>

(***************************************************************************)
(* Schemes.                                                                *)
(***************************************************************************)
Create(r, s, n) ==
  /\ request[r] = Idle
  /\ ~GetScheme(s)
  /\ scheme' = [scheme EXCEPT ![s] = n]
  /\ RecordResourceEvent(Event(s, "scheme.created", s, 0, n))
  /\ Answered(r)
  /\ UNCHANGED unit

(* The count may not fall below the units there are.                       *)
FitsUnits(s, n) == n # scheme[s] => n >= Cardinality(ListUnitsByScheme(s))

Update(r, s, n) ==
  /\ GetScheme(s)
  /\ FitsUnits(s, n)
  /\ Checked(r, [op |-> "update", s |-> s, u |-> "none", n |-> n, seen |-> scheme[s]])

UpdateScheme(r) ==
  LET q == request[r] IN
  /\ q.op = "update"
  /\ GetScheme(q.s)
  /\ scheme' = [scheme EXCEPT ![q.s] = q.n]
  /\ RecordResourceEvent(Event(q.s, "scheme.updated", q.s, BeforeState(q), q.n))
  /\ Answered(r)
  /\ UNCHANGED unit

(* Units go with the scheme (ON DELETE CASCADE), its audit events do not.  *)
Delete(r, s) ==
  /\ request[r] = Idle
  /\ GetScheme(s)
  /\ scheme' = [scheme EXCEPT ![s] = 0]
  /\ unit' = [u \in UnitIds |-> IF unit[u].scheme = s THEN NoUnitRow ELSE unit[u]]
  /\ RecordResourceEvent(Event(s, "scheme.deleted", s, scheme[s], 0))
  /\ Answered(r)

(***************************************************************************)
(* Units.                                                                  *)
(***************************************************************************)
(* A plausible bug: one unit more than the count.                          *)
RoomForOneMore(s, bps) ==
  /\ SumSectionValuesByScheme(s) + bps <= Whole
  /\ Cardinality(ListUnitsByScheme(s)) <= scheme[s]

RoomForUnit(s, bps) ==
  /\ SumSectionValuesByScheme(s) + bps <= Whole
  /\ Cardinality(ListUnitsByScheme(s)) < scheme[s]

CreateUnit(r, s, u, bps) ==
  /\ GetScheme(s)
  /\ unit[u] = NoUnitRow /\ \A q \in Requests: request[q].u # u
  /\ RoomForUnit(s, bps)
  /\ Checked(r, [op |-> "createUnit", s |-> s, u |-> u, n |-> bps, seen |-> 0])

(* The insert needs its scheme (foreign key) and a free row.               *)
InsertUnit(r) ==
  LET q == request[r] IN
  /\ q.op = "createUnit"
  /\ GetScheme(q.s) /\ unit[q.u] = NoUnitRow
  /\ unit' = [unit EXCEPT ![q.u] = [scheme |-> q.s, bps |-> q.n]]
  /\ RecordResourceEvent(Event(q.s, "unit.created", q.u, 0, q.n))
  /\ Answered(r)
  /\ UNCHANGED scheme

adjustedTotal(u, bps) ==
  (SumSectionValuesByScheme(unit[u].scheme) - unit[u].bps) + bps

UpdateUnit(r, u, bps) ==
  /\ unit[u] # NoUnitRow
  /\ bps # unit[u].bps => adjustedTotal(u, bps) <= Whole
  /\ Checked(r, [op |-> "updateUnit", s |-> unit[u].scheme, u |-> u, n |-> bps, seen |-> unit[u].bps])

WriteUnit(r) ==
  LET q == request[r] IN
  /\ q.op = "updateUnit"
  /\ unit[q.u] # NoUnitRow
  /\ unit' = [unit EXCEPT ![q.u].bps = q.n]
  /\ RecordResourceEvent(Event(q.s, "unit.updated", q.u, BeforeState(q), q.n))
  /\ Answered(r)
  /\ UNCHANGED scheme

(* A statement fails, or the row it wants is gone.                         *)
RequestFails(r) ==
  /\ request[r] # Idle
  /\ request' = [request EXCEPT ![r] = Idle]
  /\ UNCHANGED <<scheme, trail, unit, raced>>

RegistryNext ==
  \E r \in Requests:
    \/ Setup(r) \/ UpdateScheme(r) \/ InsertUnit(r) \/ WriteUnit(r) \/ RequestFails(r)
    \/ \E s \in Schemes: \/ Delete(r, s)
                         \/ \E n \in Count: CommitSetup(r, s, n) \/ Create(r, s, n) \/ Update(r, s, n)
                         \/ \E u \in UnitIds, bps \in Share: CreateUnit(r, s, u, bps)
    \/ \E u \in UnitIds, bps \in Share: UpdateUnit(r, u, bps)

RegistrySpec == RegistryInit /\ [][RegistryNext]_registryVars

RegistryTypeOK ==
  /\ scheme \in [Schemes -> 0..MaxCount]
  /\ \A u \in UnitIds: unit[u] # NoUnitRow => unit[u] \in Unit /\ GetScheme(unit[u].scheme)
  /\ request \in [Requests -> Request]
  /\ raced \in BOOLEAN

(* While requests come one at a time, the participation quotas of a scheme *)
(* add up to no more than the whole and it has no more units than it says; *)
(* every path that adds a unit, changes its quota or lowers the count has  *)
(* to look (service.go:343, 449, 520).  Two at a time break both.          *)
QuotasFit ==
  ~raced => \A s \in Schemes: /\ SumSectionValuesByScheme(s) <= Whole
                              /\ Cardinality(ListUnitsByScheme(s)) <= scheme[s]

Value(s, id) == IF id = s THEN scheme[s] ELSE unit[id].bps

EventsTell ==
  \A e \in trail' \ trail: ~raced' => /\ Value(e.scheme, e.id) = e.before
                                      /\ Value(e.scheme, e.id)' = e.after

HistoryStays ==
  \A s \in Schemes: ListSchemeEvents("admin", s) \subseteq ListSchemeEvents("admin", s)'

(* What the trail says of a write is what the write did: the state before  *)
(* it, as read when the request began, is the one it replaced, unless      *)
(* another request committed in between; and deleting a scheme takes none  *)
(* of its history from the organisation's admins (service.go:368, 546;     *)
(* audit/service.go:298).                                                  *)
TrailIsKept == [][EventsTell /\ HistoryStays]_registryVars
=============================================================================
