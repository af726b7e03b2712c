----------------------- MODULE MissionRequests_proofs -----------------------
(***************************************************************************)
(* Theorems about concurrent requests, for every number of clients.        *)
(***************************************************************************)
EXTENDS MissionRequests, FiniteSetTheorems, TLAPS

-----------------------------------------------------------------------------
(* The rows of the serial specification are those of the aggregate root. *)
LEMMA SerialRows == Serial!Row = Row /\ Serial!Path = Path /\ Serial!Config = Config
BY DEF Serial!Row, Row, Serial!Statuses, Statuses, Serial!Computations, Computations,
       Serial!Plan, Plan, Serial!Path, Path, Serial!Shapes, Shapes, Serial!Config, Config

(* Well-formed states, spelled out. *)
LEMMA Typing ==
  TypeOK <=> /\ mission \in [Missions -> Row \cup {Absent}]
             /\ drones \subseteq Drones
             /\ accepted \in [Missions -> Path \cup {NoPath}]
             /\ delivered \in [Missions -> Path \cup {NoPath}]
             /\ request \in [Clients -> Request \cup {Idle}]
BY SerialRows DEF TypeOK, Serial!TypeOK

-----------------------------------------------------------------------------
(* What a session carries and what its flush does to a row *)

(* The requests that end in an UPDATE of the columns they changed. *)
Flushable == {"save", "add", "remove", "edit", "accept", "export", "poll"}

(* What a request knows of itself, whatever has become of the table: it    *)
(* takes a plan away from nobody, leaves DRAFT only with a plan, and adds  *)
(* an inspection only under the row lock and below the limit.              *)
CopyOK(q) ==
  /\ q.step = "export" => q.old.plan # NoPlan
  /\ q.step \in Flushable =>
       /\ q.new.plan # q.old.plan => q.old.plan # NoPlan /\ q.new.plan # NoPlan
       /\ q.new.status # q.old.status /\ q.new.status \notin {"DRAFT", "CANCELLED"}
            => q.old.plan # NoPlan
       /\ q.step # "add"
            => q.new.config.inspections \subseteq q.old.config.inspections
  /\ q.step = "add" =>
       /\ \E i \in Inspections :
            q.new.config.inspections = q.old.config.inspections \cup {i}
       /\ Cardinality(q.old.config.inspections) < MaxInspections

(* A column of a flushed row has the current or the new value. *)
LEMMA ColumnValue ==
  ASSUME NEW S, NEW cur \in S, NEW old \in S, NEW new \in S
  PROVE  Column(cur, old, new) \in S
BY DEF Column

(* Merging configurations yields a configuration. *)
LEMMA MergedConfigType ==
  ASSUME NEW cur \in Config, NEW old \in Config, NEW new \in Config
  PROVE  MergedConfig(cur, old, new) \in Config
BY DEF MergedConfig, Column, Config

(* So does merging plans, if the row still has the plan that was edited. *)
LEMMA MergedPlanType ==
  ASSUME NEW cur \in Plan \cup {NoPlan}, NEW old \in Plan \cup {NoPlan},
         NEW new \in Plan \cup {NoPlan},
         new # old => old # NoPlan /\ new # NoPlan,
         old # NoPlan => cur # NoPlan
  PROVE  /\ MergedPlan(cur, old, new) \in Plan \cup {NoPlan}
         /\ cur # NoPlan => MergedPlan(cur, old, new) # NoPlan
<1>1. CASE new = old
  BY <1>1 DEF MergedPlan
<1>2. CASE new # old
  <2>1. cur \in Plan /\ old \in Plan /\ new \in Plan
    BY <1>2
  <2>2. MergedConfig(cur.path.config, old.path.config, new.path.config) \in Config
    BY <2>1, MergedConfigType DEF Plan, Path
  <2>3. MergedPlan(cur, old, new) \in Plan
    BY <1>2, <2>1, <2>2 DEF MergedPlan, Column, Plan, Path
  <2> QED BY <2>3, SentinelAssumption
<1> QED BY <1>1, <1>2

(* The row a flush leaves behind. *)
LEMMA MergeType ==
  ASSUME NEW cur \in Row, NEW old \in Row, NEW new \in Row,
         new.plan # old.plan => old.plan # NoPlan /\ new.plan # NoPlan,
         old.plan # NoPlan => cur.plan # NoPlan
  PROVE  /\ Merge(cur, old, new) \in Row
         /\ cur.plan # NoPlan => Merge(cur, old, new).plan # NoPlan
         /\ Merge(cur, old, new).status = Column(cur.status, old.status, new.status)
         /\ Merge(cur, old, new).config.inspections =
              (cur.config.inspections \cup (new.config.inspections \ old.config.inspections))
                \ (old.config.inspections \ new.config.inspections)
         /\ Merge(cur, old, new).config.drone =
              Column(cur.config.drone, old.config.drone, new.config.drone)
<1>1. MergedConfig(cur.config, old.config, new.config) \in Config
  BY MergedConfigType DEF Row
<1>2. /\ MergedPlan(cur.plan, old.plan, new.plan) \in Plan \cup {NoPlan}
      /\ cur.plan # NoPlan => MergedPlan(cur.plan, old.plan, new.plan) # NoPlan
  BY MergedPlanType DEF Row
<1>3. Merge(cur, old, new) \in Row
  BY <1>1, <1>2 DEF Merge, Column, Row
<1> QED BY <1>2, <1>3 DEF Merge, MergedConfig

-----------------------------------------------------------------------------
(* The invariant *)

(* The two properties of a row. *)
RowOK(r) ==
  /\ r.status \notin {"DRAFT", "CANCELLED"} => r.plan # NoPlan
  /\ IsFiniteSet(r.config.inspections)
  /\ Cardinality(r.config.inspections) <= MaxInspections

(* What request q has loaded is not ahead of row r: a plan it has seen is  *)
(* still followed by one, and under the row lock no inspection has come or *)
(* gone.                                                                   *)
ViewOK(q, r) ==
  /\ q.old.plan # NoPlan => r.plan # NoPlan
  /\ q.step = "add" => q.old.config.inspections = r.config.inspections

OneAdder ==
  \A c, d \in Clients :
    /\ InFlight(c, {"add"}) /\ InFlight(d, {"add"})
    /\ request[c].mission = request[d].mission
    => c = d

SessionInv ==
  /\ TypeOK
  /\ \A m \in Missions : Exists(m) => RowOK(mission[m])
  /\ \A c \in Clients : request[c] # Idle =>
       /\ CopyOK(request[c])
       /\ Exists(request[c].mission) => ViewOK(request[c], mission[request[c].mission])
  /\ OneAdder

Same(p, q) == p.step = q.step /\ p.mission = q.mission /\ p.old = q.old /\ p.new = q.new

(* Request q can live with its row r becoming s. *)
Bearable(q, r, s) ==
  s # Absent =>
    /\ r # Absent
    /\ r.plan # NoPlan => s.plan # NoPlan
    /\ q.step = "add" => s.config.inspections = r.config.inspections

(* A step that opens no request and keeps rows sound and requests alive.   *)
LEMMA TableStep ==
  ASSUME SessionInv, TypeOK',
         \A m \in Missions : mission'[m] # Absent => RowOK(mission'[m]),
         \A d \in Clients : request'[d] # Idle =>
           /\ request[d] # Idle /\ Same(request'[d], request[d])
           /\ Bearable(request[d], mission[request[d].mission], mission'[request[d].mission])
  PROVE  SessionInv'
<1>1. ASSUME NEW m \in Missions, Exists(m)' PROVE RowOK(mission[m])'
  BY <1>1 DEF Exists, RowOK
<1>2. ASSUME NEW d \in Clients, request'[d] # Idle
      PROVE  /\ CopyOK(request'[d])
             /\ mission'[request'[d].mission] # Absent
                  => ViewOK(request'[d], mission'[request'[d].mission])
  <2>1. /\ CopyOK(request[d]) /\ Same(request'[d], request[d])
        /\ mission[request[d].mission] # Absent
             => ViewOK(request[d], mission[request[d].mission])
        /\ Bearable(request[d], mission[request[d].mission], mission'[request[d].mission])
    BY <1>2 DEF SessionInv, Exists
  <2> QED BY <2>1 DEF Same, CopyOK, ViewOK, Bearable
<1>3. OneAdder'
  BY DEF SessionInv, OneAdder, InFlight, Same
<1> QED BY <1>1, <1>2, <1>3 DEF SessionInv, Exists, CopyOK, ViewOK

(* Opening a request: the table stands, the copy is in order and an adder  *)
(* has the row lock.                                                       *)
LEMMA OpenRequest ==
  ASSUME SessionInv, NEW c \in Clients, NEW step \in Steps, NEW m \in Missions, Exists(m),
         NEW new \in Row, Start(c, step, m, new),
         CopyOK([step |-> step, mission |-> m, old |-> mission[m], new |-> new,
                 replaced |-> FALSE]),
         step = "add" => ~RowLocked(m, c)
  PROVE  SessionInv'
<1> DEFINE q == [step |-> step, mission |-> m, old |-> mission[m], new |-> new,
                 replaced |-> FALSE]
<1>1. /\ request[c] = Idle
      /\ request' = [request EXCEPT ![c] = q]
      /\ mission' = mission /\ drones' = drones
      /\ accepted' = accepted /\ delivered' = delivered
  BY DEF Start, table
<1>2. q \in Request /\ q.step = step /\ q.mission = m /\ q.old = mission[m]
  BY Typing DEF Request, SessionInv, Exists
<1>3. CopyOK(q) /\ q # Idle
  BY <1>2, ClientAssumption
<1> HIDE DEF q
<1>4. TypeOK'
  BY <1>1, <1>2 DEF SessionInv, TypeOK, Serial!TypeOK
<1>5. ViewOK(q, mission[m])
  BY <1>2 DEF ViewOK
<1>6. \A d \in Clients : request'[d] = IF d = c THEN q ELSE request[d]
  BY <1>1 DEF SessionInv, TypeOK
<1>7. OneAdder'
  <2>1. ASSUME NEW d \in Clients, d # c, InFlight(d, {"add"}), InFlight(c, {"add"})',
               request[d].mission = m
        PROVE  FALSE
    BY <1>2, <1>6, <2>1 DEF InFlight, RowLocked
  <2> QED BY <1>2, <1>6, <2>1 DEF OneAdder, InFlight, SessionInv
<1>8. \A n \in Missions : Exists(n)' => RowOK(mission[n])'
  BY <1>1 DEF Exists, RowOK, SessionInv
<1>9. ASSUME NEW d \in Clients, request'[d] # Idle
      PROVE  /\ CopyOK(request'[d])
             /\ mission'[request'[d].mission] # Absent
                  => ViewOK(request'[d], mission'[request'[d].mission])
  BY <1>1, <1>2, <1>3, <1>5, <1>6, <1>9 DEF SessionInv, Exists
<1> QED BY <1>4, <1>7, <1>8, <1>9 DEF SessionInv, Exists, CopyOK, ViewOK

-----------------------------------------------------------------------------
(* Second halves *)

(* One row r becomes s, or goes, and client c, if any, ends its request.   *)
LEMMA RowStep ==
  ASSUME SessionInv, NEW m \in Missions, Exists(m), NEW s \in Row \cup {Absent},
         mission' = [mission EXCEPT ![m] = s],
         drones' = drones,
         accepted' \in [Missions -> Path \cup {NoPath}],
         delivered' \in [Missions -> Path \cup {NoPath}],
         request' \in [Clients -> Request \cup {Idle}],
         s # Absent => RowOK(s),
         \A d \in Clients : request'[d] # Idle =>
           /\ request[d] # Idle /\ Same(request'[d], request[d])
           /\ request[d].mission = m => Bearable(request[d], mission[m], s)
  PROVE  SessionInv'
<1>1. TypeOK'
  BY SerialRows DEF SessionInv, TypeOK, Serial!TypeOK
<1>2. \A n \in Missions : mission'[n] = IF n = m THEN s ELSE mission[n]
  BY Typing DEF SessionInv
<1>3. ASSUME NEW n \in Missions, mission'[n] # Absent PROVE RowOK(mission'[n])
  BY <1>2, <1>3 DEF SessionInv, Exists
<1>4. ASSUME NEW d \in Clients, request'[d] # Idle
      PROVE  Bearable(request[d], mission[request[d].mission], mission'[request[d].mission])
  <2>1. request[d].mission \in Missions
    BY <1>4, Typing DEF SessionInv, Request
  <2>2. CASE request[d].mission = m
    BY <1>2, <1>4, <2>2
  <2>3. CASE request[d].mission # m
    BY <1>2, <2>1, <2>3 DEF Bearable
  <2> QED BY <2>2, <2>3
<1> QED BY <1>1, <1>3, <1>4, TableStep

(* The row a session flushes is sound: the flush takes no plan away and    *)
(* leaves DRAFT only with a plan; only an adder, alone on its row, brings  *)
(* an inspection.                                                          *)
LEMMA FlushedRow ==
  ASSUME SessionInv, NEW c \in Clients, request[c] # Idle,
         request[c].step \in Flushable, Exists(request[c].mission)
  PROVE  LET q == request[c]
             r == mission[q.mission]
             s == Merge(r, q.old, q.new)
         IN  /\ q.mission \in Missions /\ q.old \in Row /\ q.new \in Row
             /\ r \in Row /\ s \in Row
             /\ r.plan # NoPlan => s.plan # NoPlan
             /\ RowOK(s)
<1> DEFINE q == request[c]
           r == mission[q.mission]
           s == Merge(r, q.old, q.new)
<1>1. /\ q \in Request /\ q.mission \in Missions /\ q.old \in Row /\ q.new \in Row
      /\ r \in Row
  BY Typing DEF SessionInv, Request, Exists
<1>2. CopyOK(q) /\ ViewOK(q, r) /\ RowOK(r) /\ q.step \in Flushable
  BY <1>1 DEF SessionInv
<1> HIDE DEF q, r
<1>3. /\ s \in Row
      /\ r.plan # NoPlan => s.plan # NoPlan
      /\ s.status = Column(r.status, q.old.status, q.new.status)
      /\ s.config.inspections =
           (r.config.inspections \cup (q.new.config.inspections \ q.old.config.inspections))
             \ (q.old.config.inspections \ q.new.config.inspections)
  BY <1>1, <1>2, MergeType DEF CopyOK, ViewOK
<1> HIDE DEF s
<1>4. s.status \notin {"DRAFT", "CANCELLED"} => s.plan # NoPlan
  BY <1>2, <1>3 DEF CopyOK, ViewOK, RowOK, Column
<1>5. /\ IsFiniteSet(s.config.inspections)
      /\ Cardinality(s.config.inspections) <= MaxInspections
  <2>1. CASE q.step # "add"
    <3>1. s.config.inspections \subseteq r.config.inspections
      BY <1>2, <1>3, <2>1 DEF CopyOK
    <3>2. /\ IsFiniteSet(r.config.inspections)
          /\ Cardinality(r.config.inspections) <= MaxInspections
      BY <1>2 DEF RowOK
    <3>3. /\ IsFiniteSet(s.config.inspections)
          /\ Cardinality(s.config.inspections) <= Cardinality(r.config.inspections)
          /\ Cardinality(s.config.inspections) \in Nat
          /\ Cardinality(r.config.inspections) \in Nat
      BY <3>1, <3>2, FS_Subset, FS_CardinalityType
    <3> QED BY <3>2, <3>3, ValueAssumption
  <2>2. CASE q.step = "add"
    <3>1. PICK i \in Inspections :
            q.new.config.inspections = q.old.config.inspections \cup {i}
      BY <1>2, <2>2 DEF CopyOK
    <3>2. s.config.inspections = r.config.inspections \cup {i}
      BY <1>2, <1>3, <2>2, <3>1 DEF ViewOK
    <3>3. /\ IsFiniteSet(r.config.inspections)
          /\ Cardinality(r.config.inspections) < MaxInspections
      BY <1>2, <2>2 DEF RowOK, CopyOK, ViewOK
    <3>4. Cardinality(r.config.inspections) \in Nat
      BY <3>3, FS_CardinalityType
    <3>5. /\ IsFiniteSet(r.config.inspections \cup {i})
          /\ \/ Cardinality(r.config.inspections \cup {i}) = Cardinality(r.config.inspections)
             \/ Cardinality(r.config.inspections \cup {i})
                  = Cardinality(r.config.inspections) + 1
      BY <3>3, FS_AddElement
    <3> QED BY <3>2, <3>3, <3>4, <3>5, ValueAssumption
  <2> QED BY <2>1, <2>2
<1>6. RowOK(s)
  BY <1>4, <1>5 DEF RowOK
<1> QED BY <1>1, <1>3, <1>6 DEF q, r, s

(* A commit of what a session has changed keeps the invariant. *)
LEMMA CommitStep ==
  ASSUME SessionInv, NEW c \in Clients, Committable(c, Flushable),
         mission' = Flushed(c), drones' = drones, End(c),
         accepted' \in [Missions -> Path \cup {NoPath}],
         delivered' \in [Missions -> Path \cup {NoPath}]
  PROVE  SessionInv'
<1> DEFINE q == request[c]
           r == mission[q.mission]
           s == Merge(r, q.old, q.new)
<1>1. q # Idle /\ q.step \in Flushable /\ Exists(q.mission) /\ ~RowLocked(q.mission, c)
  BY DEF Committable, InFlight
<1>2. /\ q.mission \in Missions /\ s \in Row /\ RowOK(s)
      /\ r.plan # NoPlan => s.plan # NoPlan
  BY <1>1, FlushedRow
<1>3. mission' = [mission EXCEPT ![q.mission] = s]
  BY DEF Flushed
<1>4. \A d \in Clients : request'[d] = IF d = c THEN Idle ELSE request[d]
  BY Typing DEF End, SessionInv
<1>5. request' \in [Clients -> Request \cup {Idle}]
  BY Typing DEF End, SessionInv
<1> HIDE DEF s
<1>6. ASSUME NEW d \in Clients, request'[d] # Idle
      PROVE  /\ request[d] # Idle /\ Same(request'[d], request[d])
             /\ request[d].mission = q.mission => Bearable(request[d], mission[q.mission], s)
  <2>1. d # c /\ request'[d] = request[d]
    BY <1>4, <1>6
  <2>2. ~(request[d].step = "add" /\ request[d].mission = q.mission)
    BY <1>1, <1>6, <2>1 DEF RowLocked, InFlight
  <2> QED BY <1>1, <1>2, <1>6, <2>1, <2>2 DEF Same, Bearable, Exists
<1> HIDE DEF q
<1> QED BY <1>1, <1>2, <1>3, <1>5, <1>6, RowStep

-----------------------------------------------------------------------------
(* First halves *)

(* The histories a commit keeps. *)
LEMMA KeptType ==
  ASSUME NEW history \in [Missions -> Path \cup {NoPath}], NEW rows
  PROVE  Serial!Kept(history, rows) \in [Missions -> Path \cup {NoPath}]
BY DEF Serial!Kept

(* An existing row in a sound state. *)
LEMMA SoundRow ==
  ASSUME SessionInv, NEW m \in Missions, Exists(m)
  PROVE  mission[m] \in Row /\ mission[m] # Absent /\ RowOK(mission[m])
BY Typing DEF SessionInv, Exists

(* Losing the trajectory takes the plan from nobody and ends in DRAFT. *)
LEMMA ReconfigureCopy ==
  ASSUME NEW r \in Row, NEW c \in Config, CanInvalidate(r)
  PROVE  /\ Reconfigure(r, c) \in Row
         /\ Reconfigure(r, c).plan = r.plan
         /\ Reconfigure(r, c).config = c
         /\ Reconfigure(r, c).status = "DRAFT"
<1>1. Reconfigure(r, c) \in Row
  BY ReconfigureRow
<1> QED
  BY <1>1 DEF Reconfigure, InvalidateTrajectory, CanInvalidate, Row, Statuses,
              NON_DRAFT_WITH_PLAN_STATUSES, TERMINAL_STATUSES

LEMMA RenormalizeCopy ==
  ASSUME NEW r \in Row, NEW p \in Points
  PROVE  /\ Renormalize(r, p) \in Row
         /\ Renormalize(r, p).plan = r.plan
         /\ Renormalize(r, p).config.inspections = r.config.inspections
         /\ Renormalize(r, p).status \in {"DRAFT", r.status}
<1>1. Renormalize(r, p) \in Row
  BY RenormalizeRow
<1> QED BY <1>1 DEF Renormalize, InvalidateTrajectory, Row, Config

(* An edit of the waypoints of an existing plan. *)
LEMMA EditCopy ==
  ASSUME NEW r \in Row, NEW s \in HandEdits, CanEditWaypoints(r)
  PROVE  /\ EditWaypoints(r, s) \in Row
         /\ EditWaypoints(r, s).plan # NoPlan
         /\ EditWaypoints(r, s).config = r.config
         /\ \A p \in Points :
              /\ MoveEndpoint(r, s, p) \in Row
              /\ MoveEndpoint(r, s, p).plan # NoPlan
              /\ MoveEndpoint(r, s, p).config.inspections = r.config.inspections
<1> DEFINE e == EditWaypoints(r, s)
<1>1. e \in Row /\ e.plan \in Plan
  BY EditWaypointsRow DEF CanEditWaypoints
<1>2. e.config = r.config
  BY DEF EditWaypoints, RegressToPlanned, Row
<1>3. ASSUME NEW p \in Points
      PROVE  /\ MoveEndpoint(r, s, p) \in Row /\ MoveEndpoint(r, s, p).plan \in Plan
             /\ MoveEndpoint(r, s, p).config.inspections = r.config.inspections
  <2>1. MoveEndpoint(r, s, p) \in Row /\ MoveEndpoint(r, s, p).plan \in Plan
    BY MoveEndpointRow DEF CanEditWaypoints
  <2>2. MoveEndpoint(r, s, p) = [e EXCEPT !.config.takeoff = p, !.plan.path.config.takeoff = p]
    BY DEF MoveEndpoint
  <2> HIDE DEF e
  <2>3. MoveEndpoint(r, s, p).config = [e.config EXCEPT !.takeoff = p]
    BY <1>1, <2>2 DEF Row
  <2>4. MoveEndpoint(r, s, p).config.inspections = r.config.inspections
    BY <1>2, <2>3 DEF Row, Config
  <2> QED BY <2>1, <2>4
<1> QED BY <1>1, <1>2, <1>3, SentinelAssumption

(* Reading for an update of the mission or of its inspections. *)
LEMMA ReadConfigStep ==
  ASSUME SessionInv, NEW c \in Clients, NEW m \in Missions,
         \/ ReadUpdate(c, m)
         \/ \E i \in Inspections : LockForAdd(c, m, i) \/ ReadDeleteInspection(c, m, i)
         \/ \E p \in Points : ReadRenormalize(c, m, p)
  PROVE  SessionInv'
<1> DEFINE r == mission[m]
<1>0. Exists(m) /\ r \in Row
  BY SoundRow DEF ReadUpdate, LockForAdd, ReadDeleteInspection, ReadRenormalize
<1>1. CASE ReadUpdate(c, m)
  <2>1. PICK cfg \in Serial!Choices(r.config.inspections) :
          Start(c, "save", m, Reconfigure(r, cfg))
    BY <1>1 DEF ReadUpdate
  <2>2. cfg \in Config /\ cfg.inspections = r.config.inspections /\ CanInvalidate(r)
    BY <1>1, <2>1, SerialRows DEF Serial!Choices, ReadUpdate
  <2> HIDE DEF r
  <2>3. CopyOK([step |-> "save", mission |-> m, old |-> r, new |-> Reconfigure(r, cfg),
                replaced |-> FALSE])
    BY <1>0, <2>2, ReconfigureCopy DEF CopyOK
  <2> QED BY <1>0, <2>1, <2>2, <2>3, ReconfigureCopy, OpenRequest DEF Steps, r
<1>2. ASSUME NEW i \in Inspections, LockForAdd(c, m, i) PROVE SessionInv'
  <2> DEFINE cfg == [r.config EXCEPT !.inspections = @ \cup {i}]
  <2>1. /\ Start(c, "add", m, Reconfigure(r, cfg)) /\ ~RowLocked(m, c)
        /\ CanInvalidate(r) /\ Cardinality(r.config.inspections) < MaxInspections
    BY <1>2 DEF LockForAdd, CanAddInspection
  <2>2. cfg \in Config /\ cfg.inspections = r.config.inspections \cup {i}
    BY <1>0 DEF Row, Config
  <2> HIDE DEF r, cfg
  <2>3. CopyOK([step |-> "add", mission |-> m, old |-> r, new |-> Reconfigure(r, cfg),
                replaced |-> FALSE])
    BY <1>0, <2>1, <2>2, ReconfigureCopy DEF CopyOK
  <2> QED BY <1>0, <2>1, <2>2, <2>3, ReconfigureCopy, OpenRequest DEF Steps, r
<1>3. ASSUME NEW i \in Inspections, ReadDeleteInspection(c, m, i) PROVE SessionInv'
  <2> DEFINE cfg == [r.config EXCEPT !.inspections = @ \ {i}]
  <2>1. Start(c, "remove", m, Reconfigure(r, cfg)) /\ CanInvalidate(r)
    BY <1>3 DEF ReadDeleteInspection
  <2>2. cfg \in Config /\ cfg.inspections \subseteq r.config.inspections
    BY <1>0 DEF Row, Config
  <2> HIDE DEF r, cfg
  <2>3. CopyOK([step |-> "remove", mission |-> m, old |-> r, new |-> Reconfigure(r, cfg),
                replaced |-> FALSE])
    BY <1>0, <2>1, <2>2, ReconfigureCopy DEF CopyOK
  <2> QED BY <1>0, <2>1, <2>2, <2>3, ReconfigureCopy, OpenRequest DEF Steps, r
<1>4. ASSUME NEW p \in Points, ReadRenormalize(c, m, p) PROVE SessionInv'
  <2>1. Start(c, "save", m, Renormalize(r, p))
    BY <1>4 DEF ReadRenormalize
  <2> HIDE DEF r
  <2>2. CopyOK([step |-> "save", mission |-> m, old |-> r, new |-> Renormalize(r, p),
                replaced |-> FALSE])
    BY <1>0, RenormalizeCopy DEF CopyOK
  <2> QED BY <1>0, <2>1, <2>2, RenormalizeCopy, OpenRequest DEF Steps, r
<1> QED BY <1>1, <1>2, <1>3, <1>4

(* A row that only changes its status, from one that needs a plan. *)
LEMMA StatusCopy ==
  ASSUME NEW r \in Row, RowOK(r), NEW s \in Row, NEW step \in Flushable \ {"add"}, NEW m,
         s.plan = r.plan, s.config = r.config,
         s.status # r.status => r.status \notin {"DRAFT", "CANCELLED"} \/ s.status = "CANCELLED",
         step = "export" => r.plan # NoPlan
  PROVE  CopyOK([step |-> step, mission |-> m, old |-> r, new |-> s, replaced |-> FALSE])
BY DEF CopyOK, RowOK

(* Reading for a change of the waypoints or of the validation result. *)
LEMMA ReadPlanStep ==
  ASSUME SessionInv, NEW c \in Clients, NEW m \in Missions,
         ReadEdit(c, m) \/ ReadRevalidate(c, m)
  PROVE  SessionInv'
<1> DEFINE r == mission[m]
<1>0. Exists(m) /\ r \in Row
  BY SoundRow DEF ReadEdit, ReadRevalidate
<1>1. ASSUME NEW s \in Row, Start(c, "edit", m, s), r.plan # NoPlan, s.plan # NoPlan,
             s.config.inspections = r.config.inspections
      PROVE  SessionInv'
  <2> HIDE DEF r
  <2>1. CopyOK([step |-> "edit", mission |-> m, old |-> r, new |-> s, replaced |-> FALSE])
    BY <1>1 DEF CopyOK
  <2> QED BY <1>0, <1>1, <2>1, OpenRequest DEF Steps, r
<1>2. CASE ReadEdit(c, m)
  <2>1. PICK s \in HandEdits :
          \/ Start(c, "edit", m, EditWaypoints(r, s))
          \/ \E p \in Points : Start(c, "edit", m, MoveEndpoint(r, s, p))
    BY <1>2 DEF ReadEdit
  <2>2. CanEditWaypoints(r) /\ r.plan # NoPlan
    BY <1>2 DEF ReadEdit, CanEditWaypoints
  <2> HIDE DEF r
  <2> QED BY <1>0, <1>1, <2>1, <2>2, EditCopy
<1>3. CASE ReadRevalidate(c, m)
  <2>1. PICK ok \in Verdicts : Start(c, "edit", m, [r EXCEPT !.plan.validated = ok])
    BY <1>3 DEF ReadRevalidate
  <2> DEFINE s == [r EXCEPT !.plan.validated = ok]
  <2>2. r.plan \in Plan /\ ok \in BOOLEAN
    BY <1>0, <1>3, <2>1, ClientAssumption DEF ReadRevalidate, Row
  <2>3. s \in Row /\ s.plan \in Plan /\ s.config = r.config
    BY <1>0, <2>2 DEF Row, Plan
  <2> HIDE DEF s
  <2> QED BY <1>1, <2>1, <2>2, <2>3, SentinelAssumption DEF s
<1> QED BY <1>2, <1>3

(* Reading for a change of the status, for a deletion or in a poll. *)
LEMMA ReadStatusStep ==
  ASSUME SessionInv, NEW c \in Clients, NEW m \in Missions,
         \/ ReadValidate(c, m) \/ ReadExport(c, m) \/ ReadMeasure(c, m)
         \/ ReadFinal(c, m) \/ ReadDelete(c, m) \/ ReadPoll(c, m)
  PROVE  SessionInv'
<1> DEFINE r == mission[m]
<1>0. Exists(m) /\ r \in Row /\ RowOK(r)
  BY SoundRow
     DEF ReadValidate, ReadExport, ReadMeasure, ReadFinal, ReadDelete, ReadPoll
<1>1. ASSUME NEW step \in Flushable \ {"add"}, NEW s \in Row, Start(c, step, m, s),
             s.plan = r.plan, s.config = r.config,
             s.status # r.status
               => r.status \notin {"DRAFT", "CANCELLED"} \/ s.status = "CANCELLED",
             step = "export" => r.plan # NoPlan
      PROVE  SessionInv'
  <2>1. CopyOK([step |-> step, mission |-> m, old |-> r, new |-> s, replaced |-> FALSE])
    BY <1>0, <1>1, StatusCopy
  <2>2. step \in Steps /\ step # "add"
    BY DEF Flushable, Steps
  <2> QED BY <1>0, <1>1, <2>1, <2>2, OpenRequest
<1>2. ASSUME NEW t \in Statuses, CanTransition(r, t), t # "PLANNED"
      PROVE  /\ TransitionTo(r, t) \in Row
             /\ TransitionTo(r, t).plan = r.plan /\ TransitionTo(r, t).config = r.config
             /\ TransitionTo(r, t).status = t
             /\ r.status \notin {"DRAFT", "CANCELLED"} \/ t = "CANCELLED"
  BY <1>0, <1>2, TransitionRow DEF TransitionTo, CanTransition, TRANSITIONS, Row, Statuses
<1>3. CASE ReadValidate(c, m)
  BY <1>1, <1>2, <1>3 DEF ReadValidate, Flushable, Statuses
<1>4. CASE ReadExport(c, m)
  <2>1. /\ Exported(r) \in Row /\ Exported(r).plan = r.plan /\ Exported(r).config = r.config
        /\ r.status \notin {"DRAFT", "CANCELLED"} /\ r.plan # NoPlan
    BY <1>0, <1>4, ExportedRow
       DEF ReadExport, CanExport, EXPORT_ELIGIBLE_STATUSES, Exported, TransitionTo, Row
  <2> QED BY <1>1, <1>4, <2>1 DEF ReadExport, Flushable
<1>5. CASE ReadMeasure(c, m)
  <2>1. /\ MarkMeasured(r) \in Row /\ MarkMeasured(r).plan = r.plan
        /\ MarkMeasured(r).config = r.config
        /\ MarkMeasured(r).status # r.status => r.status \notin {"DRAFT", "CANCELLED"}
    BY <1>0, MarkMeasuredRow DEF MarkMeasured, POST_PLAN_STATUSES, TransitionTo, Row
  <2> QED BY <1>1, <1>5, <2>1 DEF ReadMeasure, Flushable
<1>6. CASE ReadFinal(c, m)
  BY <1>1, <1>2, <1>6 DEF ReadFinal, TERMINAL_STATUSES, Flushable, Statuses
<1>7. CASE ReadDelete(c, m)
  <2> HIDE DEF r
  <2>1. CopyOK([step |-> "delete", mission |-> m, old |-> r, new |-> r, replaced |-> FALSE])
    BY DEF CopyOK, Flushable
  <2> QED BY <1>0, <1>7, <2>1, OpenRequest DEF ReadDelete, Steps, r
<1>8. CASE ReadPoll(c, m)
  <2>1. /\ [r EXCEPT !.computation = "FAILED"] \in Row
        /\ [r EXCEPT !.computation = "FAILED"].plan = r.plan
        /\ [r EXCEPT !.computation = "FAILED"].config = r.config
        /\ [r EXCEPT !.computation = "FAILED"].status = r.status
    BY <1>0 DEF Row, Computations
  <2> QED BY <1>1, <1>8, <2>1 DEF ReadPoll, Flushable
<1> QED BY <1>3, <1>4, <1>5, <1>6, <1>7, <1>8

-----------------------------------------------------------------------------
(* Trajectory generation *)

(* The request of a generation moves on, and the rows keep what the        *)
(* invariant is about.                                                     *)
LEMMA GenerationStep ==
  ASSUME SessionInv, TypeOK', NEW c \in Clients, NEW q \in Request,
         q.step \in {"load", "loaded", "compute"},
         request' = [request EXCEPT ![c] = q],
         \A m \in Missions : mission'[m] # Absent =>
           /\ mission[m] # Absent
           /\ mission'[m].plan = mission[m].plan
           /\ mission'[m].status = mission[m].status
           /\ mission'[m].config = mission[m].config,
         mission'[q.mission] # Absent /\ q.old.plan # NoPlan
           => mission'[q.mission].plan # NoPlan
  PROVE  SessionInv'
<1>1. \A d \in Clients : request'[d] = IF d = c THEN q ELSE request[d]
  BY Typing DEF SessionInv
<1>2. q # Idle /\ q.step # "add" /\ CopyOK(q)
  BY ClientAssumption DEF CopyOK, Flushable
<1>3. ASSUME NEW m \in Missions, mission'[m] # Absent PROVE RowOK(mission'[m])
  BY <1>3 DEF SessionInv, RowOK, Exists
<1>4. ASSUME NEW d \in Clients, request'[d] # Idle
      PROVE  /\ CopyOK(request'[d])
             /\ mission'[request'[d].mission] # Absent
                  => ViewOK(request'[d], mission'[request'[d].mission])
  <2>1. CASE d = c
    BY <1>1, <1>2, <2>1 DEF ViewOK
  <2>2. CASE d # c
    <3>1. request'[d] = request[d] /\ request[d].mission \in Missions
      BY <1>1, <1>4, <2>2, Typing DEF SessionInv, Request
    <3> QED BY <1>4, <3>1 DEF SessionInv, Exists, ViewOK
  <2> QED BY <2>1, <2>2
<1>5. OneAdder'
  BY <1>1, <1>2 DEF SessionInv, OneAdder, InFlight
<1> QED BY <1>3, <1>4, <1>5 DEF SessionInv, Exists, RowOK, CopyOK, ViewOK

(* The commit of mark_computing(), the reload and the DELETE of the plan.  *)
LEMMA GenerateStep ==
  ASSUME SessionInv, NEW c \in Clients,
         (\E m \in Missions : MarkComputing(c, m)) \/ LoadMission(c) \/ DeletePlan(c)
  PROVE  SessionInv'
<1>1. ASSUME NEW m \in Missions, MarkComputing(c, m) PROVE SessionInv'
  <2> DEFINE r == mission[m]
             s == [r EXCEPT !.computation = "COMPUTING"]
             q == [step |-> "load", mission |-> m, old |-> r, new |-> r, replaced |-> FALSE]
  <2>1. r \in Row /\ r # Absent
    BY <1>1, SoundRow DEF MarkComputing
  <2>2. /\ s \in Row
        /\ s.plan = r.plan /\ s.status = r.status /\ s.config = r.config
    BY <2>1 DEF Row, Computations
  <2>3. q \in Request /\ q.step = "load" /\ q.mission = m /\ q.old = r
    BY <2>1 DEF Request, Steps
  <2>4. /\ request' = [request EXCEPT ![c] = q]
        /\ mission' = [mission EXCEPT ![m] = s]
        /\ drones' = drones
        /\ accepted' = Serial!Kept(accepted, [mission EXCEPT ![m] = s])
        /\ delivered' = Serial!Kept(delivered, [mission EXCEPT ![m] = s])
    BY <1>1 DEF MarkComputing, Serial!Save, Serial!Commit
  <2> HIDE DEF s, q
  <2>5. TypeOK'
    BY <2>2, <2>3, <2>4, KeptType, SerialRows DEF SessionInv, TypeOK, Serial!TypeOK
  <2>6. \A n \in Missions : mission'[n] = IF n = m THEN s ELSE mission[n]
    BY <2>4, Typing DEF SessionInv
  <2>7. \A n \in Missions : mission'[n] # Absent =>
          /\ mission[n] # Absent
          /\ mission'[n].plan = mission[n].plan
          /\ mission'[n].status = mission[n].status
          /\ mission'[n].config = mission[n].config
    BY <2>1, <2>2, <2>6
  <2>8. q.old.plan # NoPlan => mission'[q.mission].plan # NoPlan
    BY <2>2, <2>3, <2>6
  <2> QED BY <2>3, <2>4, <2>5, <2>7, <2>8, GenerationStep
<1>2. CASE LoadMission(c)
  <2> DEFINE m == request[c].mission
             r == mission[m]
             q == [request[c] EXCEPT !.step = "loaded", !.old = r, !.new = Generated(r),
                                     !.replaced = FALSE]
  <2>1. request[c] # Idle /\ Exists(m)
    BY <1>2 DEF LoadMission, InFlight
  <2>2. request[c] \in Request /\ m \in Missions /\ r \in Row
    BY <2>1, SoundRow, Typing DEF SessionInv, Request
  <2>3. q \in Request /\ q.step = "loaded" /\ q.mission = m /\ q.old = r
    BY <2>2, GeneratedRow DEF Request, Steps
  <2>4. request' = [request EXCEPT ![c] = q] /\ UNCHANGED table
    BY <1>2 DEF LoadMission
  <2> HIDE DEF q
  <2>5. TypeOK'
    BY <2>3, <2>4, Typing DEF SessionInv, TypeOK, Serial!TypeOK, table
  <2> QED BY <2>3, <2>4, <2>5, GenerationStep DEF table
<1>3. CASE DeletePlan(c)
  <2> DEFINE q == [request[c] EXCEPT !.step = "compute"]
  <2>1. request[c] # Idle /\ request[c] \in Request
    BY <1>3, Typing DEF DeletePlan, InFlight, SessionInv
  <2>2. /\ q \in Request /\ q.step = "compute"
        /\ q.mission = request[c].mission /\ q.old = request[c].old
    BY <2>1 DEF Request, Steps
  <2>3. request' = [request EXCEPT ![c] = q] /\ UNCHANGED table
    BY <1>3 DEF DeletePlan
  <2> HIDE DEF q
  <2>4. TypeOK'
    BY <2>2, <2>3, Typing DEF SessionInv, TypeOK, Serial!TypeOK, table
  <2>5. mission'[q.mission] # Absent /\ q.old.plan # NoPlan
          => mission'[q.mission].plan # NoPlan
    BY <2>1, <2>2, <2>3 DEF SessionInv, ViewOK, Exists, table
  <2> QED BY <2>2, <2>3, <2>4, <2>5, GenerationStep DEF table
<1> QED BY <1>1, <1>2, <1>3

(* The row a generation leaves behind has a plan and the inspections it had. *)
LEMMA FinishedRowOK ==
  ASSUME NEW cur \in Row, NEW old \in Row, RowOK(cur)
  PROVE  /\ FinishedRow(cur, old) \in Row
         /\ FinishedRow(cur, old).plan # NoPlan
         /\ FinishedRow(cur, old).config = cur.config
         /\ RowOK(FinishedRow(cur, old))
<1> DEFINE pl == [path |-> Computed(old.config), validated |-> TRUE]
           f == FinishedRow(cur, old)
<1>1. pl \in Plan
  BY DEF Plan, Path, Computed, Shapes, Row
<1>2. Generated(old).plan = pl
  BY InvalidateRow DEF Generated, Row
<1> HIDE DEF pl
<1>3. f \in Row /\ f.plan = pl /\ f.config = cur.config
  BY <1>1, <1>2 DEF FinishedRow, Row, Statuses, Computations
<1> HIDE DEF f
<1>4. f.plan # NoPlan
  BY <1>1, <1>3, SentinelAssumption
<1> QED BY <1>3, <1>4 DEF RowOK, f

(* The commit of a generation, and its failure. *)
LEMMA GenerateEnds ==
  ASSUME SessionInv, NEW c \in Clients, FinishGenerate(c) \/ GenerateFails(c)
  PROVE  SessionInv'
<1> DEFINE q == request[c]
           m == q.mission
           r == mission[m]
<1>1. /\ q # Idle /\ q.step \in {"load", "loaded", "compute"}
      /\ Exists(m) /\ ~RowLocked(m, c)
  BY DEF FinishGenerate, GenerateFails, Committable, InFlight
<1>2. q \in Request /\ m \in Missions /\ q.old \in Row
  BY <1>1, Typing DEF SessionInv, Request
<1>3. r \in Row /\ r # Absent /\ RowOK(r)
  BY <1>1, <1>2, SoundRow
<1>4. CASE FinishGenerate(c)
  <2> DEFINE s == FinishedRow(r, q.old)
  <2>1. s \in Row /\ s.plan # NoPlan /\ s.config = r.config /\ RowOK(s)
    BY <1>2, <1>3, FinishedRowOK
  <2>2. /\ mission' = [mission EXCEPT ![m] = s] /\ drones' = drones
        /\ accepted' = Serial!Kept(accepted, [mission EXCEPT ![m] = s])
        /\ delivered' = Serial!Kept(delivered, [mission EXCEPT ![m] = s])
        /\ request' = [d \in Clients |->
                          IF d = c THEN Idle
                          ELSE IF request[d] # Idle /\ request[d].mission = m
                               THEN [request[d] EXCEPT !.replaced = TRUE]
                               ELSE request[d]]
    BY <1>4 DEF FinishGenerate, Serial!Save, Serial!Commit
  <2> HIDE DEF s
  <2>3. ASSUME NEW d \in Clients, request[d] # Idle
        PROVE  /\ request[d] \in Request
               /\ [request[d] EXCEPT !.replaced = TRUE] \in Request
               /\ Same([request[d] EXCEPT !.replaced = TRUE], request[d])
    BY <2>3, Typing DEF SessionInv, Request, Same
  <2>4. request' \in [Clients -> Request \cup {Idle}]
    BY <2>2, <2>3
  <2>5. ASSUME NEW d \in Clients, request'[d] # Idle
        PROVE  /\ request[d] # Idle /\ Same(request'[d], request[d])
               /\ Bearable(request[d], r, s)
    <3>1. d # c /\ request[d] # Idle /\ Same(request'[d], request[d])
      BY <2>2, <2>3, <2>5 DEF Same
    <3> QED BY <1>3, <2>1, <3>1 DEF Bearable
  <2>6. /\ accepted' \in [Missions -> Path \cup {NoPath}]
        /\ delivered' \in [Missions -> Path \cup {NoPath}]
    BY <2>2, KeptType, Typing DEF SessionInv
  <2> HIDE DEF q, r
  <2> QED BY <1>1, <1>2, <2>1, <2>2, <2>4, <2>5, <2>6, RowStep DEF r
<1>5. CASE GenerateFails(c)
  <2> DEFINE s == [r EXCEPT !.computation = "FAILED"]
  <2>1. s \in Row /\ s.plan = r.plan /\ s.config = r.config /\ s.status = r.status
    BY <1>3 DEF Row, Computations
  <2>2. /\ mission' = [mission EXCEPT ![m] = s] /\ drones' = drones
        /\ accepted' = Serial!Kept(accepted, [mission EXCEPT ![m] = s])
        /\ delivered' = Serial!Kept(delivered, [mission EXCEPT ![m] = s])
        /\ request' = [request EXCEPT ![c] = Idle]
    BY <1>5 DEF GenerateFails, Serial!Save, Serial!Commit, End
  <2> HIDE DEF s
  <2>3. request' \in [Clients -> Request \cup {Idle}]
    BY <2>2, Typing DEF SessionInv
  <2>4. ASSUME NEW d \in Clients, request'[d] # Idle
        PROVE  /\ request[d] # Idle /\ Same(request'[d], request[d])
               /\ Bearable(request[d], r, s)
    BY <1>3, <2>1, <2>2, <2>4, Typing DEF SessionInv, Same, Bearable
  <2>5. /\ accepted' \in [Missions -> Path \cup {NoPath}]
        /\ delivered' \in [Missions -> Path \cup {NoPath}]
    BY <2>2, KeptType, Typing DEF SessionInv
  <2>6. RowOK(s)
    BY <1>3, <2>1 DEF RowOK
  <2> HIDE DEF q, r
  <2> QED BY <1>1, <1>2, <2>1, <2>2, <2>3, <2>4, <2>5, <2>6, RowStep DEF r
<1> QED BY <1>4, <1>5

-----------------------------------------------------------------------------
(* Commits, deletions and aborts *)

LEMMA FinishStep ==
  ASSUME SessionInv, NEW c \in Clients, Finish(c)
  PROVE  SessionInv'
<1> DEFINE q == request[c]
<1>0. /\ accepted \in [Missions -> Path \cup {NoPath}]
      /\ delivered \in [Missions -> Path \cup {NoPath}]
  BY Typing DEF SessionInv
<1>1. CASE CommitSave(c) \/ CommitEdit(c)
  <2>1. /\ Committable(c, Flushable) /\ mission' = Flushed(c) /\ drones' = drones /\ End(c)
        /\ accepted' = Serial!Kept(accepted, Flushed(c))
        /\ delivered' = Serial!Kept(delivered, Flushed(c))
    BY <1>1 DEF CommitSave, CommitEdit, Serial!Commit, Committable, InFlight, Flushable
  <2> QED BY <1>0, <2>1, KeptType, CommitStep
<1>2. CASE CommitValidate(c) \/ CommitExport(c)
  <2>1. /\ Committable(c, Flushable) /\ mission' = Flushed(c) /\ drones' = drones /\ End(c)
        /\ q # Idle
    BY <1>2 DEF CommitValidate, CommitExport, Committable, InFlight, Flushable
  <2>2. q.old \in Row /\ CopyOK(q)
    BY <2>1, Typing DEF SessionInv, Request
  <2>3. CASE CommitValidate(c)
    <3>1. q.old.plan # NoPlan => q.old.plan.path \in Path
      BY <2>2 DEF Row, Plan
    <3>2. /\ accepted' \in [Missions -> Path \cup {NoPath}]
          /\ delivered' \in [Missions -> Path \cup {NoPath}]
      BY <1>0, <2>3, <3>1 DEF CommitValidate
    <3> QED BY <2>1, <3>2, CommitStep
  <2>4. CASE CommitExport(c)
    <3>1. q.old.plan.path \in Path
      BY <2>2, <2>4 DEF CommitExport, Committable, InFlight, CopyOK, Row, Plan
    <3>2. [delivered EXCEPT ![q.mission] = q.old.plan.path]
            \in [Missions -> Path \cup {NoPath}]
      BY <1>0, <3>1
    <3>3. /\ accepted' \in [Missions -> Path \cup {NoPath}]
          /\ delivered' \in [Missions -> Path \cup {NoPath}]
      BY <1>0, <2>4, <3>2, KeptType DEF CommitExport
    <3> QED BY <2>1, <3>3, CommitStep
  <2> QED BY <1>2, <2>3, <2>4
<1>3. CASE CommitDelete(c)
  <2>1. /\ q # Idle /\ Exists(q.mission)
        /\ mission' = [mission EXCEPT ![q.mission] = Absent] /\ drones' = drones
        /\ accepted' = Serial!Kept(accepted, [mission EXCEPT ![q.mission] = Absent])
        /\ delivered' = Serial!Kept(delivered, [mission EXCEPT ![q.mission] = Absent])
        /\ request' = [request EXCEPT ![c] = Idle]
    BY <1>3 DEF CommitDelete, Committable, InFlight, Serial!Save, Serial!Commit, End
  <2>2. /\ accepted' \in [Missions -> Path \cup {NoPath}]
        /\ delivered' \in [Missions -> Path \cup {NoPath}]
    BY <1>0, <2>1, KeptType
  <2>3. q.mission \in Missions
    BY <2>1, Typing DEF SessionInv, Request
  <2>4. /\ request' \in [Clients -> Request \cup {Idle}]
        /\ \A d \in Clients : request'[d] # Idle =>
             /\ request[d] # Idle /\ Same(request'[d], request[d])
             /\ Bearable(request[d], mission[q.mission], Absent)
    BY <2>1, Typing DEF SessionInv, Same, Bearable
  <2> HIDE DEF q
  <2> QED BY <2>1, <2>2, <2>3, <2>4, RowStep
<1> QED BY <1>1, <1>2, <1>3 DEF Finish

LEMMA AbortStep ==
  ASSUME SessionInv, NEW c \in Clients, Abort(c)
  PROVE  SessionInv'
<1>1. request' = [request EXCEPT ![c] = Idle] /\ UNCHANGED table
  BY DEF Abort, End
<1>2. TypeOK'
  BY <1>1, Typing DEF SessionInv, TypeOK, Serial!TypeOK, table
<1>3. \A m \in Missions : mission'[m] # Absent => RowOK(mission'[m])
  BY <1>1 DEF table, SessionInv, Exists
<1>4. ASSUME NEW d \in Clients, request'[d] # Idle
      PROVE  /\ request[d] # Idle /\ Same(request'[d], request[d])
             /\ Bearable(request[d], mission[request[d].mission],
                         mission'[request[d].mission])
  BY <1>1, <1>4, Typing DEF SessionInv, table, Same, Bearable
<1> QED BY <1>2, <1>3, <1>4, TableStep

(* A new mission: nobody has a request under its id. *)
LEMMA CreateStep ==
  ASSUME SessionInv, NEW m \in Missions, CreateMission(m)
  PROVE  SessionInv'
<1>1. PICK cfg \in Serial!Choices({}) : Serial!Save(m, Serial!NewMission(cfg))
  BY DEF CreateMission, Serial!CreateMission
<1> DEFINE s == Serial!NewMission(cfg)
<1>2. cfg \in Config /\ cfg.inspections = {}
  BY <1>1, SerialRows DEF Serial!Choices
<1>3. s = NewMission(cfg)
  BY DEF Serial!NewMission, NewMission
<1>4. /\ s \in Row /\ s.status = "DRAFT" /\ s.config.inspections = {}
  BY <1>2, <1>3, NewMissionRow DEF NewMission
<1>5. /\ mission' = [mission EXCEPT ![m] = s] /\ drones' = drones /\ request' = request
      /\ accepted' = Serial!Kept(accepted, [mission EXCEPT ![m] = s])
      /\ delivered' = Serial!Kept(delivered, [mission EXCEPT ![m] = s])
      /\ \A d \in Clients : request[d] # Idle => request[d].mission # m
  BY <1>1 DEF CreateMission, Serial!Save, Serial!Commit
<1> HIDE DEF s
<1>6. RowOK(s)
  <2>1. IsFiniteSet({}) /\ Cardinality({}) = 0
    BY FS_EmptySet
  <2> QED BY <1>4, <2>1, ValueAssumption DEF RowOK
<1>7. \A n \in Missions : mission'[n] = IF n = m THEN s ELSE mission[n]
  BY <1>5, Typing DEF SessionInv
<1>8. TypeOK'
  BY <1>4, <1>5, KeptType, SerialRows DEF SessionInv, TypeOK, Serial!TypeOK
<1>9. \A n \in Missions : mission'[n] # Absent => RowOK(mission'[n])
  BY <1>6, <1>7 DEF SessionInv, Exists
<1>10. ASSUME NEW d \in Clients, request'[d] # Idle
       PROVE  /\ request[d] # Idle /\ Same(request'[d], request[d])
              /\ Bearable(request[d], mission[request[d].mission],
                          mission'[request[d].mission])
  <2>1. request[d].mission \in Missions /\ request[d].mission # m
    BY <1>5, <1>10, Typing DEF SessionInv, Request
  <2> QED BY <1>5, <1>7, <1>10, <2>1 DEF Same, Bearable
<1> QED BY <1>8, <1>9, <1>10, TableStep

(* ON DELETE SET NULL on drone_profile_id. *)
LEMMA DeleteDroneStep ==
  ASSUME SessionInv, NEW o \in Operators, NEW d \in Drones, DeleteDrone(o, d)
  PROVE  SessionInv'
<1> DEFINE row(m) == IF Exists(m) /\ mission[m].config.drone = d
                     THEN [mission[m] EXCEPT !.config.drone = NoDrone]
                     ELSE mission[m]
           rows == [m \in Missions |-> row(m)]
<1>1. /\ mission' = rows /\ drones' = drones \ {d} /\ request' = request
      /\ accepted' = Serial!Kept(accepted, rows)
      /\ delivered' = Serial!Kept(delivered, rows)
  BY DEF DeleteDrone, Serial!DeleteDrone, Serial!Commit, Serial!Exists, Exists
<1>2. ASSUME NEW m \in Missions
      PROVE  /\ row(m) \in Row \cup {Absent}
             /\ row(m) # Absent =>
                  /\ mission[m] # Absent /\ RowOK(row(m))
                  /\ row(m).plan = mission[m].plan
                  /\ row(m).config.inspections = mission[m].config.inspections
  <2>1. CASE Exists(m)
    <3> DEFINE r == mission[m]
               s == [r EXCEPT !.config.drone = NoDrone]
    <3>1. r \in Row /\ r # Absent /\ RowOK(r)
      BY <2>1, SoundRow
    <3>2. /\ s \in Row /\ s.plan = r.plan /\ s.status = r.status
          /\ s.config.inspections = r.config.inspections
      BY <3>1 DEF Row, Config
    <3>3. row(m) \in {r, s}
      OBVIOUS
    <3> HIDE DEF r, s
    <3>4. RowOK(s)
      BY <3>1, <3>2 DEF RowOK
    <3> QED BY <3>1, <3>2, <3>3, <3>4 DEF r
  <2>2. CASE ~Exists(m)
    BY <2>2 DEF Exists
  <2> QED BY <2>1, <2>2
<1> HIDE DEF row
<1>3. TypeOK'
  BY <1>1, <1>2, KeptType, SerialRows DEF SessionInv, TypeOK, Serial!TypeOK
<1>4. \A m \in Missions : mission'[m] = row(m)
  BY <1>1
<1>5. ASSUME NEW c \in Clients, request'[c] # Idle
      PROVE  /\ request[c] # Idle /\ Same(request'[c], request[c])
             /\ Bearable(request[c], mission[request[c].mission],
                         mission'[request[c].mission])
  <2>1. request[c].mission \in Missions
    BY <1>1, <1>5, Typing DEF SessionInv, Request
  <2> QED BY <1>1, <1>2, <1>4, <1>5, <2>1 DEF Same, Bearable
<1> QED BY <1>2, <1>3, <1>4, <1>5, TableStep

(* Every step keeps the invariant. *)
LEMMA SessionNext == SessionInv /\ [Next]_vars => SessionInv'
<1> SUFFICES ASSUME SessionInv, [Next]_vars PROVE SessionInv'
  OBVIOUS
<1>1. ASSUME NEW c \in Operators, Work(c) PROVE SessionInv'
  <2>1. c \in Clients
    BY DEF Clients
  <2>2. CASE \E m \in Missions : MarkComputing(c, m)
    BY <2>1, <2>2, GenerateStep
  <2>3. CASE LoadMission(c) \/ DeletePlan(c) \/ FinishGenerate(c) \/ GenerateFails(c)
    BY <2>1, <2>3, GenerateStep, GenerateEnds
  <2>4. ASSUME NEW m \in Missions,
               \/ ReadUpdate(c, m) \/ ReadEdit(c, m) \/ ReadRevalidate(c, m)
               \/ \E i \in Inspections : LockForAdd(c, m, i) \/ ReadDeleteInspection(c, m, i)
               \/ \E p \in Points : ReadRenormalize(c, m, p)
               \/ ReadValidate(c, m) \/ ReadExport(c, m) \/ ReadMeasure(c, m)
               \/ ReadFinal(c, m) \/ ReadDelete(c, m)
        PROVE  SessionInv'
    BY <2>1, <2>4, ReadConfigStep, ReadPlanStep, ReadStatusStep
  <2> QED BY <1>1, <2>2, <2>3, <2>4 DEF Work
<1>2. ASSUME NEW c \in Pollers, NEW m \in Missions, ReadPoll(c, m) PROVE SessionInv'
  BY <1>2, ReadStatusStep DEF Clients
<1>3. CASE UNCHANGED vars
  <2>1. TypeOK'
    BY <1>3 DEF vars, SessionInv, TypeOK, Serial!TypeOK
  <2>2. /\ \A m \in Missions : mission'[m] # Absent => RowOK(mission'[m])
        /\ \A c \in Clients : request'[c] # Idle =>
             /\ request[c] # Idle /\ Same(request'[c], request[c])
             /\ Bearable(request[c], mission[request[c].mission],
                         mission'[request[c].mission])
    BY <1>3 DEF vars, SessionInv, Exists, Same, Bearable
  <2> QED BY <2>1, <2>2, TableStep
<1> QED
  BY <1>1, <1>2, <1>3, CreateStep, DeleteDroneStep, FinishStep, AbortStep DEF Next

(* Every reachable state satisfies it. *)
THEOREM Sessions == Spec => []SessionInv
<1>1. Init => SessionInv
  BY SerialRows
     DEF Init, Serial!Init, SessionInv, TypeOK, Serial!TypeOK, Exists, OneAdder, InFlight
<1> QED BY <1>1, SessionNext, PTL DEF Spec

(* Rows and requests stay well formed, in every interleaving. *)
THEOREM RequestsTyped == Spec => []TypeOK
<1>1. SessionInv => TypeOK
  BY DEF SessionInv
<1> QED BY <1>1, Sessions, PTL

(* No interleaving of requests leaves a mission past DRAFT without a plan. *)
THEOREM NoStatusWithoutPlan == Spec => []PlanBehindStatus
<1>1. SessionInv => PlanBehindStatus
  BY DEF SessionInv, RowOK, Exists, PlanBehindStatus, Serial!PlanBehindStatus, Serial!Exists
<1> QED BY <1>1, Sessions, PTL

(* The row lock of add_inspection makes the check of the limit and the     *)
(* insertion one step: any number of clients together stay within it.      *)
THEOREM LimitIsKept == Spec => []InspectionLimit
<1>1. SessionInv => InspectionLimit
  BY DEF SessionInv, RowOK, InspectionLimit
<1> QED BY <1>1, Sessions, PTL

-----------------------------------------------------------------------------
(***************************************************************************)
(* A single client sees the missions of MissionLifecycle: splitting every  *)
(* request into what it reads and what it commits adds nothing but         *)
(* concurrency.  The proof is a refinement step by step: reading stutters, *)
(* and the commit of a copy that is still the row is the request of        *)
(* MissionLifecycle it was read for.                                       *)
(***************************************************************************)

(* The operators of the serial specification *)

LEMMA SerialStatusOperators ==
  /\ \A r, t : Serial!CanTransition(r, t) = CanTransition(r, t)
  /\ \A r, t : Serial!TransitionTo(r, t) = TransitionTo(r, t)
  /\ \A r : Serial!MarkMeasured(r) = MarkMeasured(r)
  /\ \A r : Serial!CanInvalidate(r) = CanInvalidate(r)
  /\ \A r : Serial!CanExport(r) = CanExport(r)
  /\ \A r : Serial!Exported(r) = Exported(r)
BY DEF Serial!CanTransition, CanTransition, Serial!TRANSITIONS, TRANSITIONS,
       Serial!TransitionTo, TransitionTo, Serial!MarkMeasured, MarkMeasured,
       Serial!POST_PLAN_STATUSES, POST_PLAN_STATUSES,
       Serial!CanInvalidate, CanInvalidate, Serial!TERMINAL_STATUSES, TERMINAL_STATUSES,
       Serial!CanExport, CanExport, Serial!EXPORT_ELIGIBLE_STATUSES, EXPORT_ELIGIBLE_STATUSES,
       Serial!Exported, Exported

LEMMA SerialCardinality == \A S : Serial!Cardinality(S) = Cardinality(S)
BY DEF Serial!Cardinality, Cardinality

LEMMA SerialConfigOperators ==
  /\ \A r, c : Serial!Reconfigure(r, c) = Reconfigure(r, c)
  /\ \A r : Serial!CanAddInspection(r) <=> CanAddInspection(r)
  /\ \A r, p : Serial!CanRenormalize(r, p) = CanRenormalize(r, p)
  /\ \A r, p : Serial!Renormalize(r, p) = Renormalize(r, p)
<1>1. \A r : Serial!InvalidateTrajectory(r) = InvalidateTrajectory(r)
  BY DEF Serial!InvalidateTrajectory, InvalidateTrajectory,
         Serial!NON_DRAFT_WITH_PLAN_STATUSES, NON_DRAFT_WITH_PLAN_STATUSES
<1>2. \A r, c : Serial!Reconfigure(r, c) = Reconfigure(r, c)
  BY <1>1 DEF Serial!Reconfigure, Reconfigure
<1>3. \A r : Serial!CanAddInspection(r) <=> CanAddInspection(r)
  BY SerialCardinality
     DEF Serial!CanAddInspection, CanAddInspection, Serial!CanInvalidate, CanInvalidate,
         Serial!TERMINAL_STATUSES, TERMINAL_STATUSES
<1>4. \A r, p : Serial!CanRenormalize(r, p) = CanRenormalize(r, p)
  BY DEF Serial!CanRenormalize, CanRenormalize, Serial!CanInvalidate, CanInvalidate,
         Serial!TERMINAL_STATUSES, TERMINAL_STATUSES
<1>5. \A r, p : Serial!Renormalize(r, p) = Renormalize(r, p)
  BY <1>1 DEF Serial!Renormalize, Renormalize,
              Serial!NON_DRAFT_WITH_PLAN_STATUSES, NON_DRAFT_WITH_PLAN_STATUSES
<1> QED BY <1>2, <1>3, <1>4, <1>5

LEMMA SerialPlanOperators ==
  /\ \A r : Serial!CanGenerate(r) = CanGenerate(r)
  /\ \A r : Serial!Generated(r) = Generated(r)
  /\ \A r : Serial!CanEditWaypoints(r) = CanEditWaypoints(r)
  /\ \A r, s : Serial!EditWaypoints(r, s) = EditWaypoints(r, s)
  /\ \A r, s, p : Serial!MoveEndpoint(r, s, p) = MoveEndpoint(r, s, p)
BY DEF Serial!CanGenerate, CanGenerate, Serial!PRE_PLAN_STATUSES, PRE_PLAN_STATUSES,
       Serial!POST_PLAN_STATUSES, POST_PLAN_STATUSES, Serial!Generated, Generated,
       Serial!InvalidateTrajectory, InvalidateTrajectory,
       Serial!NON_DRAFT_WITH_PLAN_STATUSES, NON_DRAFT_WITH_PLAN_STATUSES,
       Serial!Computed, Computed, Serial!CanEditWaypoints, CanEditWaypoints,
       Serial!PRE_EXPORT_EDITABLE_STATUSES, PRE_EXPORT_EDITABLE_STATUSES,
       Serial!EditWaypoints, EditWaypoints, Serial!RegressToPlanned, RegressToPlanned,
       Serial!MoveEndpoint, MoveEndpoint

-----------------------------------------------------------------------------
(* Flushing a copy of the current row writes exactly the copy *)

LEMMA MergeConfigSame ==
  ASSUME NEW old \in Config, NEW new \in Config
  PROVE  MergedConfig(old, old, new) = new
<1>1. (old.inspections \cup (new.inspections \ old.inspections))
        \ (old.inspections \ new.inspections) = new.inspections
  OBVIOUS
<1>2. /\ Column(old.params, old.params, new.params) = new.params
      /\ Column(old.takeoff, old.takeoff, new.takeoff) = new.takeoff
      /\ Column(old.drone, old.drone, new.drone) = new.drone
      /\ Column(old.perpendicular, old.perpendicular, new.perpendicular) = new.perpendicular
  BY DEF Column
<1> QED BY <1>1, <1>2 DEF MergedConfig, Config

LEMMA MergeSame ==
  ASSUME NEW old \in Row, NEW new \in Row,
         new.plan # old.plan => old.plan # NoPlan /\ new.plan # NoPlan
  PROVE  Merge(old, old, new) = new
<1>1. MergedConfig(old.config, old.config, new.config) = new.config
  BY MergeConfigSame DEF Row
<1>2. MergedPlan(old.plan, old.plan, new.plan) = new.plan
  <2>1. CASE new.plan = old.plan
    BY <2>1 DEF MergedPlan
  <2>2. CASE new.plan # old.plan
    <3>1. old.plan \in Plan /\ new.plan \in Plan
      BY <2>2 DEF Row
    <3>2. MergedConfig(old.plan.path.config, old.plan.path.config, new.plan.path.config)
            = new.plan.path.config
      BY <3>1, MergeConfigSame DEF Plan, Path
    <3>3. new.plan = [path |-> [config |-> new.plan.path.config,
                                shape |-> new.plan.path.shape],
                      validated |-> new.plan.validated]
      BY <3>1 DEF Plan, Path
    <3> QED BY <2>2, <3>2, <3>3 DEF MergedPlan, Column
  <2> QED BY <2>1, <2>2
<1>3. new = [status |-> new.status, config |-> new.config, plan |-> new.plan,
             unsaved |-> new.unsaved, computation |-> new.computation]
  BY DEF Row
<1> QED BY <1>1, <1>2, <1>3 DEF Merge, Column

-----------------------------------------------------------------------------
(* The invariant of a single client *)

(* The change a request has read for is one its endpoint makes to the row. *)
Sanctioned(q) ==
  \/ /\ q.step = "save" /\ CanInvalidate(q.old)
     /\ \E cfg \in Config : /\ cfg.perpendicular \in Perpendicular
                            /\ cfg.inspections = q.old.config.inspections
                            /\ q.new = Reconfigure(q.old, cfg)
  \/ /\ q.step = "save"
     /\ \E p \in Points : CanRenormalize(q.old, p) /\ q.new = Renormalize(q.old, p)
  \/ q.step = "save" /\ q.new = MarkMeasured(q.old)
  \/ /\ q.step = "save"
     /\ \E t \in TERMINAL_STATUSES :
          CanTransition(q.old, t) /\ q.new = TransitionTo(q.old, t)
  \/ /\ q.step = "add" /\ CanAddInspection(q.old)
     /\ \E i \in Inspections \ q.old.config.inspections :
          q.new = Reconfigure(q.old, [q.old.config EXCEPT !.inspections = @ \cup {i}])
  \/ /\ q.step = "remove" /\ CanInvalidate(q.old)
     /\ \E i \in Inspections \cap q.old.config.inspections :
          q.new = Reconfigure(q.old, [q.old.config EXCEPT !.inspections = @ \ {i}])
  \/ /\ q.step = "edit" /\ CanEditWaypoints(q.old)
     /\ \E s \in HandEdits : \/ q.new = EditWaypoints(q.old, s)
                            \/ \E p \in Points : q.new = MoveEndpoint(q.old, s, p)
  \/ /\ q.step = "edit" /\ q.old.plan # NoPlan
     /\ \E ok \in BOOLEAN : q.new = [q.old EXCEPT !.plan.validated = ok]
  \/ /\ q.step = "accept" /\ CanTransition(q.old, "VALIDATED")
     /\ q.new = TransitionTo(q.old, "VALIDATED")
  \/ q.step = "export" /\ CanExport(q.old) /\ q.new = Exported(q.old)
  \/ q.step = "delete"
  \/ /\ q.step = "poll" /\ q.old.computation = "COMPUTING"
     /\ q.new = [q.old EXCEPT !.computation = "FAILED"]

(* What request q has loaded is still the row r. *)
Fresh(q, r) ==
  /\ r # Absent
  /\ ~q.replaced
  /\ \/ q.step = "load"
     \/ q.step \in {"loaded", "compute"} /\ q.old = r /\ CanGenerate(r)
     \/ q.old = r /\ Sanctioned(q)

(* A mission without an accepted plan has no history. *)
Forgotten(m) ==
  mission[m] = Absent \/ mission[m].status \in PRE_PLAN_STATUSES
    => accepted[m] = NoPath /\ delivered[m] = NoPath

SoleInv ==
  /\ \A c \in Clients : request[c] # Idle => Fresh(request[c], mission[request[c].mission])
  /\ \A m \in Missions : Forgotten(m)

Sole == \A c, d \in Clients : c = d

(* Forgetting is part of every commit. *)
LEMMA CommitForgets ==
  ASSUME NEW rows, Serial!Commit(rows)
  PROVE  \A m \in Missions : Forgotten(m)'
BY DEF Serial!Commit, Serial!Kept, Serial!PRE_PLAN_STATUSES, PRE_PLAN_STATUSES, Forgotten

(* An operator's read: the copy is the row, and no row has changed. *)
LEMMA SoleRead ==
  ASSUME Sole, SessionInv, SoleInv, NEW c \in Clients,
         \/ \E m \in Missions :
              \/ ReadUpdate(c, m) \/ ReadEdit(c, m) \/ ReadRevalidate(c, m)
              \/ \E i \in Inspections : LockForAdd(c, m, i) \/ ReadDeleteInspection(c, m, i)
              \/ \E p \in Points : ReadRenormalize(c, m, p)
              \/ ReadValidate(c, m) \/ ReadExport(c, m) \/ ReadMeasure(c, m)
              \/ ReadFinal(c, m) \/ ReadDelete(c, m)
              \/ ReadPoll(c, m)
  PROVE  SoleInv' /\ UNCHANGED Serial!vars
<1>1. ASSUME NEW step, NEW m \in Missions, NEW new, Exists(m), Start(c, step, m, new),
             Sanctioned([step |-> step, mission |-> m, old |-> mission[m], new |-> new,
                         replaced |-> FALSE])
      PROVE  SoleInv' /\ UNCHANGED Serial!vars
  <2> DEFINE q == [step |-> step, mission |-> m, old |-> mission[m], new |-> new,
                   replaced |-> FALSE]
  <2>1. request' = [request EXCEPT ![c] = q] /\ UNCHANGED table
    BY <1>1 DEF Start
  <2>2. q.mission = m /\ q.old = mission[m] /\ ~q.replaced /\ Sanctioned(q)
    BY <1>1
  <2> HIDE DEF q
  <2>3. \A d \in Clients : request'[d] = q
    BY <2>1, Typing DEF Sole, SessionInv
  <2>4. Fresh(q, mission'[q.mission])
    BY <1>1, <2>1, <2>2 DEF Fresh, Exists, table
  <2>5. \A d \in Clients : Fresh(request'[d], mission'[request'[d].mission])
    BY <2>3, <2>4
  <2>6. \A n \in Missions : Forgotten(n)'
    BY <2>1 DEF SoleInv, Forgotten, table
  <2> QED BY <2>1, <2>5, <2>6 DEF SoleInv, Serial!vars, table
<1>2. ASSUME NEW m \in Missions, ReadUpdate(c, m)
      PROVE  SoleInv' /\ UNCHANGED Serial!vars
  <2>1. PICK cfg \in Serial!Choices(mission[m].config.inspections) :
          Start(c, "save", m, Reconfigure(mission[m], cfg))
    BY <1>2 DEF ReadUpdate
  <2>2. /\ cfg \in Config /\ cfg.perpendicular \in Perpendicular
        /\ cfg.inspections = mission[m].config.inspections
    BY <2>1, SerialRows DEF Serial!Choices
  <2>3. Sanctioned([step |-> "save", mission |-> m, old |-> mission[m],
                    new |-> Reconfigure(mission[m], cfg), replaced |-> FALSE])
    BY <1>2, <2>2 DEF Sanctioned, ReadUpdate
  <2> QED BY <1>1, <1>2, <2>1, <2>3 DEF ReadUpdate
<1>3. ASSUME NEW m \in Missions, NEW i \in Inspections,
             LockForAdd(c, m, i) \/ ReadDeleteInspection(c, m, i)
      PROVE  SoleInv' /\ UNCHANGED Serial!vars
  BY <1>1, <1>3 DEF Sanctioned, LockForAdd, ReadDeleteInspection
<1>4. ASSUME NEW m \in Missions, NEW p \in Points, ReadRenormalize(c, m, p)
      PROVE  SoleInv' /\ UNCHANGED Serial!vars
  BY <1>1, <1>4 DEF Sanctioned, ReadRenormalize
<1>5. ASSUME NEW m \in Missions, ReadEdit(c, m)
      PROVE  SoleInv' /\ UNCHANGED Serial!vars
  BY <1>1, <1>5 DEF Sanctioned, ReadEdit
<1>6. ASSUME NEW m \in Missions, ReadRevalidate(c, m)
      PROVE  SoleInv' /\ UNCHANGED Serial!vars
  BY <1>1, <1>6, ClientAssumption DEF Sanctioned, ReadRevalidate
<1>7. ASSUME NEW m \in Missions, ReadValidate(c, m) \/ ReadExport(c, m) \/ ReadMeasure(c, m)
      PROVE  SoleInv' /\ UNCHANGED Serial!vars
  BY <1>1, <1>7 DEF Sanctioned, ReadValidate, ReadExport, ReadMeasure
<1>8. ASSUME NEW m \in Missions, ReadFinal(c, m) \/ ReadDelete(c, m) \/ ReadPoll(c, m)
      PROVE  SoleInv' /\ UNCHANGED Serial!vars
  BY <1>1, <1>8 DEF Sanctioned, ReadFinal, ReadDelete, ReadPoll
<1> QED BY <1>2, <1>3, <1>4, <1>5, <1>6, <1>7, <1>8

(* A commit flushes the copy, and no request is left. *)
LEMMA SoleFlush ==
  ASSUME Sole, SessionInv, SoleInv, NEW c \in Clients, Committable(c, Flushable)
  PROVE  LET q == request[c]
         IN  /\ q.mission \in Missions /\ Exists(q.mission)
             /\ q.old = mission[q.mission] /\ q.old \in Row /\ q.new \in Row
             /\ Sanctioned(q) /\ q.step \in Flushable
             /\ Flushed(c) = [mission EXCEPT ![q.mission] = q.new]
<1> DEFINE q == request[c]
           m == q.mission
<1>1. q # Idle /\ q.step \in Flushable /\ Exists(m)
  BY DEF Committable, InFlight
<1>2. m \in Missions /\ q.old \in Row /\ q.new \in Row
  BY <1>1, Typing DEF SessionInv, Request
<1>3. q.old = mission[m] /\ Sanctioned(q)
  BY <1>1 DEF SoleInv, Fresh, Flushable
<1>4. q.new.plan # q.old.plan => q.old.plan # NoPlan /\ q.new.plan # NoPlan
  BY <1>1 DEF SessionInv, CopyOK
<1>5. Merge(q.old, q.old, q.new) = q.new
  BY <1>2, <1>4, MergeSame
<1>6. Flushed(c) = [mission EXCEPT ![m] = q.new]
  BY <1>3, <1>5 DEF Flushed
<1> QED BY <1>1, <1>2, <1>3, <1>6

LEMMA SoleEnd ==
  ASSUME Sole, SessionInv, NEW c \in Clients, End(c)
  PROVE  \A d \in Clients : request'[d] = Idle
BY Typing DEF Sole, SessionInv, End

(* Saving the row a sanctioned request leaves is a request of the serial   *)
(* specification.                                                          *)
LEMMA SanctionedSave ==
  ASSUME SessionInv, NEW q \in Request, Exists(q.mission), q.old = mission[q.mission],
         Sanctioned(q), q.step \in {"save", "add", "remove", "edit", "poll"},
         q.new.config.drone \in drones \cup {NoDrone} \/ q.step # "save",
         Serial!Commit([mission EXCEPT ![q.mission] = q.new]), drones' = drones
  PROVE  Serial!Next
<1> DEFINE m == q.mission
           r == mission[m]
<1>0. /\ m \in Missions /\ r \in Row /\ Serial!Exists(m) /\ q.old = r
      /\ Serial!Save(m, q.new)
  BY SoundRow DEF Request, Serial!Exists, Exists, Serial!Save
<1>1. ASSUME NEW cfg \in Config, CanInvalidate(r), cfg.perpendicular \in Perpendicular,
             cfg.inspections = r.config.inspections, q.step = "save",
             q.new = Reconfigure(r, cfg)
      PROVE  Serial!UpdateMission(m)
  <2>1. q.new.config = cfg
    BY <1>0, <1>1, ReconfigureCopy
  <2>2. cfg \in Serial!Choices(r.config.inspections)
    BY <1>1, <2>1, SerialRows DEF Serial!Choices
  <2>3. Serial!CanInvalidate(r) /\ Serial!Reconfigure(r, cfg) = q.new
    BY <1>1, SerialStatusOperators, SerialConfigOperators
  <2> QED BY <1>0, <2>2, <2>3 DEF Serial!UpdateMission
<1>2. ASSUME NEW p \in Points, CanRenormalize(r, p), q.new = Renormalize(r, p)
      PROVE  \E ground \in [Missions -> Points] : Serial!RenormalizeAltitudes(ground)
  <2> DEFINE ground == [n \in Missions |->
                          IF n = m \/ mission[n] = Absent THEN p
                          ELSE mission[n].config.takeoff]
             rows == [n \in Missions |->
                        IF Serial!Exists(n) /\ Serial!CanRenormalize(mission[n], ground[n])
                        THEN Serial!Renormalize(mission[n], ground[n])
                        ELSE mission[n]]
  <2>1. ASSUME NEW n \in Missions PROVE ground[n] \in Points
    BY SoundRow DEF Row, Config, Exists
  <2>2. ground \in [Missions -> Points]
    BY <2>1
  <2>3. Serial!CanRenormalize(r, p) /\ Serial!Renormalize(r, p) = q.new
    BY <1>2, SerialConfigOperators
  <2>4. ASSUME NEW n \in Missions, n # m, mission[n] # Absent
        PROVE  ~Serial!CanRenormalize(mission[n], ground[n])
    BY <2>4 DEF Serial!CanRenormalize
  <2>5. ASSUME NEW n \in Missions
        PROVE  rows[n] = IF n = m THEN q.new ELSE mission[n]
    <3>1. CASE n = m
      BY <1>0, <2>3, <3>1
    <3>2. CASE n # m
      BY <2>4, <3>2 DEF Serial!Exists
    <3> QED BY <3>1, <3>2
  <2>6. rows = [mission EXCEPT ![m] = q.new]
    <3> HIDE DEF m
    <3>1. mission = [n \in Missions |-> mission[n]]
      BY Typing DEF SessionInv
    <3>2. rows = [n \in Missions |-> rows[n]]
      OBVIOUS
    <3> HIDE DEF rows
    <3> QED BY <2>5, <3>1, <3>2
  <2>7. Serial!Commit(rows) /\ drones' = drones
    BY <2>6
  <2> QED BY <2>2, <2>7 DEF Serial!RenormalizeAltitudes
<1>3. ASSUME q.new = MarkMeasured(r) PROVE Serial!CreateMeasurement(m)
  BY <1>0, <1>3, SerialStatusOperators DEF Serial!CreateMeasurement
<1>4. ASSUME NEW t \in TERMINAL_STATUSES, CanTransition(r, t), q.new = TransitionTo(r, t)
      PROVE  Serial!CompleteMission(m) \/ Serial!CancelMission(m)
  BY <1>0, <1>4, SerialStatusOperators
     DEF Serial!CompleteMission, Serial!CancelMission, TERMINAL_STATUSES
<1>5. ASSUME NEW i \in Inspections,
             \/ /\ CanAddInspection(r) /\ i \notin r.config.inspections
                /\ q.new = Reconfigure(r, [r.config EXCEPT !.inspections = @ \cup {i}])
             \/ /\ CanInvalidate(r) /\ i \in r.config.inspections
                /\ q.new = Reconfigure(r, [r.config EXCEPT !.inspections = @ \ {i}])
      PROVE  Serial!AddInspection(m, i) \/ Serial!DeleteInspection(m, i)
  BY <1>0, <1>5, SerialStatusOperators, SerialConfigOperators
     DEF Serial!AddInspection, Serial!DeleteInspection
<1>6. ASSUME NEW s \in HandEdits, CanEditWaypoints(r),
             q.new = EditWaypoints(r, s) \/ \E p \in Points : q.new = MoveEndpoint(r, s, p)
      PROVE  Serial!BatchUpdateWaypoints(m)
  BY <1>0, <1>6, SerialPlanOperators DEF Serial!BatchUpdateWaypoints
<1>7. ASSUME NEW ok \in BOOLEAN, r.plan # NoPlan, q.new = [r EXCEPT !.plan.validated = ok]
      PROVE  Serial!Revalidate(m)
  BY <1>0, <1>7 DEF Serial!Revalidate
<1>8. ASSUME r.computation = "COMPUTING", q.new = [r EXCEPT !.computation = "FAILED"]
      PROVE  Serial!ResolveStaleness(m)
  BY <1>0, <1>8 DEF Serial!ResolveStaleness
<1> HIDE DEF m
<1>9. \/ Serial!UpdateMission(m) \/ Serial!CreateMeasurement(m)
      \/ Serial!CompleteMission(m) \/ Serial!CancelMission(m)
      \/ \E i \in Inspections : Serial!AddInspection(m, i) \/ Serial!DeleteInspection(m, i)
      \/ Serial!BatchUpdateWaypoints(m) \/ Serial!Revalidate(m) \/ Serial!ResolveStaleness(m)
      \/ \E ground \in [Missions -> Points] : Serial!RenormalizeAltitudes(ground)
  <2> HIDE DEF r
  <2> QED BY <1>0, <1>1, <1>2, <1>3, <1>4, <1>5, <1>6, <1>7, <1>8 DEF Sanctioned
<1> QED BY <1>0, <1>9 DEF Serial!Next

-----------------------------------------------------------------------------
(* Every step is a request of the serial specification, or stutters *)

LEMMA SoleFinish ==
  ASSUME Sole, SessionInv, SoleInv, NEW c \in Clients, Finish(c)
  PROVE  SoleInv' /\ Serial!Next
<1> DEFINE q == request[c]
           m == q.mission
<1>1. CASE CommitSave(c) \/ CommitEdit(c)
  <2>1. /\ Committable(c, Flushable) /\ q # Idle
        /\ q.step \in {"save", "add", "remove", "edit", "poll"}
        /\ Serial!Commit(Flushed(c)) /\ drones' = drones /\ End(c)
    BY <1>1 DEF CommitSave, CommitEdit, Committable, InFlight, Flushable
  <2>2. /\ m \in Missions /\ Exists(m) /\ q.old = mission[m] /\ Sanctioned(q)
        /\ Flushed(c) = [mission EXCEPT ![m] = q.new]
    BY <2>1, SoleFlush
  <2>3. Flushed(c)[m] = q.new
    BY <2>2, Typing DEF SessionInv
  <2>4. q.new.config.drone \in drones \cup {NoDrone} \/ q.step # "save"
    BY <1>1, <2>3 DEF CommitSave, CommitEdit, Committable, InFlight
  <2>5. q \in Request
    BY <2>1, Typing DEF SessionInv
  <2>6. Serial!Next
    BY <2>1, <2>2, <2>4, <2>5, SanctionedSave
  <2> QED BY <2>1, <2>6, CommitForgets, SoleEnd DEF SoleInv
<1>2. CASE CommitValidate(c)
  <2>1. Committable(c, Flushable) /\ q.step = "accept" /\ End(c)
    BY <1>2 DEF CommitValidate, Committable, InFlight, Flushable
  <2>2. /\ m \in Missions /\ Exists(m) /\ q.old = mission[m] /\ mission[m] \in Row
        /\ CanTransition(mission[m], "VALIDATED")
        /\ q.new = TransitionTo(mission[m], "VALIDATED")
        /\ Flushed(c) = [mission EXCEPT ![m] = q.new]
    BY <2>1, SoleFlush DEF Sanctioned
  <2>3. Serial!ValidateMission(m)
    BY <1>2, <2>2, SerialStatusOperators
       DEF Serial!ValidateMission, CommitValidate, Serial!Exists, Exists
  <2>4. q.new.status = "VALIDATED" /\ q.new \in Row
    <3> HIDE DEF q, m
    <3>1. TransitionTo(mission[m], "VALIDATED") \in Row
      BY <2>2, TransitionRow DEF Statuses
    <3> QED BY <2>2, <3>1 DEF TransitionTo, Row
  <2>5. ASSUME NEW n \in Missions PROVE Forgotten(n)'
    <3>1. mission'[n] = IF n = m THEN q.new ELSE mission[n]
      BY <1>2, <2>2, Typing DEF CommitValidate, SessionInv
    <3>2. delivered' = delivered /\ (n # m => accepted'[n] = accepted[n])
      BY <1>2, Typing DEF CommitValidate, SessionInv
    <3>3. CASE n = m
      BY <2>4, <3>1, <3>3, ClientAssumption DEF Forgotten, PRE_PLAN_STATUSES
    <3>4. CASE n # m
      BY <3>1, <3>2, <3>4 DEF Forgotten, SoleInv
    <3> QED BY <3>3, <3>4
  <2> QED BY <2>1, <2>2, <2>3, <2>5, SoleEnd DEF SoleInv, Serial!Next
<1>3. CASE CommitExport(c)
  <2>1. Committable(c, Flushable) /\ q.step = "export" /\ End(c)
    BY <1>3 DEF CommitExport, Committable, InFlight, Flushable
  <2>2. /\ m \in Missions /\ Exists(m) /\ q.old = mission[m] /\ mission[m] \in Row
        /\ CanExport(mission[m]) /\ q.new = Exported(mission[m]) /\ q.new \in Row
        /\ Flushed(c) = [mission EXCEPT ![m] = q.new]
    BY <2>1, SoleFlush DEF Sanctioned
  <2>3. q.new.status \notin PRE_PLAN_STATUSES /\ q.new # Absent
    BY <2>2, ClientAssumption
       DEF CanExport, Exported, TransitionTo, EXPORT_ELIGIBLE_STATUSES, PRE_PLAN_STATUSES, Row
  <2> DEFINE rows == [mission EXCEPT ![m] = q.new]
             sent == [delivered EXCEPT ![m] = mission[m].plan.path]
  <2>4. /\ mission' = rows /\ drones' = drones
        /\ accepted' = Serial!Kept(accepted, rows)
        /\ delivered' = Serial!Kept(sent, rows)
    BY <1>3, <2>2 DEF CommitExport
  <2>5. ASSUME NEW n \in Missions
        PROVE  /\ Serial!Kept(accepted, rows)[n] = accepted[n]
               /\ Serial!Kept(sent, rows)[n] = sent[n]
    <3>1. rows[n] = IF n = m THEN q.new ELSE mission[n]
      BY Typing DEF SessionInv
    <3>2. n # m => sent[n] = delivered[n]
      BY Typing DEF SessionInv
    <3>3. Forgotten(n)
      BY DEF SoleInv
    <3> HIDE DEF rows, sent, q
    <3> QED
      BY <2>3, <3>1, <3>2, <3>3
      DEF Serial!Kept, Serial!PRE_PLAN_STATUSES, PRE_PLAN_STATUSES, Forgotten
  <2>6. accepted' = accepted /\ delivered' = sent
    <3>1. accepted = [n \in Missions |-> accepted[n]] /\ sent = [n \in Missions |-> sent[n]]
      BY Typing DEF SessionInv
    <3>2. /\ Serial!Kept(accepted, rows) = [n \in Missions |-> Serial!Kept(accepted, rows)[n]]
          /\ Serial!Kept(sent, rows) = [n \in Missions |-> Serial!Kept(sent, rows)[n]]
      BY DEF Serial!Kept
    <3> HIDE DEF rows, sent
    <3> QED BY <2>4, <2>5, <3>1, <3>2
  <2>7. Serial!ExportMission(m)
    BY <2>2, <2>4, <2>6, SerialStatusOperators
       DEF Serial!ExportMission, Serial!Exists, Exists
  <2>8. ASSUME NEW n \in Missions PROVE Forgotten(n)'
    BY <2>4 DEF Forgotten, Serial!Kept, Serial!PRE_PLAN_STATUSES, PRE_PLAN_STATUSES
  <2> QED BY <2>1, <2>2, <2>7, <2>8, SoleEnd DEF SoleInv, Serial!Next
<1>4. CASE CommitDelete(c)
  <2>1. /\ q # Idle /\ Exists(m) /\ Serial!Save(m, Absent) /\ End(c)
    BY <1>4 DEF CommitDelete, Committable, InFlight
  <2>2. m \in Missions
    BY <2>1, Typing DEF SessionInv, Request
  <2>3. Serial!DeleteMission(m)
    BY <2>1 DEF Serial!DeleteMission, Serial!Exists, Exists
  <2> QED BY <2>1, <2>2, <2>3, CommitForgets, SoleEnd DEF SoleInv, Serial!Next, Serial!Save
<1> QED BY <1>1, <1>2, <1>3, <1>4 DEF Finish

(* A generation that finds the row it has loaded leaves the serial one's row. *)
LEMMA FinishedSame ==
  ASSUME NEW r \in Row, CanGenerate(r)
  PROVE  FinishedRow(r, r) = [Generated(r) EXCEPT !.computation = "COMPLETED"]
<1> DEFINE f == FinishedRow(r, r)
           g == Generated(r)
<1>1. g \in Row
  BY GeneratedRow
<1>2. /\ g.config = r.config /\ g.status = "PLANNED" /\ g.unsaved = FALSE
  <2>1. InvalidateTrajectory(r) \in Row /\ InvalidateTrajectory(r).config = r.config
    BY InvalidateRow DEF InvalidateTrajectory, Row
  <2> QED BY <2>1 DEF Generated, Row
<1>3. (IF r.status = "PLANNED" THEN r.status ELSE "PLANNED") = "PLANNED"
  OBVIOUS
<1>4. (IF r.unsaved \/ r.status \in POST_PLAN_STATUSES THEN FALSE ELSE r.unsaved) = FALSE
  <2>1. r.unsaved \in BOOLEAN
    BY DEF Row
  <2> QED BY <2>1, Zenon
<1>5. f = [r EXCEPT !.status = "PLANNED", !.unsaved = FALSE, !.plan = g.plan,
                    !.computation = "COMPLETED"]
  BY <1>3, <1>4 DEF FinishedRow
<1> HIDE DEF f, g
<1>6. f = [g EXCEPT !.computation = "COMPLETED"]
  BY <1>1, <1>2, <1>5 DEF Row
<1> QED BY <1>6 DEF f, g

(* The steps of a generation. *)
LEMMA SoleGenerate ==
  ASSUME Sole, SessionInv, SoleInv, NEW c \in Clients,
         \/ \E m \in Missions : MarkComputing(c, m)
         \/ LoadMission(c) \/ DeletePlan(c) \/ FinishGenerate(c) \/ GenerateFails(c)
  PROVE  SoleInv' /\ (Serial!Next \/ UNCHANGED Serial!vars)
<1>0. \A d \in Clients : d = c
  BY DEF Sole
<1>1. ASSUME NEW m \in Missions, MarkComputing(c, m) PROVE SoleInv' /\ Serial!Next
  <2>1. Serial!GenerateDies(m)
    BY <1>1 DEF MarkComputing, Serial!GenerateDies, Serial!Exists, Exists
  <2>2. mission[m] \in Row
    BY <1>1, SoundRow DEF MarkComputing
  <2>3. /\ request'[c].step = "load" /\ request'[c].mission = m /\ ~request'[c].replaced
        /\ mission'[m] = [mission[m] EXCEPT !.computation = "COMPUTING"]
    BY <1>1, Typing DEF MarkComputing, Serial!Save, Serial!Commit, SessionInv
  <2>4. mission'[m] \in Row
    BY <2>2, <2>3 DEF Row, Computations
  <2>5. Fresh(request'[c], mission'[request'[c].mission])
    BY <2>3, <2>4, ClientAssumption DEF Fresh
  <2>6. \A n \in Missions : Forgotten(n)'
    BY <1>1, CommitForgets DEF MarkComputing, Serial!Save
  <2> QED BY <1>0, <2>1, <2>5, <2>6 DEF SoleInv, Serial!Next
<1>2. CASE LoadMission(c)
  <2>1. /\ request[c] # Idle /\ UNCHANGED table
        /\ CanGenerate(mission[request[c].mission])
        /\ mission[request[c].mission] # Absent
        /\ request' = [request EXCEPT ![c] =
                          [request[c] EXCEPT !.step = "loaded",
                                             !.old = mission[request[c].mission],
                                             !.new = Generated(mission[request[c].mission]),
                                             !.replaced = FALSE]]
    BY <1>2 DEF LoadMission, InFlight, Exists
  <2>2. request[c] \in Request
    BY <2>1, Typing DEF SessionInv
  <2>3. /\ request'[c].step = "loaded" /\ request'[c].mission = request[c].mission
        /\ request'[c].old = mission[request[c].mission] /\ ~request'[c].replaced
    BY <2>1, <2>2, Typing DEF SessionInv, Request
  <2>4. Fresh(request'[c], mission'[request'[c].mission])
    BY <2>1, <2>3 DEF Fresh, table
  <2>5. \A n \in Missions : Forgotten(n)'
    BY <2>1 DEF SoleInv, Forgotten, table
  <2> QED BY <1>0, <2>1, <2>4, <2>5 DEF SoleInv, Serial!vars, table
<1>3. CASE DeletePlan(c)
  <2>1. /\ request[c] # Idle /\ request[c].step = "loaded" /\ UNCHANGED table
        /\ request' = [request EXCEPT ![c] = [request[c] EXCEPT !.step = "compute"]]
    BY <1>3 DEF DeletePlan, InFlight
  <2>2. request[c] \in Request
    BY <2>1, Typing DEF SessionInv
  <2>3. /\ request'[c].step = "compute" /\ request'[c].mission = request[c].mission
        /\ request'[c].old = request[c].old /\ request'[c].replaced = request[c].replaced
    BY <2>1, <2>2, Typing DEF SessionInv, Request
  <2>4. Fresh(request'[c], mission'[request'[c].mission])
    BY <2>1, <2>3 DEF SoleInv, Fresh, table, Sanctioned
  <2>5. \A n \in Missions : Forgotten(n)'
    BY <2>1 DEF SoleInv, Forgotten, table
  <2> QED BY <1>0, <2>1, <2>4, <2>5 DEF SoleInv, Serial!vars, table
<1>4. CASE FinishGenerate(c)
  <2> DEFINE m == request[c].mission
             r == mission[m]
  <2>1. /\ request[c] # Idle /\ request[c].step = "compute" /\ Exists(m)
        /\ Serial!Save(m, FinishedRow(r, request[c].old))
        /\ request'[c] = Idle
    BY <1>4 DEF FinishGenerate, Committable, InFlight
  <2>2. m \in Missions /\ r \in Row /\ request[c].old = r /\ CanGenerate(r)
    BY <2>1, SoundRow, Typing DEF SessionInv, Request, SoleInv, Fresh, Sanctioned
  <2>3. FinishedRow(r, r) = [Generated(r) EXCEPT !.computation = "COMPLETED"]
    BY <2>2, FinishedSame
  <2>4. Serial!Generate(m)
    BY <2>1, <2>2, <2>3, SerialPlanOperators DEF Serial!Generate, Serial!Exists, Exists
  <2>5. \A n \in Missions : Forgotten(n)'
    BY <2>1, CommitForgets DEF Serial!Save
  <2> QED BY <1>0, <2>1, <2>2, <2>4, <2>5 DEF SoleInv, Serial!Next
<1>5. CASE GenerateFails(c)
  <2> DEFINE m == request[c].mission
  <2>1. /\ request[c] # Idle /\ Exists(m) /\ End(c)
        /\ Serial!Save(m, [mission[m] EXCEPT !.computation = "FAILED"])
    BY <1>5 DEF GenerateFails, Committable, InFlight
  <2>2. m \in Missions /\ Serial!GenerateFails(m)
    BY <2>1, Typing DEF SessionInv, Request, Serial!GenerateFails, Serial!Exists, Exists
  <2>3. \A n \in Missions : Forgotten(n)'
    BY <2>1, CommitForgets DEF Serial!Save
  <2> QED BY <2>1, <2>2, <2>3, SoleEnd DEF SoleInv, Serial!Next
<1> QED BY <1>1, <1>2, <1>3, <1>4, <1>5

(* Creations, deletions of drones and aborts. *)
LEMMA SoleOther ==
  ASSUME Sole, SessionInv, SoleInv,
         \/ \E m \in Missions : CreateMission(m)
         \/ \E o \in Operators, d \in Drones : DeleteDrone(o, d)
         \/ \E c \in Clients : Abort(c)
  PROVE  SoleInv' /\ (Serial!Next \/ UNCHANGED Serial!vars)
<1>1. ASSUME NEW m \in Missions, CreateMission(m) PROVE SoleInv' /\ Serial!Next
  <2>1. /\ request' = request /\ Serial!CreateMission(m)
        /\ \A c \in Clients : request[c] # Idle => request[c].mission # m
    BY <1>1 DEF CreateMission
  <2>2. PICK rows : Serial!Commit(rows) /\ \E r : rows = [mission EXCEPT ![m] = r]
    BY <2>1 DEF Serial!CreateMission, Serial!Save
  <2>3. ASSUME NEW c \in Clients, request[c] # Idle
        PROVE  mission'[request[c].mission] = mission[request[c].mission]
    <3>1. request[c].mission \in Missions /\ request[c].mission # m
      BY <2>1, <2>3, Typing DEF SessionInv, Request
    <3> QED BY <2>2, <3>1, Typing DEF Serial!Commit, SessionInv
  <2> QED BY <2>1, <2>2, <2>3, CommitForgets DEF SoleInv, Serial!Next
<1>2. ASSUME NEW o \in Operators, NEW d \in Drones, DeleteDrone(o, d)
      PROVE  SoleInv' /\ Serial!Next
  <2>1. \A c \in Clients : request'[c] = Idle
    BY <1>2 DEF DeleteDrone, Sole, Clients
  <2>2. Serial!DeleteDrone(d)
    BY <1>2 DEF DeleteDrone
  <2>3. \A n \in Missions : Forgotten(n)'
    BY <2>2, CommitForgets DEF Serial!DeleteDrone
  <2> QED BY <2>1, <2>2, <2>3 DEF SoleInv, Serial!Next
<1>3. ASSUME NEW c \in Clients, Abort(c) PROVE SoleInv' /\ UNCHANGED Serial!vars
  BY <1>3, SoleEnd DEF Abort, SoleInv, Forgotten, table, Serial!vars
<1> QED BY <1>1, <1>2, <1>3

(* With one client, the concurrent specification implements the serial     *)
(* one: every behaviour of sessions is a behaviour of whole requests.      *)
THEOREM OneClientIsSerial ==
  ASSUME Sole
  PROVE  Spec => SerialSpec
<1>1. Init => SoleInv /\ Serial!Init
  BY DEF Init, Serial!Init, SoleInv, Forgotten
<1>2. SessionInv /\ SoleInv /\ [Next]_vars => SoleInv' /\ [Serial!Next]_(Serial!vars)
  <2> SUFFICES ASSUME SessionInv, SoleInv, [Next]_vars
               PROVE  SoleInv' /\ (Serial!Next \/ UNCHANGED Serial!vars)
    OBVIOUS
  <2>1. CASE UNCHANGED vars
    BY <2>1 DEF vars, SoleInv, Forgotten, Serial!vars
  <2>2. ASSUME NEW c \in Operators, Work(c)
        PROVE  SoleInv' /\ (Serial!Next \/ UNCHANGED Serial!vars)
    BY <2>2, SoleRead, SoleGenerate DEF Work, Clients
  <2>3. ASSUME NEW c \in Pollers, NEW m \in Missions, ReadPoll(c, m)
        PROVE  SoleInv' /\ (Serial!Next \/ UNCHANGED Serial!vars)
    BY <2>3, SoleRead DEF Clients
  <2> QED BY <2>1, <2>2, <2>3, SoleFinish, SoleOther DEF Next
<1> QED BY <1>1, <1>2, Sessions, PTL DEF Spec, SerialSpec, Serial!Spec
=============================================================================
