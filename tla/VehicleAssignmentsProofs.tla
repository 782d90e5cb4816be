---------------------- MODULE VehicleAssignmentsProofs ----------------------
(***************************************************************************)
(* What holds of the assignments and of the drivers trips store, for any   *)
(* number of trucks, drivers, trips, requests and days.                    *)
(***************************************************************************)
EXTENDS VehicleAssignments, TLAPS

Ops ==
  {OnAssignments}
  \cup [kind : {"PLAN"}, trip : Trips, vehicle : Vehicles \cup {Null}, day : Days]
  \cup [kind : {"EDIT"}, trip : Trips, change : Changes, truck : BOOLEAN]

Planned == [writes : SUBSET Write, new : Row \cup {Null}, driver : Drivers \cup {Null}]

Jobs == {Idle} \cup [phase : {"checked"}, op : Ops, plan : Planned, stale : BOOLEAN]

Typed ==
  /\ today \in Days
  /\ rows \in [Assignments -> Row \cup {Null}]
  /\ trips \in [Trips -> Trip \cup {Null}]
  /\ job \in [Requests -> Jobs]
  /\ raced \in BOOLEAN

(* What is to be written are rows that exist: none is ever removed. *)
WritesExist == \A r \in Requests : \A w \in job[r].plan.writes : w.id \in Exists

Share(x, y) == x.vehicle = y.vehicle \/ x.driver = y.driver

Apart(x, y) == \A day \in Days : ~(Covers(x, day) /\ Covers(y, day))

(* No two rows of a table are of one truck, or one driver, on one day. *)
Separate(table) ==
  \A a, b \in Assignments :
    a # b /\ table[a] # Null /\ table[b] # Null /\ Share(table[a], table[b])
    => Apart(table[a], table[b])

(* A table after writes to it. *)
After(table, writes) ==
  [a \in Assignments |->
     IF \E w \in writes : w.id = a
     THEN [table[a] EXCEPT !.to = (CHOOSE w \in writes : w.id = a).to]
     ELSE table[a]]

(* A plan read from the table as it is: what it writes keeps rows separate, *)
(* its new row is apart from them, and no row that has ended changes.  It  *)
(* writes a row once, as it was read, and cuts off none before it starts.  *)
Fits(writes, new, table, day) ==
  LET written == After(table, writes)
  IN  /\ Separate(written)
      /\ new # Null => \A a \in Assignments :
           table[a] # Null /\ Share(written[a], new) => Apart(written[a], new)
      /\ \A w \in writes :
           /\ ~Ended(table[w.id], day)
           /\ w.row = table[w.id]
           /\ w.to # Null => w.to >= table[w.id].from - 1
      /\ \A w, x \in writes : w.id = x.id => w = x

PlansFit ==
  \A r \in Requests :
    job[r].phase = "checked" /\ job[r].op = OnAssignments /\ ~job[r].stale =>
      Fits(job[r].plan.writes, job[r].plan.new, rows, today)

(* The assignments of a truck that cover a day. *)
Covering(table, v, day) ==
  {a \in Assignments : table[a] # Null /\ table[a].vehicle = v /\ Covers(table[a], day)}

(* The driver pinned by an edit of a trip that stores none: whoever drives *)
(* its truck on its day, unless the edit changes nothing.                  *)
EditFits(change, driver, before, table) ==
  before.driver = Null =>
    \/ Applied(change, before) = before /\ driver = Null
    \/ \A a \in Covering(table, before.vehicle, before.day) : driver = table[a].driver

EditsFit ==
  \A r \in Requests :
    Decided(r, "EDIT") /\ ~job[r].stale /\ ~job[r].op.truck =>
      EditFits(job[r].op.change, job[r].plan.driver, trips[job[r].op.trip], rows)

(* Trips to be planned do not exist yet, each is planned by one request,   *)
(* and trips to be edited exist and keep the driver they store.            *)
TripsAsRead ==
  \A r \in Requests :
    /\ Decided(r, "PLAN") =>
         /\ trips[job[r].op.trip] = Null
         /\ \A q \in Requests : Decided(q, "PLAN") /\ job[q].op.trip = job[r].op.trip => q = r
    /\ Decided(r, "EDIT") =>
         /\ trips[job[r].op.trip] # Null
         /\ job[r].op.change.driver = Keep

IInv ==
  /\ Typed
  /\ WritesExist
  /\ OneActive(rows)
  /\ ~raced => Separate(rows) /\ PlansFit /\ EditsFit
  /\ TripsAsRead
---------------------------------------------------------------------------
(* Requests. *)

LEMMA KindsDiffer ==
  ASSUME NEW op \in Ops
  PROVE  /\ op.kind \in {"ASSIGNMENTS", "PLAN", "EDIT"}
         /\ op.kind = "ASSIGNMENTS" <=> op = OnAssignments
         /\ op.kind = "PLAN" => /\ op.trip \in Trips /\ op.vehicle \in Vehicles \cup {Null}
                                /\ op.day \in Days
         /\ op.kind = "EDIT" => /\ op.trip \in Trips /\ op.change \in Changes
                                /\ op.truck \in BOOLEAN
BY DEF Ops, OnAssignments

LEMMA JobTypes ==
  ASSUME Typed, NEW r \in Requests
  PROVE  /\ job[r].phase \in {"idle", "checked"}
         /\ job[r].plan \in Planned /\ job[r].stale \in BOOLEAN
         /\ job[r].phase = "checked" => job[r].op \in Ops
         /\ job[r].phase = "idle" => job[r] = Idle
<1>1. job[r] \in Jobs
  BY DEF Typed
<1>2. CASE job[r] = Idle
  BY <1>2 DEF Idle, NoPlan, Planned
<1>3. CASE job[r] \in [phase : {"checked"}, op : Ops, plan : Planned, stale : BOOLEAN]
  BY <1>3
<1> QED BY <1>1, <1>2, <1>3 DEF Jobs

LEMMA OutdatedJobs ==
  ASSUME Typed, NEW r \in Requests
  PROVE  /\ Outdated[r] \in Jobs
         /\ Outdated[r].phase = job[r].phase
         /\ Outdated[r].op = job[r].op
         /\ Outdated[r].plan = job[r].plan
         /\ job[r].phase = "checked" => Outdated[r].stale
<1>1. job[r] \in Jobs
  BY DEF Typed
<1>2. CASE job[r].phase = "idle"
  BY <1>1, <1>2 DEF Outdated
<1>3. CASE job[r].phase # "idle"
  <2>1. job[r] \in [phase : {"checked"}, op : Ops, plan : Planned, stale : BOOLEAN]
    BY <1>1, <1>3 DEF Jobs, Idle
  <2>2. Outdated[r] = [job[r] EXCEPT !.stale = TRUE]
    BY <1>3 DEF Outdated
  <2>3. /\ Outdated[r] \in [phase : {"checked"}, op : Ops, plan : Planned, stale : BOOLEAN]
        /\ Outdated[r].phase = job[r].phase /\ Outdated[r].op = job[r].op
        /\ Outdated[r].plan = job[r].plan /\ Outdated[r].stale
    BY <2>1, <2>2
  <2> QED BY <2>3 DEF Jobs
<1> QED BY <1>2, <1>3

(* A request reads and plans: the invariant holds if its plan is one. *)
LEMMA PlansStep ==
  ASSUME IInv, NEW r \in Requests, job[r].phase = "idle",
         NEW op \in Ops, NEW writes \in SUBSET Write, NEW new \in Row \cup {Null},
         NEW driver \in Drivers \cup {Null},
         Plans(r, op, writes, new, driver), ReadsOnly,
         \A w \in writes : w.id \in Exists,
         op = OnAssignments /\ ~raced =>
           Fits(writes, new, rows, today),
         op.kind = "PLAN" =>
           /\ trips[op.trip] = Null
           /\ \A q \in Requests : Decided(q, "PLAN") => job[q].op.trip # op.trip,
         op.kind = "EDIT" => trips[op.trip] # Null /\ op.change.driver = Keep,
         op.kind = "EDIT" /\ ~op.truck /\ ~raced =>
           EditFits(op.change, driver, trips[op.trip], rows)
  PROVE  IInv'
<1> DEFINE plan == [writes |-> writes, new |-> new, driver |-> driver]
           mine == [phase |-> "checked", op |-> op, stale |-> FALSE, plan |-> plan]
<1>1. job' = [job EXCEPT ![r] = mine]
  BY DEF Plans
<1>2. plan \in Planned /\ plan.writes = writes /\ plan.new = new /\ plan.driver = driver
  BY DEF Planned
<1>3. /\ mine \in Jobs /\ mine.phase = "checked" /\ mine.op = op /\ mine.plan = plan
      /\ mine.stale = FALSE
  BY <1>2 DEF Jobs
<1> HIDE DEF mine
<1>4. \A q \in Requests : job'[q] = IF q = r THEN mine ELSE job[q]
  BY <1>1 DEF IInv, Typed
<1>5. UNCHANGED <<today, rows, trips, raced>>
  BY DEF ReadsOnly
<1>6. Typed'
  BY <1>1, <1>3, <1>5 DEF IInv, Typed
<1>7. WritesExist'
  BY <1>2, <1>3, <1>4, <1>5 DEF IInv, WritesExist, Exists
<1>8. OneActive(rows)'
  BY <1>5 DEF IInv, OneActive
<1>9. ~raced' => Separate(rows)' /\ PlansFit' /\ EditsFit'
  <2> SUFFICES ASSUME ~raced PROVE Separate(rows)' /\ PlansFit' /\ EditsFit'
    BY <1>5
  <2>1. Separate(rows)'
    BY <1>5 DEF IInv
  <2>2. ASSUME NEW q \in Requests, job'[q].phase = "checked", job'[q].op = OnAssignments,
               ~job'[q].stale
        PROVE  Fits(job'[q].plan.writes, job'[q].plan.new, rows', today')
    <3>1. CASE q = r
      BY <3>1, <1>2, <1>3, <1>4, <1>5, <2>2
    <3>2. CASE q # r
      BY <3>2, <1>4, <1>5, <2>2 DEF IInv, PlansFit
    <3> QED BY <3>1, <3>2
  <2>3. ASSUME NEW q \in Requests, job'[q].phase = "checked", job'[q].op.kind = "EDIT",
               ~job'[q].stale, ~job'[q].op.truck
        PROVE  EditFits(job'[q].op.change, job'[q].plan.driver, trips'[job'[q].op.trip], rows')
    <3>1. CASE q = r
      BY <3>1, <1>2, <1>3, <1>4, <1>5, <2>3
    <3>2. CASE q # r
      BY <3>2, <1>4, <1>5, <2>3 DEF IInv, EditsFit, Decided
    <3> QED BY <3>1, <3>2
  <2> QED BY <2>1, <2>2, <2>3 DEF PlansFit, EditsFit, Decided
<1>10. TripsAsRead'
  <2>1. \A q \in Requests, kind \in {"PLAN", "EDIT"} :
          Decided(q, kind)' <=> IF q = r THEN op.kind = kind ELSE Decided(q, kind)
    BY <1>3, <1>4 DEF Decided
  <2>2. ASSUME NEW q \in Requests, Decided(q, "PLAN")'
        PROVE  /\ trips'[job'[q].op.trip] = Null
               /\ \A p \in Requests :
                    Decided(p, "PLAN")' /\ job'[p].op.trip = job'[q].op.trip => p = q
    BY <1>3, <1>4, <1>5, <2>1, <2>2 DEF IInv, TripsAsRead
  <2>3. ASSUME NEW q \in Requests, Decided(q, "EDIT")'
        PROVE  trips'[job'[q].op.trip] # Null /\ job'[q].op.change.driver = Keep
    BY <1>3, <1>4, <1>5, <2>1, <2>3 DEF IInv, TripsAsRead
  <2> QED BY <2>2, <2>3 DEF TripsAsRead
<1> QED BY <1>6, <1>7, <1>8, <1>9, <1>10 DEF IInv
---------------------------------------------------------------------------
(* Periods. *)

LEMMA LastDayBeforeType ==
  ASSUME NEW row \in Row, NEW day \in 1..(LastDay + 1)
  PROVE  LastDayBefore(row, day) \in LastDays
BY DaysAssumption DEF LastDayBefore, Row, Days, LastDays

LEMMA ApartFacts ==
  ASSUME NEW x \in Row, NEW y \in Row
  PROVE  /\ Void(x) => Apart(x, y)
         /\ ~Meets(x, y.from, y.to) => Apart(x, y)
         /\ Apart(x, y) => Apart(y, x)
BY DaysAssumption, NullAssumption DEF Void, Meets, Apart, Covers, Row, Days, LastDays

(* A row that lost its last days covers no day it did not. *)
LEMMA ShorterApart ==
  ASSUME NEW x \in Row, NEW z \in Row, NEW y \in Row, Apart(x, y),
         z.from = x.from, z.to # Null, x.to = Null \/ z.to <= x.to
  PROVE  Apart(z, y)
BY DaysAssumption, NullAssumption DEF Apart, Covers, Row, Days, LastDays

(* A row cut off at a day has nothing in common with one that starts then. *)
LEMMA CutOffApart ==
  ASSUME NEW x \in Row, NEW z \in Row, NEW y \in Row,
         z.from = x.from, z.to = LastDayBefore(x, y.from)
  PROVE  Apart(z, y)
BY DaysAssumption, NullAssumption DEF Apart, Covers, LastDayBefore, Row, Days, LastDays

Dated(row, to) == [row EXCEPT !.to = to]

(* The rows of S get the last days in "to". *)
Dates(S, to) == {[id |-> a, row |-> rows[a], to |-> to[a]] : a \in S}

LEMMA AfterDates ==
  ASSUME Typed, NEW S \in SUBSET Exists, NEW to \in [S -> LastDays \cup {Null}]
  PROVE  /\ \A w \in Dates(S, to) : w.id \in S
         /\ \A a \in Assignments :
              After(rows, Dates(S, to))[a] = IF a \in S THEN Dated(rows[a], to[a]) ELSE rows[a]
<1> DEFINE writes == Dates(S, to)
<1>1. \A a \in S : a \in Assignments /\ rows[a] \in Row
  BY DEF Typed, Exists
<1>2. \A w \in writes : w.id \in S
  BY <1>1 DEF Dates
<1>3. ASSUME NEW a \in Assignments
      PROVE  After(rows, writes)[a] = IF a \in S THEN Dated(rows[a], to[a]) ELSE rows[a]
  <2>1. CASE a \in S
    <3> DEFINE mine == [id |-> a, row |-> rows[a], to |-> to[a]]
               found == CHOOSE w \in writes : w.id = a
    <3>1. mine \in writes /\ mine.id = a /\ mine.to = to[a]
      BY <2>1 DEF Dates
    <3>2. \A w \in writes : w.id = a => w = mine
      BY DEF Dates
    <3>3. found \in writes /\ found.id = a
      BY <3>1
    <3>4. found = mine
      BY <3>2, <3>3
    <3>5. After(rows, writes)[a] = Dated(rows[a], found.to)
      BY <3>1 DEF After, Dated
    <3> QED BY <2>1, <3>1, <3>4, <3>5
  <2>2. CASE a \notin S
    BY <1>2, <2>2 DEF After
  <2> QED BY <2>1, <2>2
<1> QED BY <1>2, <1>3

LEMMA DatedRow ==
  ASSUME NEW row \in Row, NEW to \in LastDays \cup {Null}
  PROVE  /\ Dated(row, to) \in Row
         /\ Dated(row, to).to = to
         /\ Dated(row, to).from = row.from
         /\ Dated(row, to).vehicle = row.vehicle
         /\ Dated(row, to).driver = row.driver
BY DEF Row, Dated
---------------------------------------------------------------------------
(* What requests on assignments plan. *)

Closing(S, day) == {CutOff(a, rows[a], day) : a \in S}

(* Closing rows before a new one starts: what is closed is cut off as it   *)
(* starts, and what is not has nothing in common with it.                  *)
LEMMA ClosingFits ==
  ASSUME Typed, Separate(rows), NEW new \in Row, NEW S \in SUBSET Exists,
         \A a \in S : /\ rows[a].to = Null \/ rows[a].to >= new.from
                      /\ ~Void(rows[a])
                      /\ ~Ended(rows[a], today),
         \A a \in Exists \ S : Share(rows[a], new) =>
           Void(rows[a]) \/ ~Meets(rows[a], new.from, new.to)
  PROVE  Fits(Closing(S, new.from), new, rows, today)
<1> DEFINE to == [a \in S |-> LastDayBefore(rows[a], new.from)]
           writes == Closing(S, new.from)
           after == After(rows, writes)
<1>1. \A a \in Exists : a \in Assignments /\ rows[a] \in Row
  BY DEF Typed, Exists
<1>2. new.from \in 1..(LastDay + 1)
  BY DaysAssumption DEF Row, Days
<1>3. to \in [S -> LastDays \cup {Null}]
  BY <1>1, <1>2, LastDayBeforeType
<1>4. writes = Dates(S, to)
  BY DEF CutOff, Dates, Closing
<1> HIDE DEF to, writes
<1>5. /\ \A w \in writes : w.id \in S
      /\ \A a \in Assignments :
           after[a] = IF a \in S THEN Dated(rows[a], to[a]) ELSE rows[a]
  BY <1>3, <1>4, AfterDates
<1> HIDE DEF after
<1>6. ASSUME NEW a \in S
      PROVE  /\ after[a] \in Row /\ after[a].from = rows[a].from
             /\ after[a].vehicle = rows[a].vehicle /\ after[a].driver = rows[a].driver
             /\ after[a].to = LastDayBefore(rows[a], new.from)
             /\ after[a].to # Null /\ (rows[a].to = Null \/ after[a].to <= rows[a].to)
  <2>1. rows[a] \in Row /\ after[a] = Dated(rows[a], to[a]) /\ to[a] \in LastDays
    BY <1>1, <1>2, <1>5, LastDayBeforeType DEF to
  <2>2. /\ after[a] \in Row /\ after[a].from = rows[a].from
        /\ after[a].vehicle = rows[a].vehicle /\ after[a].driver = rows[a].driver
        /\ after[a].to = to[a]
    BY <2>1, DatedRow
  <2>3. to[a] = LastDayBefore(rows[a], new.from) /\ to[a] # Null
    BY <2>1, NullAssumption DEF to, LastDays
  <2>4. rows[a].to = Null \/ to[a] <= rows[a].to
    <3>1. rows[a].from \in Int /\ new.from \in Int
      BY <2>1 DEF Row, Days
    <3>2. CASE rows[a].to # Null
      <4>1. rows[a].to \in Int /\ rows[a].to >= new.from /\ rows[a].to >= rows[a].from
        BY <2>1, <3>1, <3>2 DEF Void, Row, LastDays
      <4> QED BY <2>3, <3>1, <4>1 DEF LastDayBefore
    <3> QED BY <3>2
  <2> QED BY <2>2, <2>3, <2>4
<1>7. ASSUME NEW a \in Assignments, a \notin S PROVE after[a] = rows[a]
  BY <1>5, <1>7
<1>8. \A a \in Exists : /\ after[a] \in Row
                        /\ after[a].vehicle = rows[a].vehicle /\ after[a].driver = rows[a].driver
  BY <1>1, <1>6, <1>7
<1>9. \A a \in Assignments : after[a] # Null => a \in Exists
  BY <1>7 DEF Exists
<1>10. Separate(after)
  <2> SUFFICES ASSUME NEW a \in Exists, NEW b \in Exists, a # b, Share(after[a], after[b])
               PROVE  Apart(after[a], after[b])
    BY <1>9 DEF Separate
  <2>1. Apart(rows[a], rows[b])
    BY <1>1, <1>8 DEF Separate, Share, Exists
  <2>2. Apart(after[a], rows[b])
    BY <1>1, <1>6, <1>7, <2>1, ShorterApart
  <2>3. Apart(rows[b], after[a])
    BY <1>1, <1>8, <2>2, ApartFacts
  <2>4. Apart(after[b], after[a])
    BY <1>1, <1>6, <1>7, <1>8, <2>3, ShorterApart
  <2> QED BY <1>8, <2>4, ApartFacts
<1>11. ASSUME NEW a \in Assignments, rows[a] # Null, Share(after[a], new)
       PROVE  Apart(after[a], new)
  <2>1. a \in Exists
    BY <1>11 DEF Exists
  <2>2. CASE a \in S
    BY <1>1, <1>6, <2>1, <2>2, CutOffApart
  <2>3. CASE a \notin S
    BY <1>1, <1>7, <1>11, <2>1, <2>3, ApartFacts
  <2> QED BY <2>2, <2>3
<1>12. \A w \in writes : ~Ended(rows[w.id], today)
  BY <1>5
<1>13. ASSUME NEW w \in writes, w.to # Null PROVE w.to >= rows[w.id].from - 1
  <2>1. PICK a \in S : w = CutOff(a, rows[a], new.from)
    BY DEF writes, Closing
  <2>2. rows[a].from \in Int /\ new.from \in Int
    BY <1>1, <1>2 DEF Row, Days
  <2> QED BY <2>1, <2>2 DEF CutOff, LastDayBefore
<1>14. /\ \A w \in writes : w.row = rows[w.id]
       /\ \A w, x \in writes : w.id = x.id => w = x
  BY DEF writes, Closing, CutOff
<1> QED BY <1>5, <1>10, <1>11, <1>12, <1>13, <1>14 DEF Fits, after, writes

(* Giving one assignment another last day, in a period that is free. *)
LEMMA RedatingFits ==
  ASSUME Typed, Separate(rows), NEW a \in Exists, NEW to \in LastDays \cup {Null},
         ~Ended(rows[a], today), to # Null => to >= rows[a].from - 1,
         ~Blocked(rows[a].vehicle, rows[a].driver, rows[a].from, to, {a}),
         NEW writes, writes = {[id |-> a, row |-> rows[a], to |-> to]}
  PROVE  Fits(writes, Null, rows, today)
<1> DEFINE after == After(rows, writes)
           tos == [b \in {a} |-> to]
<1>1. \A b \in Exists : b \in Assignments /\ rows[b] \in Row
  BY DEF Typed, Exists
<1>2. /\ {a} \in SUBSET Exists
      /\ tos \in [{a} -> LastDays \cup {Null}]
      /\ writes = Dates({a}, tos)
  BY DEF Dates
<1>3. /\ \A w \in writes : w.id \in {a}
      /\ \A b \in Assignments :
           after[b] = IF b \in {a} THEN Dated(rows[b], tos[b]) ELSE rows[b]
  <2> HIDE DEF tos
  <2>1. /\ \A w \in Dates({a}, tos) : w.id \in {a}
        /\ \A b \in Assignments : After(rows, Dates({a}, tos))[b]
                                   = IF b \in {a} THEN Dated(rows[b], tos[b]) ELSE rows[b]
    BY <1>2, AfterDates
  <2> QED BY <1>2, <2>1
<1> HIDE DEF after
<1>4. /\ after[a] = Dated(rows[a], to)
      /\ \A b \in Assignments : b # a => after[b] = rows[b]
  BY <1>1, <1>3
<1>5. /\ after[a] \in Row /\ after[a].to = to /\ after[a].from = rows[a].from
      /\ after[a].vehicle = rows[a].vehicle /\ after[a].driver = rows[a].driver
  BY <1>1, <1>4, DatedRow
<1>6. ASSUME NEW b \in Exists, b # a, Share(after[a], rows[b])
      PROVE  Apart(rows[b], after[a]) /\ Apart(after[a], rows[b])
  <2>1. rows[b].vehicle = rows[a].vehicle \/ rows[b].driver = rows[a].driver
    BY <1>5, <1>6 DEF Share
  <2>2. Void(rows[b]) \/ ~Meets(rows[b], after[a].from, after[a].to)
    BY <1>5, <1>6, <2>1 DEF Blocked
  <2> QED BY <1>1, <1>5, <2>2, ApartFacts
<1>7. Separate(after)
  <2> SUFFICES ASSUME NEW b \in Assignments, NEW c \in Assignments, b # c,
                      after[b] # Null, after[c] # Null, Share(after[b], after[c])
               PROVE  Apart(after[b], after[c])
    BY DEF Separate
  <2>1. CASE b = a
    BY <1>4, <1>6, <2>1 DEF Exists
  <2>2. CASE c = a
    BY <1>4, <1>6, <2>2 DEF Exists, Share
  <2>3. CASE b # a /\ c # a
    BY <1>4, <2>3 DEF Separate
  <2> QED BY <2>1, <2>2, <2>3
<1>8. /\ \A w \in writes : /\ ~Ended(rows[w.id], today) /\ w.row = rows[w.id]
                           /\ w.to # Null => w.to >= rows[w.id].from - 1
      /\ \A w, x \in writes : w.id = x.id => w = x
  OBVIOUS
<1> QED BY <1>3, <1>7, <1>8 DEF Fits, after
(* What closing writes are rows that exist, with last days. *)
LEMMA ClosingWrites ==
  ASSUME Typed, NEW S \in SUBSET Exists, NEW day \in Days
  PROVE  Closing(S, day) \in SUBSET Write /\ \A w \in Closing(S, day) : w.id \in Exists
<1>1. ASSUME NEW a \in S
      PROVE  CutOff(a, rows[a], day) \in Write /\ CutOff(a, rows[a], day).id \in Exists
  <2>1. a \in Assignments /\ rows[a] \in Row /\ day \in 1..(LastDay + 1)
    BY DaysAssumption DEF Typed, Exists, Days
  <2> QED BY <2>1, LastDayBeforeType DEF CutOff, Write
<1> QED BY <1>1 DEF Closing

LEMMA CreateStep ==
  ASSUME IInv, NEW r \in Requests, NEW v \in Vehicles, NEW d \in Drivers,
         NEW period \in Periods, Create(r, v, d, period.from, period.to)
  PROVE  IInv'
<1> DEFINE from == period.from
           to == period.to
           new == [vehicle |-> v, driver |-> d, from |-> from, to |-> to]
           closed == IF to = Null THEN Superseded(v, d, from) ELSE {}
<1>1. from \in Days /\ to \in Days \cup {Null}
  BY InputsAssumption
<1>2. new \in Row /\ new.from = from /\ new.to = to /\ new.vehicle = v /\ new.driver = d
  BY <1>1 DEF Row, Days, LastDays
<1>3. closed \in SUBSET Exists
  BY DEF Superseded
<1>4. /\ job[r].phase = "idle" /\ ReadsOnly
      /\ ~Blocked(v, d, from, to, closed)
      /\ Plans(r, OnAssignments, Closing(closed, from), new, Null)
  BY DEF Create, Free, Closing
<1>5. Typed
  BY DEF IInv
<1>6. Closing(closed, from) \in SUBSET Write /\ \A w \in Closing(closed, from) : w.id \in Exists
  BY <1>1, <1>3, <1>5, ClosingWrites
<1>7. ASSUME ~raced PROVE Fits(Closing(closed, from), new, rows, today)
  <2>1. \A a \in closed : rows[a].to = Null
    BY DEF Superseded
  <2>2. \A a \in closed : /\ rows[a].to = Null \/ rows[a].to >= from
                          /\ ~Void(rows[a]) /\ ~Ended(rows[a], today)
    BY <2>1 DEF Void, Ended
  <2>3. \A a \in Exists \ closed : Share(rows[a], new) =>
          Void(rows[a]) \/ ~Meets(rows[a], from, to)
    BY <1>2, <1>4 DEF Blocked, Share
  <2>4. Separate(rows)
    BY <1>7 DEF IInv
  <2> HIDE DEF closed, new
  <2> QED BY <1>2, <1>3, <1>5, <2>2, <2>3, <2>4, ClosingFits
<1>8. OnAssignments \in Ops /\ OnAssignments.kind = "ASSIGNMENTS"
  BY DEF Ops, OnAssignments
<1> HIDE DEF closed, new
<1> QED BY <1>2, <1>4, <1>6, <1>7, <1>8, PlansStep

LEMMA LinkStep ==
  ASSUME IInv, NEW r \in Requests, NEW v \in Vehicles, NEW d \in Drivers, Link(r, v, d)
  PROVE  IInv'
<1> DEFINE new == [vehicle |-> v, driver |-> d, from |-> today, to |-> Null]
           closed == Conflicts(v, d)
<1>1. today \in Days /\ Typed
  BY DEF IInv, Typed
<1>2. new \in Row /\ new.from = today /\ new.to = Null /\ new.vehicle = v /\ new.driver = d
  BY <1>1 DEF Row
<1>3. closed \in SUBSET Exists
  BY DEF Conflicts
<1>4. /\ job[r].phase = "idle" /\ ReadsOnly
      /\ Plans(r, OnAssignments, Closing(closed, today), new, Null)
  BY DEF Link, Free, Closing
<1>5. Closing(closed, today) \in SUBSET Write /\ \A w \in Closing(closed, today) : w.id \in Exists
  BY <1>1, <1>3, ClosingWrites
<1>6. ASSUME ~raced PROVE Fits(Closing(closed, today), new, rows, today)
  <2>1. ASSUME NEW a \in closed
        PROVE  /\ rows[a].to = Null \/ rows[a].to >= today
               /\ ~Void(rows[a]) /\ ~Ended(rows[a], today)
    <3>1. rows[a] \in Row /\ Meets(rows[a], today, Null) /\ ~Void(rows[a])
      BY <1>1, <2>1 DEF Conflicts, Typed, Exists
    <3> QED BY <1>1, <3>1 DEF Meets, Ended, Row, Days, LastDays
  <2>2. \A a \in Exists \ closed : Share(rows[a], new) =>
          Void(rows[a]) \/ ~Meets(rows[a], today, Null)
    BY <1>2 DEF Conflicts, Share
  <2>3. Separate(rows)
    BY <1>6 DEF IInv
  <2> HIDE DEF closed, new
  <2> QED BY <1>1, <1>2, <1>3, <2>1, <2>2, <2>3, ClosingFits
<1>7. OnAssignments \in Ops /\ OnAssignments.kind = "ASSIGNMENTS"
  BY DEF Ops, OnAssignments
<1> HIDE DEF closed, new
<1> QED BY <1>2, <1>4, <1>5, <1>6, <1>7, PlansStep

LEMMA RedatesStep ==
  ASSUME IInv, NEW r \in Requests, NEW a \in Exists, NEW to \in LastDays \cup {Null},
         to # Null => to >= rows[a].from - 1, Redates(r, a, to)
  PROVE  IInv'
<1> DEFINE writes == {[id |-> a, row |-> rows[a], to |-> to]}
<1>1. Typed /\ a \in Assignments /\ rows[a] \in Row
  BY DEF IInv, Typed, Exists
<1>2. /\ job[r].phase = "idle" /\ ReadsOnly
      /\ ~Ended(rows[a], today)
      /\ ~Blocked(rows[a].vehicle, rows[a].driver, rows[a].from, to, {a})
      /\ Plans(r, OnAssignments, writes, Null, Null)
  BY DEF Redates, Free
<1>3. writes \in SUBSET Write /\ \A w \in writes : w.id \in Exists
  BY <1>1 DEF Write
<1>4. ASSUME ~raced PROVE Fits(writes, Null, rows, today)
  <2>1. Separate(rows)
    BY <1>4 DEF IInv
  <2> HIDE DEF writes
  <2> QED BY <1>1, <1>2, <2>1, RedatingFits DEF writes
<1>5. OnAssignments \in Ops /\ OnAssignments.kind = "ASSIGNMENTS"
  BY DEF Ops, OnAssignments
<1> HIDE DEF writes
<1> QED BY <1>2, <1>3, <1>4, <1>5, PlansStep

LEMMA UpdateOrEndStep ==
  ASSUME IInv, NEW r \in Requests, NEW a \in Assignments, NEW to \in EndDays,
         Update(r, a, to) \/ End(r, a, to)
  PROVE  IInv'
<1>1. to \in Days \cup {Null} /\ today \in Days
  BY InputsAssumption DEF IInv, Typed
<1>2. CASE Update(r, a, to)
  <2>1. a \in Exists /\ to \in LastDays \cup {Null} /\ Redates(r, a, to)
    BY <1>1, <1>2 DEF Update, Days, LastDays
  <2>2. ASSUME to # Null PROVE to >= rows[a].from - 1
    <3>1. to >= rows[a].from
      BY <1>2, <2>2 DEF Update, Ordered
    <3>2. to \in Int /\ rows[a].from \in Int
      BY <1>1, <2>1, <2>2 DEF IInv, Typed, Exists, Row, Days
    <3> QED BY <3>1, <3>2
  <2> QED BY <2>1, <2>2, RedatesStep
<1>3. CASE End(r, a, to)
  <2> DEFINE first == IF to = Null THEN today ELSE to + 1
  <2>1. first \in 1..(LastDay + 1)
    BY <1>1, DaysAssumption DEF Days
  <2>2. a \in Exists /\ rows[a] \in Row /\ Redates(r, a, LastDayBefore(rows[a], first))
    BY <1>3 DEF End, IInv, Typed, Exists
  <2> HIDE DEF first
  <2>3. LastDayBefore(rows[a], first) \in LastDays \cup {Null}
    BY <2>1, <2>2, LastDayBeforeType
  <2>4. LastDayBefore(rows[a], first) >= rows[a].from - 1
    BY <2>1, <2>2, DaysAssumption DEF LastDayBefore, Row, Days
  <2> QED BY <2>2, <2>3, <2>4, RedatesStep
<1> QED BY <1>2, <1>3
---------------------------------------------------------------------------
(* What is committed, and what is planned for trips. *)

(* Whatever changes, the requests under way are outdated or answered. *)
LEMMA LaterStep ==
  ASSUME IInv,
         today' \in Days, rows' \in [Assignments -> Row \cup {Null}],
         trips' \in [Trips -> Trip \cup {Null}], raced' \in BOOLEAN,
         Exists \subseteq Exists', OneActive(rows'), ~raced' => Separate(rows'),
         job' = [q \in Requests |-> job'[q]],
         \A q \in Requests : job'[q] = Outdated[q] \/ job'[q] = Idle,
         \A t \in Trips : trips[t] # Null => trips'[t] # Null,
         \A q \in Requests : Decided(q, "PLAN") /\ job'[q] = Outdated[q] =>
           trips'[job[q].op.trip] = Null
  PROVE  IInv'
<1>1. ASSUME NEW q \in Requests, job'[q] # Idle
      PROVE  /\ job'[q] \in Jobs /\ job'[q].phase = job[q].phase /\ job'[q].op = job[q].op
             /\ job'[q].plan = job[q].plan /\ (job[q].phase = "checked" => job'[q].stale)
             /\ job'[q] = Outdated[q]
  BY <1>1, OutdatedJobs DEF IInv
<1>2. Idle \in Jobs /\ Idle.phase = "idle" /\ Idle.plan.writes = {}
  BY DEF Jobs, Idle, NoPlan
<1>3. \A q \in Requests : job'[q] \in Jobs
  BY <1>1, <1>2
<1>4. Typed'
  <2>1. job' \in [Requests -> Jobs]
    BY <1>3
  <2> QED BY <2>1 DEF Typed
<1>5. WritesExist'
  <2> SUFFICES ASSUME NEW q \in Requests, NEW w \in job'[q].plan.writes PROVE w.id \in Exists'
    BY DEF WritesExist
  <2>1. job'[q] # Idle
    BY <1>2
  <2> QED BY <1>1, <2>1 DEF IInv, WritesExist
<1>6. PlansFit'
  <2> SUFFICES ASSUME NEW q \in Requests, job'[q].phase = "checked" PROVE job'[q].stale
    BY DEF PlansFit
  <2>1. job'[q] # Idle
    BY <1>2
  <2> QED BY <1>1, <2>1
<1>7. EditsFit'
  <2> SUFFICES ASSUME NEW q \in Requests, job'[q].phase = "checked" PROVE job'[q].stale
    BY DEF EditsFit, Decided
  <2>1. job'[q] # Idle
    BY <1>2
  <2> QED BY <1>1, <2>1
<1>8. TripsAsRead'
  <2>1. \A q \in Requests, kind \in {"PLAN", "EDIT"} :
          Decided(q, kind)' => /\ Decided(q, kind) /\ job'[q].op = job[q].op
                              /\ job'[q] = Outdated[q]
    BY <1>1, <1>2 DEF Decided
  <2>2. ASSUME NEW q \in Requests, Decided(q, "PLAN")'
        PROVE  /\ trips'[job'[q].op.trip] = Null
               /\ \A p \in Requests :
                    Decided(p, "PLAN")' /\ job'[p].op.trip = job'[q].op.trip => p = q
    BY <2>1, <2>2 DEF IInv, TripsAsRead
  <2>3. ASSUME NEW q \in Requests, Decided(q, "EDIT")'
        PROVE  trips'[job'[q].op.trip] # Null /\ job'[q].op.change.driver = Keep
    <3>1. Decided(q, "EDIT") /\ job'[q].op = job[q].op
      BY <2>1, <2>3
    <3>2. job[q].op.trip \in Trips
      BY <3>1, JobTypes, KindsDiffer DEF IInv, Decided
    <3> QED BY <3>1, <3>2 DEF IInv, TripsAsRead
  <2> QED BY <2>2, <2>3 DEF TripsAsRead
<1> QED BY <1>4, <1>5, <1>6, <1>7, <1>8 DEF IInv, Typed

LEMMA CommitsJobs ==
  ASSUME Typed, NEW r \in Requests, Commits(r)
  PROVE  /\ job' = [q \in Requests |-> job'[q]]
         /\ job'[r] = Idle
         /\ \A q \in Requests : q # r => job'[q] = Outdated[q]
         /\ raced' = (raced \/ job[r].stale)
         /\ raced' \in BOOLEAN
<1>1. job[r].stale \in BOOLEAN /\ raced \in BOOLEAN
  BY JobTypes DEF Typed
<1>2. job' = [Outdated EXCEPT ![r] = Idle] /\ raced' = (raced \/ job[r].stale)
  BY DEF Commits
<1>3. Outdated = [q \in Requests |-> Outdated[q]]
  BY DEF Outdated
<1> HIDE DEF Outdated
<1>4. /\ job' = [q \in Requests |-> job'[q]] /\ job'[r] = Idle
      /\ \A q \in Requests : q # r => job'[q] = Outdated[q]
  BY <1>2, <1>3
<1> QED BY <1>1, <1>2, <1>4

(* The table a request on assignments leaves. *)
LEMMA TablesAre ==
  ASSUME IInv, NEW r \in Requests, Decided(r, "ASSIGNMENTS"), NEW table \in Tables(r)
  PROVE  /\ table \in [Assignments -> Row \cup {Null}]
         /\ \A a \in Exists :
              /\ table[a] # Null
              /\ table[a] # rows[a] => \E w \in job[r].plan.writes :
                   w.id = a /\ table[a] = Dated(rows[a], w.to)
         /\ ~raced /\ ~job[r].stale =>
              /\ Separate(table)
              /\ \A a \in Exists : Ended(rows[a], today) => table[a] = rows[a]
<1> DEFINE writes == job[r].plan.writes
           new == job[r].plan.new
           after == After(rows, writes)
<1>1. job[r].plan \in Planned /\ job[r].op = OnAssignments /\ job[r].phase = "checked"
  BY JobTypes, KindsDiffer DEF IInv, Decided
<1>2. writes \in SUBSET Write /\ new \in Row \cup {Null}
  BY <1>1 DEF Planned
<1>3. \A w \in writes : w.id \in Exists
  BY DEF IInv, WritesExist
<1>4. Written(writes) = after
  BY DEF Written, After
<1>5. IF new = Null THEN table = after
      ELSE \E a \in Assignments \ Exists : table = [after EXCEPT ![a] = new]
  BY <1>4 DEF Tables
<1> HIDE DEF writes, new
<1>6. ASSUME NEW a \in Assignments
      PROVE  /\ after[a] \in Row \cup {Null}
             /\ after[a] = Null <=> rows[a] = Null
             /\ (\A w \in writes : w.id # a) => after[a] = rows[a]
             /\ after[a] # rows[a] => \E w \in writes : w.id = a /\ after[a] = Dated(rows[a], w.to)
  <2>1. CASE \E w \in writes : w.id = a
    <3> DEFINE found == CHOOSE w \in writes : w.id = a
    <3>1. found \in writes /\ found.id = a
      BY <2>1
    <3>2. rows[a] \in Row /\ rows[a] # Null /\ found.to \in LastDays \cup {Null}
      BY <1>2, <1>3, <3>1 DEF IInv, Typed, Exists, Write
    <3>3. after[a] = Dated(rows[a], found.to)
      BY <2>1 DEF After, Dated
    <3> HIDE DEF found, after
    <3>4. after[a] \in Row
      BY <3>2, <3>3, DatedRow
    <3>5. Null \notin Row
      BY NullIsNoRow
    <3> QED BY <2>1, <3>1, <3>2, <3>3, <3>4, <3>5
  <2>2. CASE ~\E w \in writes : w.id = a
    BY <2>2 DEF After, IInv, Typed
  <2> QED BY <2>1, <2>2
<1> HIDE DEF after
<1>7. after = [a \in Assignments |-> after[a]]
  BY DEF after, After
<1>8. /\ table = [a \in Assignments |-> table[a]]
      /\ \A a \in Exists : table[a] = after[a]
      /\ \A a \in Assignments : table[a] = after[a] \/ (new # Null /\ table[a] = new)
      /\ \A a, b \in Assignments : a # b => table[a] = after[a] \/ table[b] = after[b]
  <2>1. CASE new = Null
    BY <1>5, <1>7, <2>1 DEF Exists
  <2>2. CASE new # Null
    <3>1. PICK own \in Assignments \ Exists : table = [after EXCEPT ![own] = new]
      BY <1>5, <2>2
    <3>2. \A a \in Assignments : table[a] = IF a = own THEN new ELSE after[a]
      BY <1>7, <3>1
    <3>3. table = [a \in Assignments |-> table[a]]
      BY <1>7, <3>1
    <3> QED BY <2>2, <3>1, <3>2, <3>3 DEF Exists
  <2> QED BY <2>1, <2>2
<1>9. /\ table \in [Assignments -> Row \cup {Null}]
      /\ \A a \in Exists :
           /\ table[a] # Null
           /\ table[a] # rows[a] => \E w \in writes : w.id = a /\ table[a] = Dated(rows[a], w.to)
  <2>1. \A a \in Assignments : table[a] \in Row \cup {Null}
    BY <1>2, <1>6, <1>8
  <2>2. table \in [Assignments -> Row \cup {Null}]
    BY <1>8, <2>1
  <2> QED BY <1>6, <1>8, <2>2 DEF Exists
<1>10. ASSUME ~raced, ~job[r].stale
       PROVE  /\ Separate(table)
              /\ \A a \in Exists : Ended(rows[a], today) => table[a] = rows[a]
  <2>1. Fits(writes, new, rows, today)
    BY <1>1, <1>10 DEF IInv, PlansFit, writes, new
  <2>2. Separate(after)
    BY <2>1 DEF Fits, after
  <2>3. new # Null => \A a \in Exists : Share(after[a], new) => Apart(after[a], new)
    BY <2>1 DEF Fits, after, Exists
  <2>4. \A w \in writes : ~Ended(rows[w.id], today)
    BY <2>1 DEF Fits
  <2>5. Separate(table)
    <3> SUFFICES ASSUME NEW a \in Assignments, NEW b \in Assignments, a # b,
                        table[a] # Null, table[b] # Null, Share(table[a], table[b])
                 PROVE  Apart(table[a], table[b])
      BY DEF Separate
    <3>1. CASE table[a] = after[a] /\ table[b] = after[b]
      BY <2>2, <3>1 DEF Separate
    <3>2. CASE table[a] = after[a] /\ table[b] = new /\ new # Null
      <4>1. a \in Exists
        BY <1>6, <3>2 DEF Exists
      <4> QED BY <2>3, <3>2, <4>1
    <3>3. CASE table[a] = new /\ table[b] = after[b] /\ new # Null
      <4>1. b \in Exists
        BY <1>6, <3>3 DEF Exists
      <4>2. Apart(after[b], new)
        BY <2>3, <3>3, <4>1 DEF Share
      <4>3. Apart(new, after[b])
        BY <4>2 DEF Apart
      <4> QED BY <3>3, <4>3
    <3> QED BY <1>8, <3>1, <3>2, <3>3
  <2>6. \A a \in Exists : Ended(rows[a], today) => table[a] = rows[a]
    BY <1>6, <1>8, <2>4 DEF Exists
  <2> QED BY <2>5, <2>6
<1> QED BY <1>9, <1>10 DEF writes
(* A commit pins drivers on trips that store none, and on no other. *)
LEMMA CommitAssignmentStep ==
  ASSUME IInv, NEW r \in Requests, CommitAssignment(r)
  PROVE  /\ IInv'
         /\ \A t \in Trips : trips[t] # Null /\ trips[t].driver # Null => trips'[t] = trips[t]
         /\ ~raced' => \A a \in Exists : Ended(rows[a], today) => rows'[a] = rows[a]
<1> DEFINE writes == job[r].plan.writes
<1>1. /\ Decided(r, "ASSIGNMENTS") /\ Commits(r) /\ today' = today
      /\ \E table \in Tables(r) : rows' = table /\ ActiveIndexHolds(table)
  BY DEF CommitAssignment
<1>2. PICK pick \in [Trips -> Drivers] :
        /\ \A t \in Trips : PinnedTo(t, writes) # {} => pick[t] \in PinnedTo(t, writes)
        /\ trips' = [t \in Trips |-> IF PinnedTo(t, writes) = {} THEN trips[t]
                                     ELSE [trips[t] EXCEPT !.driver = pick[t]]]
  BY DEF CommitAssignment
<1>3. \A t \in Trips : PinnedTo(t, writes) # {} => trips[t] # Null /\ trips[t].driver = Null
  BY DEF PinnedTo, Pins
<1> HIDE DEF writes
<1>4. ASSUME NEW t \in Trips
      PROVE  /\ trips'[t] \in Trip \cup {Null}
             /\ trips[t] = Null => trips'[t] = Null
             /\ trips[t] # Null => trips'[t] # Null
             /\ trips[t] # Null /\ trips[t].driver # Null => trips'[t] = trips[t]
  <2>1. CASE PinnedTo(t, writes) = {}
    BY <1>2, <2>1 DEF IInv, Typed
  <2>2. CASE PinnedTo(t, writes) # {}
    <3>1. trips[t] \in Trip /\ trips'[t] = [trips[t] EXCEPT !.driver = pick[t]]
      BY <1>2, <1>3, <2>2 DEF IInv, Typed
    <3>2. trips'[t] \in Trip
      BY <3>1 DEF Trip
    <3> QED BY <1>3, <2>2, <3>2, NullIsNoRow
  <2> QED BY <2>1, <2>2
<1>5. trips' \in [Trips -> Trip \cup {Null}]
  <2>1. trips' = [t \in Trips |-> trips'[t]]
    BY <1>2
  <2> QED BY <1>4, <2>1
<1>6. /\ rows' \in [Assignments -> Row \cup {Null}] /\ OneActive(rows')
      /\ \A a \in Exists : rows'[a] # Null
      /\ ~raced /\ ~job[r].stale =>
           Separate(rows') /\ \A a \in Exists : Ended(rows[a], today) => rows'[a] = rows[a]
  BY <1>1, TablesAre DEF ActiveIndexHolds
<1>7. Exists \subseteq Exists'
  BY <1>6 DEF Exists
<1>8. /\ job' = [q \in Requests |-> job'[q]] /\ raced' \in BOOLEAN
      /\ \A q \in Requests : job'[q] = Outdated[q] \/ job'[q] = Idle
      /\ raced' = (raced \/ job[r].stale)
  BY <1>1, CommitsJobs DEF IInv
<1>9. \A q \in Requests : Decided(q, "PLAN") => trips'[job[q].op.trip] = Null
  BY <1>4, JobTypes, KindsDiffer DEF IInv, TripsAsRead, Decided
<1>10. today' \in Days
  BY <1>1 DEF IInv, Typed
<1>11. IInv'
  BY <1>4, <1>5, <1>6, <1>7, <1>8, <1>9, <1>10, LaterStep
<1> QED BY <1>4, <1>6, <1>8, <1>11

(* Who drove a trip that stores no driver is pinned on it, or drives it     *)
(* still: a commit cuts off no days it does not pin.                       *)
LEMMA CommitKeepsDriver ==
  ASSUME IInv, NEW r \in Requests, CommitAssignment(r), ~raced',
         NEW t \in Trips, trips[t] # Null, trips[t].driver = Null,
         NEW a \in Covering(rows, trips[t].vehicle, trips[t].day)
  PROVE  \/ trips'[t].driver = rows[a].driver
         \/ /\ trips'[t] = trips[t] /\ rows'[a].driver = rows[a].driver
            /\ a \in Covering(rows', trips[t].vehicle, trips[t].day)
<1> DEFINE writes == job[r].plan.writes
           new == job[r].plan.new
           v == trips[t].vehicle
           day == trips[t].day
<1>1. PICK table \in Tables(r), pick \in [Trips -> Drivers] :
        /\ rows' = table
        /\ \A u \in Trips : PinnedTo(u, writes) # {} => pick[u] \in PinnedTo(u, writes)
        /\ trips' = [u \in Trips |-> IF PinnedTo(u, writes) = {} THEN trips[u]
                                     ELSE [trips[u] EXCEPT !.driver = pick[u]]]
  BY DEF CommitAssignment
<1>2. Decided(r, "ASSIGNMENTS") /\ ~raced /\ ~job[r].stale
  BY CommitsJobs DEF CommitAssignment, IInv
<1>3. /\ job[r].plan \in Planned /\ job[r].op = OnAssignments /\ job[r].phase = "checked"
      /\ writes \in SUBSET Write
  BY <1>2, JobTypes, KindsDiffer DEF IInv, Decided, Planned
<1>4. Fits(writes, new, rows, today) /\ Separate(rows)
  BY <1>2, <1>3 DEF IInv, PlansFit
<1>5. /\ \A w \in writes : w.row = rows[w.id] /\ (w.to # Null => w.to >= rows[w.id].from - 1)
      /\ \A w \in writes : w.id \in Exists
  BY <1>4 DEF Fits, IInv, WritesExist
<1>6. trips[t] \in Trip /\ day \in Days
  BY DEF IInv, Typed, Trip
<1>7. /\ a \in Exists /\ rows[a] \in Row /\ rows[a].vehicle = v /\ Covers(rows[a], day)
  BY DEF Covering, Exists, IInv, Typed
<1> HIDE DEF writes, new
<1>8. CASE PinnedTo(t, writes) # {}
  <2>1. PICK w \in writes : Pins(w, t) /\ pick[t] = w.row.driver
    BY <1>1, <1>8 DEF PinnedTo
  <2>2. w.id \in Exists /\ rows[w.id] \in Row /\ w.row = rows[w.id]
    BY <1>5 DEF Exists, IInv, Typed
  <2>3. /\ w.to # Null /\ day > w.to /\ rows[w.id].vehicle = v
        /\ rows[w.id].to = Null \/ day <= rows[w.id].to
        /\ w.to >= rows[w.id].from - 1
    BY <1>5, <2>1, <2>2 DEF Pins
  <2>4. w.to \in Int /\ day \in Int /\ rows[w.id].from \in Int
    BY <1>3, <1>6, <2>2, <2>3 DEF Write, LastDays, Row, Days
  <2>5. rows[w.id].from <= day
    BY <2>3, <2>4
  <2>6. Covers(rows[w.id], day)
    BY <1>6, <2>2, <2>3, <2>5 DEF Covers, Row, Days, LastDays
  <2>7. w.id = a
    BY <1>4, <1>6, <1>7, <2>2, <2>3, <2>6 DEF Separate, Share, Apart, Exists
  <2>8. trips'[t].driver = pick[t]
    BY <1>1, <1>6, <1>8 DEF Trip
  <2> QED BY <2>1, <2>2, <2>7, <2>8
<1>9. CASE PinnedTo(t, writes) = {}
  <2>1. trips'[t] = trips[t]
    BY <1>1, <1>9
  <2>2. CASE rows'[a] = rows[a]
    BY <1>7, <2>1, <2>2 DEF Covering, Exists
  <2>3. CASE rows'[a] # rows[a]
    <3>1. PICK w \in writes : w.id = a /\ rows'[a] = Dated(rows[a], w.to)
      BY <1>1, <1>2, <1>7, <2>3, TablesAre DEF writes
    <3>2. w.to \in LastDays \cup {Null} /\ w.row = rows[a] /\ ~Pins(w, t)
      BY <1>3, <1>5, <1>9, <3>1 DEF Write, PinnedTo
    <3>3. /\ rows'[a] \in Row /\ rows'[a].to = w.to /\ rows'[a].from = rows[a].from
          /\ rows'[a].vehicle = v /\ rows'[a].driver = rows[a].driver
      BY <1>7, <3>1, <3>2, DatedRow
    <3>4. rows[a].to = Null \/ day <= rows[a].to
      BY <1>6, <1>7 DEF Covers, Row, Days, LastDays
    <3>5. w.to = Null \/ ~(day > w.to)
      BY <1>7, <3>2, <3>4 DEF Pins
    <3>6. Covers(rows'[a], day)
      BY <1>6, <1>7, <3>2, <3>3, <3>5, NullAssumption DEF Covers, Row, Days, LastDays
    <3>7. rows'[a] # Null /\ a \in Assignments
      BY <1>7, <3>3, NullIsNoRow DEF Exists
    <3> QED BY <2>1, <3>3, <3>6, <3>7 DEF Covering
  <2> QED BY <2>2, <2>3
<1> QED BY <1>8, <1>9

LEMMA AssignmentRacedStep ==
  ASSUME IInv, NEW r \in Requests, AssignmentRaced(r)
  PROVE  IInv'
<1>1. job' = [job EXCEPT ![r] = Idle] /\ UNCHANGED <<today, rows, trips, raced>>
  BY DEF AssignmentRaced, Answers, ReadsOnly
<1>2. Idle \in Jobs /\ Idle.phase = "idle" /\ Idle.plan.writes = {}
  BY DEF Jobs, Idle, NoPlan
<1>3. \A q \in Requests : job'[q] = IF q = r THEN Idle ELSE job[q]
  BY <1>1 DEF IInv, Typed
<1>4. Typed'
  BY <1>1, <1>2 DEF IInv, Typed
<1>5. WritesExist'
  BY <1>1, <1>2, <1>3 DEF IInv, WritesExist, Exists
<1>6. ~raced' => Separate(rows)' /\ PlansFit' /\ EditsFit'
  BY <1>1, <1>2, <1>3 DEF IInv, PlansFit, EditsFit, Decided
<1>7. TripsAsRead'
  <2>1. \A q \in Requests, kind \in {"PLAN", "EDIT"} :
          Decided(q, kind)' => Decided(q, kind) /\ job'[q] = job[q]
    BY <1>2, <1>3 DEF Decided
  <2>2. ASSUME NEW q \in Requests, Decided(q, "PLAN")'
        PROVE  /\ trips'[job'[q].op.trip] = Null
               /\ \A p \in Requests :
                    Decided(p, "PLAN")' /\ job'[p].op.trip = job'[q].op.trip => p = q
    BY <1>1, <2>1, <2>2 DEF IInv, TripsAsRead
  <2>3. ASSUME NEW q \in Requests, Decided(q, "EDIT")'
        PROVE  trips'[job'[q].op.trip] # Null /\ job'[q].op.change.driver = Keep
    BY <1>1, <2>1, <2>3 DEF IInv, TripsAsRead
  <2> QED BY <2>2, <2>3 DEF TripsAsRead
<1>8. OneActive(rows)'
  BY <1>1 DEF IInv
<1> QED BY <1>4, <1>5, <1>6, <1>7, <1>8 DEF IInv

(* The drivers the table answers with are drivers. *)
LEMMA DriversAre ==
  ASSUME Typed, NEW v, NEW day
  PROVE  DriversOn(v, day) \subseteq Drivers /\ OrNull(DriversOn(v, day)) \subseteq Drivers \cup {Null}
BY DEF DriversOn, Governing, OrNull, Typed, Exists, Row

(* ... the drivers of a table, and the only one when its rows are apart. *)
DriversIn(table, v, day) ==
  {table[a].driver : a \in {b \in Covering(table, v, day) :
                            \A c \in Covering(table, v, day) : table[c].from <= table[b].from}}

LEMMA DriversOnIn ==
  ASSUME NEW v, NEW day
  PROVE  DriversOn(v, day) = DriversIn(rows, v, day)
BY DEF DriversOn, Governing, DriversIn, Covering, Exists

LEMMA OnlyDriver ==
  ASSUME NEW table \in [Assignments -> Row \cup {Null}], Separate(table), NEW v, NEW day \in Days
  PROVE  /\ \A a \in Covering(table, v, day) : DriversIn(table, v, day) = {table[a].driver}
         /\ DriversIn(table, v, day) # {} => Covering(table, v, day) # {}
<1>1. \A a, b \in Covering(table, v, day) : a = b
  BY DEF Covering, Separate, Share, Apart
<1>2. \A a \in Covering(table, v, day) : table[a].from \in Int
  BY DEF Covering, Row, Days
<1>3. ASSUME NEW a \in Covering(table, v, day)
      PROVE  DriversIn(table, v, day) = {table[a].driver}
  <2>1. Covering(table, v, day) = {a}
    BY <1>1
  <2> QED BY <1>2, <2>1 DEF DriversIn
<1> QED BY <1>3 DEF DriversIn

LEMMA PlanTripStep ==
  ASSUME IInv, NEW r \in Requests, NEW t \in Trips, NEW p \in Plannings, PlanTrip(r, t, p)
  PROVE  IInv'
<1> DEFINE op == [kind |-> "PLAN", trip |-> t, vehicle |-> p.vehicle, day |-> p.day]
<1>1. /\ p.vehicle \in Vehicles \cup {Null} /\ p.day \in Days
      /\ p.driver \in Drivers \cup {Null}
  BY InputsAssumption
<1>2. op \in Ops /\ op.kind = "PLAN" /\ op.trip = t /\ op # OnAssignments
  BY <1>1 DEF Ops, OnAssignments
<1>3. PICK d \in IF p.driver # Null THEN {p.driver} ELSE OrNull(DriversOn(p.vehicle, p.day)) :
        Plans(r, op, {}, Null, d)
  BY DEF PlanTrip
<1>4. d \in Drivers \cup {Null}
  BY <1>1, <1>3, DriversAre DEF IInv
<1>5. /\ job[r].phase = "idle" /\ ReadsOnly /\ trips[t] = Null
      /\ \A q \in Requests : Decided(q, "PLAN") => job[q].op.trip # t
  BY DEF PlanTrip, Free
<1> HIDE DEF op
<1> QED BY <1>2, <1>3, <1>4, <1>5, PlansStep

LEMMA EditTripStep ==
  ASSUME IInv, NEW r \in Requests, NEW t \in Trips, NEW change \in Changes, EditTrip(r, t, change)
  PROVE  IInv'
<1> DEFINE truck == ChangesTruckOnly(change, trips[t])
           op == [kind |-> "EDIT", trip |-> t, change |-> change, truck |-> truck]
           found == IF truck THEN OrNull(DriversOn(change.vehicle, Or(change.day, trips[t].day)))
                    ELSE DriverToPin(trips[t], Applied(change, trips[t]))
<1>1. truck \in BOOLEAN
  BY DEF ChangesTruckOnly
<1> HIDE DEF truck
<1>2. /\ op \in Ops /\ op.kind = "EDIT" /\ op.trip = t /\ op.change = change
      /\ op # OnAssignments
  BY <1>1 DEF Ops, OnAssignments
<1>3. PICK d \in found : Plans(r, op, {}, Null, d)
  BY DEF EditTrip, truck
<1>4. found \subseteq Drivers \cup {Null}
  BY DriversAre DEF IInv, DriverToPin
<1>5. /\ job[r].phase = "idle" /\ ReadsOnly /\ trips[t] # Null /\ change.driver = Keep
  BY DEF EditTrip, Free
<1>6. ASSUME ~truck, ~raced PROVE EditFits(change, d, trips[t], rows)
  <2> DEFINE before == trips[t]
             after == Applied(change, before)
             shown == DriversOn(before.vehicle, before.day)
             covering == Covering(rows, before.vehicle, before.day)
  <2> SUFFICES ASSUME before.driver = Null
               PROVE  (after = before /\ d = Null) \/ \A a \in covering : d = rows[a].driver
    BY DEF EditFits
  <2>1. before \in Trip
    BY <1>5 DEF IInv, Typed
  <2>2. after.driver = Null
    BY <1>5 DEF Applied, Or
  <2>3. d \in DriverToPin(before, after)
    BY <1>3, <1>6
  <2>4. CASE before = after
    BY <2>2, <2>3, <2>4 DEF DriverToPin
  <2>5. CASE before # after /\ shown # {}
    <3>1. d \in shown
      BY <2>2, <2>3, <2>5 DEF DriverToPin
    <3> QED BY <1>6, <2>1, <3>1, DriversOnIn, OnlyDriver DEF IInv, Typed, Trip
  <2>6. CASE shown = {}
    BY <1>6, <2>1, <2>6, DriversOnIn, OnlyDriver DEF IInv, Typed, Trip
  <2> QED BY <2>4, <2>5, <2>6
<1>7. op.truck = truck
  OBVIOUS
<1> HIDE DEF op, found
<1> QED BY <1>2, <1>3, <1>4, <1>5, <1>6, <1>7, PlansStep

(* A trip with fields changed is a trip. *)
LEMMA AppliedIsTrip ==
  ASSUME NEW change \in Changes, NEW row \in Trip
  PROVE  Applied(change, row) \in Trip
<1>1. /\ change.vehicle \in Vehicles \cup {Null, Keep} /\ change.day \in Days \cup {Keep}
      /\ change.driver \in Drivers \cup {Null, Keep}
  BY InputsAssumption
<1> QED BY <1>1 DEF Applied, Or, Trip
LEMMA MidnightStep ==
  ASSUME IInv, Midnight
  PROVE  IInv'
<1>1. /\ today < LastDay /\ today' = today + 1 /\ job' = Outdated
      /\ UNCHANGED <<rows, trips, raced>>
  BY DEF Midnight
<1>2. today' \in Days
  BY <1>1, DaysAssumption DEF IInv, Typed, Days
<1>3. job' = [q \in Requests |-> job'[q]]
  BY <1>1 DEF Outdated
<1>4. \A q \in Requests : Decided(q, "PLAN") => trips'[job[q].op.trip] = Null
  BY <1>1 DEF IInv, TripsAsRead
<1>5. Exists' = Exists /\ OneActive(rows') /\ (~raced' => Separate(rows'))
  BY <1>1 DEF Exists, IInv
<1> QED BY <1>1, <1>2, <1>3, <1>4, <1>5, LaterStep DEF IInv, Typed

(* Steps that change one trip and no assignment. *)
LEMMA TripStep ==
  ASSUME IInv, NEW t \in Trips, NEW row \in Trip,
         trips' = [trips EXCEPT ![t] = row], UNCHANGED <<today, rows>>,
         raced' \in BOOLEAN, raced => raced',
         job' = [q \in Requests |-> job'[q]],
         \A q \in Requests : job'[q] = Outdated[q] \/ job'[q] = Idle,
         \A q \in Requests : Decided(q, "PLAN") /\ job'[q] = Outdated[q] => job[q].op.trip # t
  PROVE  IInv'
<1>1. /\ trips' \in [Trips -> Trip \cup {Null}]
      /\ \A u \in Trips : trips'[u] = IF u = t THEN row ELSE trips[u]
  BY DEF IInv, Typed
<1>2. \A u \in Trips : trips[u] # Null => trips'[u] # Null
  BY <1>1, NullIsNoRow
<1>3. \A q \in Requests : Decided(q, "PLAN") /\ job'[q] = Outdated[q] =>
        trips'[job[q].op.trip] = Null
  BY <1>1, JobTypes, KindsDiffer DEF IInv, TripsAsRead, Decided
<1>4. Exists' = Exists /\ OneActive(rows') /\ (~raced' => Separate(rows'))
  BY DEF Exists, IInv
<1> QED BY <1>1, <1>2, <1>3, <1>4, LaterStep DEF IInv, Typed

LEMMA ChooseDriverStep ==
  ASSUME IInv, NEW t \in Trips, NEW change \in Changes, ChooseDriver(t, change)
  PROVE  IInv' /\ \A q \in Requests : job'[q].phase = job[q].phase
<1>1. /\ trips[t] # Null /\ job' = Outdated /\ UNCHANGED <<today, rows, raced>>
      /\ trips' = [trips EXCEPT ![t] = Applied(change, trips[t])]
  BY DEF ChooseDriver
<1>2. Applied(change, trips[t]) \in Trip
  BY <1>1, AppliedIsTrip DEF IInv, Typed
<1>3. job' = [q \in Requests |-> job'[q]] /\ \A q \in Requests : job'[q] = Outdated[q]
  BY <1>1 DEF Outdated
<1>4. raced' \in BOOLEAN /\ (raced => raced')
  BY <1>1 DEF IInv, Typed
<1>5. \A q \in Requests : Decided(q, "PLAN") => job[q].op.trip # t
  BY <1>1 DEF IInv, TripsAsRead
<1>6. IInv'
  BY <1>1, <1>2, <1>3, <1>4, <1>5, TripStep
<1>7. \A q \in Requests : job'[q].phase = job[q].phase
  BY <1>3, OutdatedJobs DEF IInv
<1> QED BY <1>6, <1>7

LEMMA CommitPlanStep ==
  ASSUME IInv, NEW r \in Requests, CommitPlan(r)
  PROVE  IInv' /\ \A t \in Trips : trips[t] # Null => trips'[t] = trips[t]
<1> DEFINE op == job[r].op
           row == [vehicle |-> op.vehicle, day |-> op.day, driver |-> job[r].plan.driver]
<1>1. /\ Decided(r, "PLAN") /\ Commits(r) /\ UNCHANGED <<today, rows>>
      /\ trips' = [trips EXCEPT ![op.trip] = row]
  BY DEF CommitPlan
<1>2. /\ op.trip \in Trips /\ op.vehicle \in Vehicles \cup {Null} /\ op.day \in Days
      /\ job[r].plan.driver \in Drivers \cup {Null}
  BY <1>1, JobTypes, KindsDiffer DEF IInv, Decided, Planned
<1>3. row \in Trip
  BY <1>2 DEF Trip
<1> HIDE DEF op, row
<1>4. /\ job' = [q \in Requests |-> job'[q]] /\ job'[r] = Idle
      /\ \A q \in Requests : q # r => job'[q] = Outdated[q]
      /\ raced' = (raced \/ job[r].stale) /\ raced' \in BOOLEAN
  BY <1>1, CommitsJobs DEF IInv
<1>5. Outdated[r] # Idle
  BY <1>1, OutdatedJobs DEF IInv, Decided, Idle
<1>6. trips[op.trip] = Null
  BY <1>1 DEF IInv, TripsAsRead, op
<1>7. \A q \in Requests : Decided(q, "PLAN") /\ job'[q] = Outdated[q] => job[q].op.trip # op.trip
  BY <1>1, <1>4, <1>5 DEF IInv, TripsAsRead, op
<1>8. IInv'
  BY <1>1, <1>2, <1>3, <1>4, <1>7, TripStep
<1>9. \A t \in Trips : trips[t] # Null => trips'[t] = trips[t]
  BY <1>1, <1>6 DEF IInv, Typed
<1> QED BY <1>8, <1>9

(* An edit leaves a stored driver, but for a change of the trip's truck. *)
LEMMA CommitEditStep ==
  ASSUME IInv, NEW r \in Requests, CommitEdit(r)
  PROVE  /\ IInv'
         /\ \A t \in Trips : trips[t] # Null /\ trips[t].driver # Null =>
              trips'[t].driver = trips[t].driver \/ DecidesDriver(t)
         /\ ~raced' => \A t \in Trips :
              trips[t] # Null /\ trips[t].driver = Null /\ ~DecidesDriver(t) =>
                \A a \in Covering(rows, trips[t].vehicle, trips[t].day) :
                  trips'[t] = trips[t] \/ trips'[t].driver = rows[a].driver
<1> DEFINE op == job[r].op
           t == op.trip
           after == Applied(op.change, trips[t])
           driver == IF op.truck THEN job[r].plan.driver ELSE StoredAfter(after, job[r].plan.driver)
           row == [after EXCEPT !.driver = driver]
<1>1. /\ Decided(r, "EDIT") /\ Commits(r) /\ UNCHANGED <<today, rows>>
      /\ trips' = [trips EXCEPT ![t] = row]
  BY DEF CommitEdit
<1>2. /\ t \in Trips /\ op.change \in Changes /\ op.truck \in BOOLEAN
      /\ job[r].plan.driver \in Drivers \cup {Null}
  BY <1>1, JobTypes, KindsDiffer DEF IInv, Decided, Planned
<1>3. trips[t] \in Trip /\ trips[t] # Null /\ op.change.driver = Keep
  BY <1>1, <1>2 DEF IInv, Typed, TripsAsRead
<1>4. after \in Trip /\ after.driver = trips[t].driver
  BY <1>2, <1>3, AppliedIsTrip DEF Applied, Or
<1>5. driver \in Drivers \cup {Null}
  BY <1>2, <1>4 DEF StoredAfter, Trip
<1>6. /\ ~op.truck /\ trips[t].driver # Null => driver = trips[t].driver
      /\ ~op.truck /\ trips[t].driver = Null => driver = job[r].plan.driver
  BY <1>4 DEF StoredAfter
<1> HIDE DEF driver
<1>12. ASSUME ~job[r].stale, ~raced, ~op.truck, trips[t].driver = Null
       PROVE  \/ after = trips[t] /\ driver = Null
              \/ \A a \in Covering(rows, trips[t].vehicle, trips[t].day) : driver = rows[a].driver
  BY <1>1, <1>6, <1>12 DEF IInv, EditsFit, EditFits
<1> HIDE DEF after
<1>7. row \in Trip /\ row.driver = driver
  BY <1>4, <1>5 DEF Trip
<1> HIDE DEF row
<1>8. /\ job' = [q \in Requests |-> job'[q]] /\ job'[r] = Idle
      /\ \A q \in Requests : q # r => job'[q] = Outdated[q]
      /\ raced' = (raced \/ job[r].stale) /\ raced' \in BOOLEAN
  BY <1>1, CommitsJobs DEF IInv
<1>9. \A q \in Requests : Decided(q, "PLAN") => job[q].op.trip # t
  BY <1>3 DEF IInv, TripsAsRead
<1>10. IInv'
  BY <1>1, <1>2, <1>7, <1>8, <1>9, TripStep
<1>11. ASSUME NEW u \in Trips, trips[u] # Null, trips[u].driver # Null
       PROVE  trips'[u].driver = trips[u].driver \/ DecidesDriver(u)
  <2>1. CASE u # t
    BY <1>1, <2>1 DEF IInv, Typed
  <2>2. CASE u = t /\ op.truck
    BY <1>1, <1>8, <2>2 DEF DecidesDriver
  <2>3. CASE u = t /\ ~op.truck
    <3>1. trips'[t] = row
      BY <1>1, <1>2 DEF IInv, Typed
    <3> QED BY <1>6, <1>7, <1>11, <2>3, <3>1
  <2> QED BY <1>2, <2>1, <2>2, <2>3
<1>13. ASSUME ~raced', NEW u \in Trips, trips[u] # Null, trips[u].driver = Null,
              ~DecidesDriver(u), NEW a \in Covering(rows, trips[u].vehicle, trips[u].day)
       PROVE  trips'[u] = trips[u] \/ trips'[u].driver = rows[a].driver
  <2>1. CASE u # t
    BY <1>1, <2>1 DEF IInv, Typed
  <2>2. CASE u = t /\ op.truck
    BY <1>1, <1>8, <1>13, <2>2 DEF DecidesDriver
  <2>3. CASE u = t /\ ~op.truck
    <3>1. ~job[r].stale /\ ~raced
      BY <1>8, <1>13, JobTypes DEF IInv, Typed
    <3>2. trips'[t] = row
      BY <1>1, <1>2 DEF IInv, Typed
    <3>3. CASE after = trips[t] /\ driver = Null
      <4>1. row = after
        BY <1>4, <1>13, <2>3, <3>3 DEF row, Trip
      <4> QED BY <2>3, <3>2, <3>3, <4>1
    <3>4. CASE driver = rows[a].driver
      BY <1>7, <2>3, <3>2, <3>4
    <3> QED BY <1>12, <1>13, <2>3, <3>1, <3>3, <3>4
  <2> QED BY <1>2, <2>1, <2>2, <2>3
<1> QED BY <1>10, <1>11, <1>13

---------------------------------------------------------------------------
(* The invariant, and what it is for. *)

LEMMA InitInvariant == Init => IInv
<1> SUFFICES ASSUME Init PROVE IInv
  OBVIOUS
<1>1. /\ today = 1 /\ raced = FALSE
      /\ rows = [a \in Assignments |-> Null]
      /\ trips = [t \in Trips |-> Null]
      /\ job = [r \in Requests |-> Idle]
  BY DEF Init
<1>2. Idle \in Jobs /\ Idle.phase = "idle" /\ Idle.plan.writes = {}
  BY DEF Jobs, Idle, NoPlan
<1>3. Typed
  <2>1. today \in Days
    BY <1>1, DaysAssumption DEF Days
  <2>2. rows \in [Assignments -> Row \cup {Null}] /\ trips \in [Trips -> Trip \cup {Null}]
    BY <1>1
  <2>3. job \in [Requests -> Jobs] /\ raced \in BOOLEAN
    BY <1>1, <1>2
  <2> QED BY <2>1, <2>2, <2>3 DEF Typed
<1>4. WritesExist /\ PlansFit /\ EditsFit /\ TripsAsRead
  BY <1>1, <1>2 DEF WritesExist, PlansFit, EditsFit, TripsAsRead, Decided
<1>5. OneActive(rows) /\ Separate(rows)
  BY <1>1 DEF OneActive, Separate
<1> QED BY <1>3, <1>4, <1>5 DEF IInv

LEMMA StepInvariant == IInv /\ [Next]_vars => IInv'
<1> SUFFICES ASSUME IInv, [Next]_vars PROVE IInv'
  OBVIOUS
<1>1. ASSUME NEW r \in Requests, OfAssignments(r) PROVE IInv'
  BY <1>1, LinkStep, CreateStep, UpdateOrEndStep, CommitAssignmentStep, AssignmentRacedStep
     DEF OfAssignments
<1>2. ASSUME NEW r \in Requests, OfTrips(r) PROVE IInv'
  BY <1>2, PlanTripStep, EditTripStep, CommitPlanStep, CommitEditStep DEF OfTrips
<1>3. ASSUME NEW t \in Trips, NEW change \in Changes, ChooseDriver(t, change) PROVE IInv'
  BY <1>3, ChooseDriverStep
<1>4. CASE Midnight
  BY <1>4, MidnightStep
<1>5. CASE UNCHANGED vars
  <2>1. Typed' /\ WritesExist' /\ OneActive(rows)'
    BY <1>5 DEF IInv, Typed, WritesExist, Exists, vars
  <2>2. (~raced => Separate(rows) /\ PlansFit /\ EditsFit)'
    BY <1>5 DEF IInv, PlansFit, EditsFit, Decided, vars
  <2>3. TripsAsRead'
    BY <1>5 DEF IInv, TripsAsRead, Decided, vars
  <2> QED BY <2>1, <2>2, <2>3 DEF IInv
<1> QED BY <1>1, <1>2, <1>3, <1>4, <1>5 DEF Next

LEMMA Invariant == Spec => []IInv
BY InitInvariant, StepInvariant, PTL DEF Spec

(* Every variable has its type, and every plan writes rows of its type: a  *)
(* cut-off never computes a last day outside the days.                     *)
THEOREM SpecTypeOK == Spec => []TypeOK
<1>1. IInv => TypeOK
  BY JobTypes DEF IInv, Typed, TypeOK, Planned
<1> QED BY <1>1, Invariant, PTL

(***************************************************************************)
(* One assignment a day for each truck and each driver, unless a request   *)
(* committed what it had read before another's commit; and, even then, one *)
(* without an end.                                                         *)
(***************************************************************************)
THEOREM SpecNoOverlap == Spec => []NoOverlap
<1>1. IInv => NoOverlap
  <2> SUFFICES ASSUME IInv, NEW a \in Exists, NEW b \in Exists, a # b,
                      Share(rows[a], rows[b]), raced => rows[a].to = Null /\ rows[b].to = Null
               PROVE  Apart(rows[a], rows[b])
    BY DEF NoOverlap, Share, Apart
  <2>1. CASE ~raced
    BY <2>1 DEF IInv, Separate, Exists
  <2>2. CASE raced
    BY <2>2 DEF IInv, OneActive, Exists, Share
  <2> QED BY <2>1, <2>2 DEF IInv, Typed
<1> QED BY <1>1, Invariant, PTL

(* A stored driver changes with a request of its own trip only. *)
LEMMA StaysStep ==
  ASSUME IInv, [Next]_vars, NEW t \in Trips,
         trips[t] # Null, ~DecidesDriver(t), trips[t].driver # Null
  PROVE  trips'[t].driver = trips[t].driver
<1>1. ASSUME NEW r \in Requests, OfAssignments(r)
      PROVE  trips'[t].driver = trips[t].driver
  <2>1. CASE CommitAssignment(r)
    BY <2>1, CommitAssignmentStep
  <2>2. CASE ~CommitAssignment(r)
    BY <1>1, <2>2 DEF OfAssignments, Link, Create, Update, End, Redates, AssignmentRaced, ReadsOnly
  <2> QED BY <2>1, <2>2
<1>2. ASSUME NEW r \in Requests, OfTrips(r)
      PROVE  trips'[t].driver = trips[t].driver
  <2>1. CASE CommitPlan(r)
    BY <2>1, CommitPlanStep
  <2>2. CASE CommitEdit(r)
    BY <2>2, CommitEditStep
  <2>3. CASE ~CommitPlan(r) /\ ~CommitEdit(r)
    BY <1>2, <2>3 DEF OfTrips, PlanTrip, EditTrip, ReadsOnly
  <2> QED BY <2>1, <2>2, <2>3
<1>3. ASSUME NEW u \in Trips, NEW change \in Changes, ChooseDriver(u, change)
      PROVE  FALSE
  BY <1>3, ChooseDriverStep DEF DecidesDriver
<1>4. CASE Midnight \/ UNCHANGED vars
  BY <1>4 DEF Midnight, vars
<1> QED BY <1>1, <1>2, <1>3, <1>4 DEF Next

LEMMA RacedStays ==
  ASSUME IInv, [Next]_vars, raced
  PROVE  raced'
<1>1. ASSUME NEW r \in Requests, OfAssignments(r) \/ OfTrips(r) PROVE raced'
  <2>1. CASE CommitAssignment(r) \/ CommitPlan(r) \/ CommitEdit(r)
    BY <2>1 DEF CommitAssignment, CommitPlan, CommitEdit, Commits
  <2>2. CASE OfAssignments(r) /\ ~CommitAssignment(r)
    BY <2>2 DEF OfAssignments, Link, Create, Update, End, Redates, AssignmentRaced, ReadsOnly
  <2>3. CASE OfTrips(r) /\ ~CommitPlan(r) /\ ~CommitEdit(r)
    BY <2>3 DEF OfTrips, PlanTrip, EditTrip, ReadsOnly
  <2> QED BY <1>1, <2>1, <2>2, <2>3
<1>2. ASSUME NEW t \in Trips, NEW change \in Changes, ChooseDriver(t, change) PROVE raced'
  BY <1>2 DEF ChooseDriver
<1>3. CASE Midnight \/ UNCHANGED vars
  BY <1>3 DEF Midnight, vars
<1> QED BY <1>1, <1>2, <1>3 DEF Next

(* Whoever drives a trip that stores no driver is stored or drives it still. *)
LEMMA KeptStep ==
  ASSUME IInv, [Next]_vars, ~raced', NEW t \in Trips,
         trips[t] # Null, ~DecidesDriver(t), trips[t].driver = Null,
         NEW a \in Covering(rows, trips[t].vehicle, trips[t].day)
  PROVE  \/ trips'[t].driver = rows[a].driver
         \/ /\ trips'[t] = trips[t] /\ rows'[a].driver = rows[a].driver
            /\ a \in Covering(rows', trips[t].vehicle, trips[t].day)
<1> DEFINE Goal ==
      \/ trips'[t].driver = rows[a].driver
      \/ /\ trips'[t] = trips[t] /\ rows'[a].driver = rows[a].driver
         /\ a \in Covering(rows', trips[t].vehicle, trips[t].day)
<1>1. ASSUME NEW r \in Requests, OfAssignments(r) PROVE Goal
  <2>1. CASE CommitAssignment(r)
    BY <2>1, CommitKeepsDriver
  <2>2. CASE ~CommitAssignment(r)
    <3>1. trips' = trips /\ rows' = rows
      BY <1>1, <2>2 DEF OfAssignments, Link, Create, Update, End, Redates, AssignmentRaced, ReadsOnly
    <3> QED BY <3>1
  <2> QED BY <2>1, <2>2
<1>2. ASSUME NEW r \in Requests, OfTrips(r) PROVE Goal
  <2>1. rows' = rows
    BY <1>2 DEF OfTrips, PlanTrip, EditTrip, CommitPlan, CommitEdit, ReadsOnly
  <2>2. CASE CommitPlan(r)
    BY <2>1, <2>2, CommitPlanStep
  <2>3. CASE CommitEdit(r)
    BY <2>1, <2>3, CommitEditStep
  <2>4. CASE ~CommitPlan(r) /\ ~CommitEdit(r)
    BY <1>2, <2>1, <2>4 DEF OfTrips, PlanTrip, EditTrip, ReadsOnly
  <2> QED BY <2>2, <2>3, <2>4
<1>3. ASSUME NEW u \in Trips, NEW change \in Changes, ChooseDriver(u, change)
      PROVE  FALSE
  BY <1>3, ChooseDriverStep DEF DecidesDriver
<1>4. CASE Midnight \/ UNCHANGED vars
  <2>1. trips' = trips /\ rows' = rows
    BY <1>4 DEF Midnight, vars
  <2> QED BY <2>1
<1> QED BY <1>1, <1>2, <1>3, <1>4 DEF Next

(***************************************************************************)
(* The driver a trip stores is replaced by a request of its own trip only, *)
(* whatever was read before that driver was chosen.                        *)
(***************************************************************************)
THEOREM SpecChosenDriverStays == Spec => ChosenDriverStays
<1> DEFINE Stays(t) ==
      trips[t] # Null /\ ~DecidesDriver(t) /\ trips[t].driver # Null
      => trips'[t].driver = trips[t].driver
<1>1. IInv /\ [Next]_vars => [\A t \in Trips : Stays(t)]_vars
  BY StaysStep
<1>2. [][\A t \in Trips : Stays(t)]_vars => ChosenDriverStays
  BY DEF ChosenDriverStays
<1> QED BY <1>1, <1>2, Invariant, PTL DEF Spec

(***************************************************************************)
(* A trip keeps the driver it showed, whatever happens to assignments and  *)
(* to its date, unless its driver or its truck is chosen, or a request     *)
(* committed what it had read before another's commit.                     *)
(***************************************************************************)
THEOREM SpecDriverKept == Spec => DriverKept
<1> DEFINE Kept(t) ==
      ~raced' /\ trips[t] # Null /\ ~DecidesDriver(t) /\ Shown(trips[t]) # {}
      => Shown(trips[t])' = Shown(trips[t])
<1>1. ASSUME IInv, [Next]_vars, NEW t \in Trips, ~raced', trips[t] # Null,
             ~DecidesDriver(t), Shown(trips[t]) # {}
      PROVE  Shown(trips[t])' = Shown(trips[t])
  <2> DEFINE v == trips[t].vehicle
             day == trips[t].day
  <2>1. Shown(trips[t]) = IF trips[t].driver # Null THEN {trips[t].driver}
                          ELSE DriversIn(rows, v, day)
    BY DriversOnIn DEF Shown
  <2>2. Shown(trips[t])' = IF trips'[t].driver # Null THEN {trips'[t].driver}
                           ELSE DriversIn(rows', trips'[t].vehicle, trips'[t].day)
    BY DEF Shown, DriversOn, Governing, DriversIn, Covering, Exists
  <2>3. CASE trips[t].driver # Null
    BY <1>1, <2>1, <2>2, <2>3, StaysStep
  <2>4. CASE trips[t].driver = Null
    <3>1. IInv' /\ ~raced
      <4>1. raced => raced'
        BY <1>1, RacedStays
      <4> QED BY <1>1, <4>1, StepInvariant
    <3>2. /\ rows \in [Assignments -> Row \cup {Null}] /\ Separate(rows)
          /\ rows' \in [Assignments -> Row \cup {Null}] /\ Separate(rows')
          /\ day \in Days
      BY <1>1, <3>1 DEF IInv, Typed, Trip
    <3>3. PICK a \in Covering(rows, v, day) : Shown(trips[t]) = {rows[a].driver}
      BY <1>1, <2>1, <2>4, <3>2, OnlyDriver
    <3>4. rows[a].driver # Null
      BY <3>2, NullAssumption DEF Covering, Row
    <3>5. CASE trips'[t].driver = rows[a].driver
      BY <2>2, <3>3, <3>4, <3>5
    <3>6. CASE /\ trips'[t] = trips[t] /\ rows'[a].driver = rows[a].driver
               /\ a \in Covering(rows', v, day)
      BY <2>2, <2>4, <3>2, <3>3, <3>6, OnlyDriver
    <3> QED BY <1>1, <2>4, <3>5, <3>6, KeptStep
  <2> QED BY <2>3, <2>4
<1>2. IInv /\ [Next]_vars => [\A t \in Trips : Kept(t)]_vars
  BY <1>1
<1>3. [][\A t \in Trips : Kept(t)]_vars => DriverKept
  BY DEF DriverKept
<1> QED BY <1>2, <1>3, Invariant, PTL DEF Spec

(***************************************************************************)
(* An assignment whose last day has passed keeps its dates, unless a       *)
(* request committed what it had read before another's commit.             *)
(***************************************************************************)
THEOREM SpecHistoryKept == Spec => HistoryKept
<1> DEFINE Kept(a) ==
      ~raced' /\ a \in Exists /\ rows[a].to # Null /\ rows[a].to < today
      => rows'[a] = rows[a]
<1>1. IInv /\ [Next]_vars => [\A a \in Assignments : Kept(a)]_vars
  <2> SUFFICES ASSUME IInv, Next, ~raced', NEW a \in Exists, Ended(rows[a], today)
               PROVE  rows'[a] = rows[a]
    BY DEF Ended
  <2>1. ASSUME NEW r \in Requests, OfAssignments(r)
        PROVE  rows'[a] = rows[a]
    <3>1. CASE CommitAssignment(r)
      BY <3>1, CommitAssignmentStep
    <3>2. CASE ~CommitAssignment(r)
      BY <2>1, <3>2 DEF OfAssignments, Link, Create, Update, End, Redates, AssignmentRaced, ReadsOnly
    <3> QED BY <3>1, <3>2
  <2>2. ASSUME NEW r \in Requests, OfTrips(r)
        PROVE  rows' = rows
    BY <2>2 DEF OfTrips, PlanTrip, EditTrip, CommitPlan, CommitEdit, ReadsOnly
  <2>3. ASSUME NEW u \in Trips, NEW change \in Changes, ChooseDriver(u, change)
        PROVE  rows' = rows
    BY <2>3 DEF ChooseDriver
  <2>4. CASE Midnight
    BY <2>4 DEF Midnight
  <2> QED BY <2>1, <2>2, <2>3, <2>4 DEF Next
<1>2. [][\A a \in Assignments : Kept(a)]_vars => HistoryKept
  BY DEF HistoryKept
<1> QED BY <1>1, <1>2, Invariant, PTL DEF Spec
=============================================================================
