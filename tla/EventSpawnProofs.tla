--------------------------- MODULE EventSpawnProofs ---------------------------
(***************************************************************************)
(* The types of the core, for any number of supervisors, tickets and       *)
(* disturbances.                                                           *)
(***************************************************************************)
EXTENDS EventSpawn, WellFoundedInduction, TLAPS

-------------------------------------------------------------------------------
(* The operators the model is built from *)

\* Min picks a member of a set of row numbers.
LEMMA MinIn ==
    ASSUME NEW S \in SUBSET Nat, S # {}
    PROVE  Min(S) \in S
<1> DEFINE R == OpToRel(<, Nat)
<1>1. \E m \in S : \A k \in S : ~(<<k, m>> \in R)
  BY NatLessThanWellFounded, WFMin
<1>2. \A k, m \in S : <<k, m>> \in R <=> k < m
  BY DEF OpToRel
<1> HIDE DEF R
<1>3. PICK m \in S : \A k \in S : ~(<<k, m>> \in R)
  BY <1>1
<1>4. ASSUME NEW k \in S PROVE m <= k
  <2>1. ~(k < m)
    BY <1>2, <1>3
  <2>2. k \in Nat /\ m \in Nat
    OBVIOUS
  <2> QED
    BY <2>1, <2>2
<1> QED
  BY <1>4 DEF Min

\* What the poll selects are rows of the table.
LEMMA WindowRows ==
    ASSUME outbox \in Seq(EventRow)
    PROVE  Window \subseteq DOMAIN outbox /\ Window \subseteq Nat
  BY DEF Window, Unprocessed

\* An emitted row has the type of the table.
LEMMA RowType ==
    ASSUME NEW t \in Tickets, NEW channel \in Channels,
           NEW col \in Columns \cup {NoColumn}, NEW decodable \in BOOLEAN
    PROVE  Row(t, channel, col, decodable) \in EventRow
  BY DEF Row, EventRow

\* A row number names a row or nothing; marking it changes no other field.
LEMMA MarkRows ==
    ASSUME NEW rows \in Seq(EventRow), NEW e
    PROVE  LET marked == MarkEventProcessed(rows, e)
           IN  /\ marked \in Seq(EventRow)
               /\ Len(marked) = Len(rows)
               /\ \A f \in DOMAIN rows :
                     /\ marked[f].ticket = rows[f].ticket
                     /\ marked[f].channel = rows[f].channel
                     /\ marked[f].col = rows[f].col
                     /\ marked[f].processed = (rows[f].processed \/ f = e)
<1> DEFINE marked == MarkEventProcessed(rows, e)
<1>0. marked = [rows EXCEPT ![e].processed = TRUE]
  BY DEF MarkEventProcessed
<1> HIDE DEF marked
<1>1. DOMAIN marked = 1 .. Len(rows)
  BY <1>0
<1>2. marked = [f \in 1 .. Len(rows) |-> marked[f]]
  BY <1>0, <1>1
<1>3. ASSUME NEW f \in 1 .. Len(rows)
      PROVE  /\ marked[f] \in EventRow
             /\ marked[f].ticket = rows[f].ticket
             /\ marked[f].channel = rows[f].channel
             /\ marked[f].col = rows[f].col
             /\ marked[f].processed = (rows[f].processed \/ f = e)
  <2>1. rows[f] \in EventRow
    OBVIOUS
  <2>2. CASE f = e
    <3>0. e \in DOMAIN rows
      BY <2>2
    <3>1. marked[e] = [rows[e] EXCEPT !.processed = TRUE]
      BY <1>0, <3>0
    <3> QED
      BY <2>1, <2>2, <3>1 DEF EventRow
  <2>3. CASE f # e
    <3>1. marked[f] = rows[f]
      BY <1>0, <2>3
    <3> QED
      BY <2>1, <2>3, <3>1 DEF EventRow
  <2> QED
    BY <2>2, <2>3
<1> QED
  BY <1>1, <1>2, <1>3 DEF marked

\* The columns of a transition are columns, and name a channel.
LEMMA ColumnsOfTransition ==
    ASSUME NEW role, NEW col
    PROVE  LET cols == transitionColumns(role, col)
           IN  cols[1] \in Columns /\ cols[2] \in Columns /\ cols = <<cols[1], cols[2]>>
<1>1. CASE role = "qa-engineer"
  BY <1>1 DEF transitionColumns, Columns
<1>2. CASE role # "qa-engineer" /\ col = "in_dev"
  BY <1>2 DEF transitionColumns, Columns
<1>3. CASE role # "qa-engineer" /\ col # "in_dev"
  BY <1>3 DEF transitionColumns, Columns
<1> QED
  BY <1>1, <1>2, <1>3

\* A channel is routed to a role or to nobody.
LEMMA RouteType == \A channel : Route(channel) \in Roles \cup {NoRole}
  BY DEF Route, Roles, NoRole

\* A status that is set leaves a table of instances.
LEMMA StatusType ==
    ASSUME instances \in Seq(InstanceRow), NEW i, NEW status \in Statuses, SetStatus(i, status)
    PROVE  instances' \in Seq(InstanceRow)
<1>1. DOMAIN instances' = 1 .. Len(instances)
  BY DEF SetStatus
<1>2. instances' = [j \in 1 .. Len(instances) |-> instances'[j]]
  BY <1>1 DEF SetStatus
<1>3. ASSUME NEW j \in 1 .. Len(instances)
      PROVE  instances'[j] \in InstanceRow
  <2>1. instances[j] \in InstanceRow
    OBVIOUS
  <2>2. CASE j = i
    <3>1. instances'[j] = [instances[j] EXCEPT !.status = status]
      BY <2>2 DEF SetStatus
    <3> QED
      BY <2>1, <3>1 DEF InstanceRow
  <2>3. CASE j # i
    BY <2>1, <2>3 DEF SetStatus
  <2> QED
    BY <2>2, <2>3
<1> QED
  BY <1>1, <1>2, <1>3

\* A notification adds at most the new row to what a connection holds.
LEMMA NotifyType ==
    ASSUME notes \in [Supervisors -> SUBSET Nat], NEW e \in Nat, NEW channel, Notify(e, channel)
    PROVE  /\ notes' \in [Supervisors -> SUBSET Nat]
           /\ \A s \in Supervisors : notes'[s] \subseteq notes[s] \cup {e}
  BY DEF Notify

\* A handler belongs to a process.
LEMMA HandlerProcess == \A h \in Handlers : h[1] \in Supervisors
  BY DEF Handlers

\* A handler whose record is replaced, and the others.
LEMMA HandlerSet ==
    ASSUME hnd \in [Handlers -> HandlerRow], NEW h \in Handlers,
           NEW r \in HandlerRow, hnd' = [hnd EXCEPT ![h] = r]
    PROVE  /\ hnd' \in [Handlers -> HandlerRow]
           /\ hnd'[h] = r
           /\ \A g \in Handlers : g # h => hnd'[g] = hnd[g]
  OBVIOUS

\* Goto changes where a handler is and nothing else about it.
LEMMA GotoStep ==
    ASSUME hnd \in [Handlers -> HandlerRow], NEW h \in Handlers, NEW pc \in Pcs, Goto(h, pc)
    PROVE  /\ hnd' \in [Handlers -> HandlerRow]
           /\ hnd'[h].pc = pc /\ hnd'[h].ev = hnd[h].ev
           /\ hnd'[h].inst = hnd[h].inst /\ hnd'[h].exit = hnd[h].exit
           /\ hnd'[h].slot = hnd[h].slot
           /\ \A g \in Handlers : g # h => hnd'[g] = hnd[g]
<1> DEFINE r == [hnd[h] EXCEPT !.pc = pc]
<1>1. hnd[h] \in HandlerRow
  OBVIOUS
<1>2. /\ r \in HandlerRow
      /\ r.pc = pc /\ r.ev = hnd[h].ev /\ r.inst = hnd[h].inst /\ r.exit = hnd[h].exit
      /\ r.slot = hnd[h].slot
  BY <1>1 DEF HandlerRow
<1>3. hnd' = [hnd EXCEPT ![h] = r]
  BY DEF Goto
<1> HIDE DEF r
<1> QED
  BY <1>2, <1>3, HandlerSet

\* The gate lets a handler through, with a slot where the agent is known.
LEMMA GateStep ==
    ASSUME hnd \in [Handlers -> HandlerRow], NEW h \in Handlers, GatePass(h)
    PROVE  /\ hnd' \in [Handlers -> HandlerRow]
           /\ hnd'[h].pc = "screen" /\ hnd'[h].ev = hnd[h].ev
           /\ hnd'[h].inst = hnd[h].inst /\ hnd'[h].exit = hnd[h].exit
           /\ hnd'[h].slot = SlotEnforced(h[1], hnd[h].ev)
           /\ \A g \in Handlers : g # h => hnd'[g] = hnd[g]
<1> DEFINE taken == SlotEnforced(h[1], hnd[h].ev)
           r == [hnd[h] EXCEPT !.pc = "screen", !.slot = taken]
<1>1. hnd[h] \in HandlerRow /\ taken \in BOOLEAN
  BY ConstantsAssumption DEF SlotEnforced
<1>2. hnd' = [hnd EXCEPT ![h] = r]
  BY DEF GatePass
<1> HIDE DEF taken
<1>3. /\ r \in HandlerRow
      /\ r.pc = "screen" /\ r.ev = hnd[h].ev /\ r.inst = hnd[h].inst /\ r.exit = hnd[h].exit
      /\ r.slot = taken
  BY <1>1 DEF HandlerRow, Pcs
<1> HIDE DEF r
<1> QED
  BY <1>2, <1>3, HandlerSet DEF taken

\* A handler that has returned is idle; the process forgets its event.
LEMMA ReturnStep ==
    ASSUME TypeOK, NEW h \in Handlers, Return(h)
    PROVE  /\ hnd' \in [Handlers -> HandlerRow]
           /\ hnd'[h] = IdleHandler
           /\ \A g \in Handlers : g # h => hnd'[g] = hnd[g]
           /\ inFlight' \in [Supervisors -> SUBSET Nat]
           /\ slots' \in [Supervisors -> SUBSET Roles]
<1>1. IdleHandler \in HandlerRow
  BY DEF IdleHandler, HandlerRow, Pcs, Statuses
<1>2. hnd \in [Handlers -> HandlerRow] /\ hnd' = [hnd EXCEPT ![h] = IdleHandler]
  BY DEF TypeOK, Return
<1>3. inFlight' \in [Supervisors -> SUBSET Nat] /\ slots' \in [Supervisors -> SUBSET Roles]
  BY HandlerProcess DEF TypeOK, Return
<1> QED
  BY <1>1, <1>2, <1>3, HandlerSet

-------------------------------------------------------------------------------
(* The invariant behind the types: what is in flight refers to rows *)

\* Whatever a process has been told, has selected or is working on is a row of the
\* table, and what it works on is routed.
RefInv ==
    /\ \A s \in Supervisors : notes[s] \subseteq DOMAIN outbox /\ batch[s] \subseteq DOMAIN outbox
    /\ \A h \in Handlers : Busy(h) => hnd[h].ev \in DOMAIN outbox /\ RoleOf(hnd[h].ev) \in Roles

CoreInv == TypeOK /\ RefInv

\* Rows are only ever appended, and only their mark changes.
OutboxExtends ==
    /\ outbox' \in Seq(EventRow)
    /\ DOMAIN outbox \subseteq DOMAIN outbox'
    /\ \A e \in DOMAIN outbox : /\ outbox'[e].ticket = outbox[e].ticket
                                /\ outbox'[e].channel = outbox[e].channel
                                /\ outbox'[e].col = outbox[e].col

\* A busy handler goes on with its event.
HandlersKeep ==
    \A h \in Handlers : Busy(h)' => Busy(h) /\ hnd'[h].ev = hnd[h].ev

\* Steps that leave the table alone.
LEMMA OutboxSame ==
    ASSUME TypeOK, UNCHANGED outbox PROVE OutboxExtends
  BY DEF TypeOK, OutboxExtends

\* An appended row.
LEMMA OutboxAppend ==
    ASSUME NEW rows \in Seq(EventRow), NEW r \in EventRow
    PROVE  /\ Append(rows, r) \in Seq(EventRow)
           /\ Len(Append(rows, r)) = Len(rows) + 1
           /\ DOMAIN rows \subseteq DOMAIN Append(rows, r)
           /\ Len(rows) + 1 \in DOMAIN Append(rows, r)
           /\ \A e \in DOMAIN rows : Append(rows, r)[e] = rows[e]
  OBVIOUS

\* Steps that dispatch nothing keep the references.
LEMMA RefStep ==
    ASSUME CoreInv, OutboxExtends, HandlersKeep,
           \A s \in Supervisors : /\ notes'[s] \subseteq notes[s] \cup DOMAIN outbox'
                                  /\ batch'[s] \subseteq batch[s] \cup DOMAIN outbox
    PROVE  RefInv'
  BY DEF CoreInv, RefInv, OutboxExtends, HandlersKeep, RoleOf, Busy

\* A handler that moves on, or returns, leaves the others to their work.
LEMMA KeepOfGoto ==
    ASSUME NEW h \in Handlers, Busy(h),
           \A g \in Handlers : g # h => hnd'[g] = hnd[g],
           hnd'[h] = IdleHandler \/ hnd'[h].ev = hnd[h].ev
    PROVE  HandlersKeep
  BY DEF HandlersKeep, Busy, IdleHandler

\* The allowance is spent only while some is left.
LEMMA AllowanceSpent ==
    ASSUME env \in Allowance
    PROVE  /\ env.ops > 0     => [env EXCEPT !.ops = @ - 1] \in Allowance
           /\ env.crashes > 0 => [env EXCEPT !.crashes = @ - 1] \in Allowance
           /\ env.stops > 0   => [env EXCEPT !.stops = @ - 1] \in Allowance
           /\ env.drops > 0   => [env EXCEPT !.drops = @ - 1] \in Allowance
           /\ env.faults > 0  => [env EXCEPT !.faults = @ - 1] \in Allowance
           /\ env.reloads > 0 => [env EXCEPT !.reloads = @ - 1] \in Allowance
<1>1. \A n \in Nat : n > 0 => n - 1 \in Nat
  OBVIOUS
<1> QED
  BY <1>1 DEF Allowance

\* A handler that returns without having written anything keeps the invariant.
LEMMA ReturnKeeps ==
    ASSUME CoreInv, NEW h \in Handlers, Busy(h), Return(h), env' \in Allowance,
           UNCHANGED <<dbVars, procVars, loopVars>>
    PROVE  CoreInv'
<1>1. TypeOK'
  BY ReturnStep DEF CoreInv, TypeOK, dbVars, procVars, loopVars
<1>2. HandlersKeep
  BY ReturnStep, KeepOfGoto DEF CoreInv
<1>3. OutboxExtends
  BY OutboxSame DEF CoreInv, dbVars
<1> QED
  BY <1>1, <1>2, <1>3, RefStep DEF CoreInv, loopVars

\* So does one that moves on without having written anything.
LEMMA MoveKeeps ==
    ASSUME CoreInv, NEW h \in Handlers, Busy(h),
           hnd' \in [Handlers -> HandlerRow], hnd'[h].ev = hnd[h].ev,
           \A g \in Handlers : g # h => hnd'[g] = hnd[g],
           env' \in Allowance, slots' \in [Supervisors -> SUBSET Roles],
           UNCHANGED <<dbVars, procVars, loopVars, inFlight>>
    PROVE  CoreInv'
<1>1. TypeOK'
  BY DEF CoreInv, TypeOK, dbVars, procVars, loopVars
<1>2. HandlersKeep
  BY KeepOfGoto
<1>3. OutboxExtends
  BY OutboxSame DEF CoreInv, dbVars
<1> QED
  BY <1>1, <1>2, <1>3, RefStep DEF CoreInv, loopVars

\* Marking a row extends the table.
LEMMA MarkExtends ==
    ASSUME TypeOK, NEW e, outbox' = MarkEventProcessed(outbox, e)
    PROVE  OutboxExtends /\ DOMAIN outbox' = DOMAIN outbox
<1>1. outbox \in Seq(EventRow)
  BY DEF TypeOK
<1>2. /\ outbox' \in Seq(EventRow) /\ Len(outbox') = Len(outbox)
      /\ \A f \in DOMAIN outbox : /\ outbox'[f].ticket = outbox[f].ticket
                                  /\ outbox'[f].channel = outbox[f].channel
                                  /\ outbox'[f].col = outbox[f].col
  BY <1>1, MarkRows
<1>3. DOMAIN outbox' = DOMAIN outbox
  BY <1>1, <1>2
<1> QED
  BY <1>2, <1>3 DEF OutboxExtends

\* The columns a run moves its ticket between.
ColumnsOf(e) == transitionColumns(RoleOf(e), outbox[e].col)

\* The row a run's transition emits.
EmittedBy(e) == TransitionedRow(outbox[e].ticket, ColumnsOf(e)[1], ColumnsOf(e)[2])

\* The transaction of a successful run: the event is marked, one row is appended.
LEMMA SucceedOutbox ==
    ASSUME CoreInv, NEW h \in Handlers, Busy(h), Succeed(h)
    PROVE  /\ OutboxExtends
           /\ Len(outbox') = Len(outbox) + 1
           /\ DOMAIN outbox' = DOMAIN outbox \cup {Len(outbox) + 1}
           /\ outbox'[Len(outbox) + 1].processed = FALSE
           /\ \A f \in DOMAIN outbox :
                 outbox'[f].processed = (outbox[f].processed \/ f = hnd[h].ev)
<1> DEFINE e == hnd[h].ev
           r == EmittedBy(e)
           marked == MarkEventProcessed(outbox, e)
<1>1. outbox \in Seq(EventRow) /\ e \in DOMAIN outbox /\ outbox[e] \in EventRow
  BY DEF CoreInv, TypeOK, RefInv
<1>2. r \in EventRow /\ r.processed = FALSE
  <2>1. ColumnsOf(e)[1] \in Columns /\ ColumnsOf(e)[2] \in Columns
    BY ColumnsOfTransition DEF ColumnsOf
  <2>2. /\ outbox[e].ticket \in Tickets
        /\ <<ColumnsOf(e)[1], ColumnsOf(e)[2]>> \in Channels
    BY <1>1, <2>1 DEF EventRow, Channels
  <2>3. r = Row(outbox[e].ticket, <<ColumnsOf(e)[1], ColumnsOf(e)[2]>>, NoColumn, TRUE)
    BY DEF EmittedBy, TransitionedRow
  <2>4. r \in EventRow
    BY <2>2, <2>3, RowType
  <2>5. r.processed = FALSE
    BY <2>3 DEF Row
  <2> QED
    BY <2>4, <2>5
<1>3. outbox' = Append(marked, r)
  BY DEF Succeed, EmittedBy, ColumnsOf
<1>4. /\ marked \in Seq(EventRow) /\ Len(marked) = Len(outbox)
      /\ \A f \in DOMAIN outbox : /\ marked[f].ticket = outbox[f].ticket
                                  /\ marked[f].channel = outbox[f].channel
                                  /\ marked[f].col = outbox[f].col
                                  /\ marked[f].processed = (outbox[f].processed \/ f = e)
  BY <1>1, MarkRows
<1>5. DOMAIN marked = DOMAIN outbox /\ DOMAIN outbox = 1 .. Len(outbox)
  BY <1>1, <1>4
<1> HIDE DEF r, marked
<1>6. /\ outbox' \in Seq(EventRow)
      /\ Len(outbox') = Len(outbox) + 1
      /\ \A f \in DOMAIN outbox : outbox'[f] = marked[f]
      /\ outbox'[Len(outbox) + 1] = r
  BY <1>2, <1>3, <1>4, <1>5
<1>7. DOMAIN outbox' = DOMAIN outbox \cup {Len(outbox) + 1}
  BY <1>1, <1>5, <1>6
<1> QED
  BY <1>2, <1>4, <1>6, <1>7 DEF OutboxExtends

\* ... and the types of what else it writes.
LEMMA SucceedTypes ==
    ASSUME CoreInv, NEW h \in Handlers, Busy(h), Succeed(h)
    PROVE  /\ column' \in [Tickets -> Columns \cup {NoColumn}]
           /\ instances' \in Seq(InstanceRow)
           /\ history' \in Seq(TransitionRow)
           /\ notes' \in [Supervisors -> SUBSET Nat]
           /\ \A s \in Supervisors : notes'[s] \subseteq notes[s] \cup DOMAIN outbox'
<1> DEFINE e == hnd[h].ev
           cols == ColumnsOf(e)
           x == TransitionOf(e, hnd[h].inst, outbox[e].ticket, cols[1], cols[2])
<1>1. /\ outbox \in Seq(EventRow) /\ e \in DOMAIN outbox /\ outbox[e] \in EventRow
      /\ hnd[h] \in HandlerRow
  BY DEF CoreInv, TypeOK, RefInv
<1>2. /\ outbox[e].ticket \in Tickets /\ e \in Nat /\ hnd[h].inst \in Nat
      /\ Len(outbox) + 1 \in Nat
  BY <1>1 DEF EventRow, HandlerRow
<1>3. cols[1] \in Columns /\ cols[2] \in Columns
  BY ColumnsOfTransition DEF ColumnsOf
<1>4. /\ SetStatus(hnd[h].inst, "succeeded")
      /\ history' = Append(history, x)
      /\ column' = [column EXCEPT ![outbox[e].ticket] = cols[2]]
      /\ Notify(Len(outbox) + 1, cols)
  BY DEF Succeed, ColumnsOf
<1>5. x \in TransitionRow
  BY <1>2, <1>3 DEF TransitionOf, TransitionRow
<1> HIDE DEF x, cols
<1>6. instances' \in Seq(InstanceRow)
  BY <1>4, StatusType DEF CoreInv, TypeOK, Statuses
<1>7. /\ history' \in Seq(TransitionRow)
      /\ column' \in [Tickets -> Columns \cup {NoColumn}]
  BY <1>2, <1>3, <1>4, <1>5 DEF CoreInv, TypeOK
<1>8. /\ notes' \in [Supervisors -> SUBSET Nat]
      /\ \A s \in Supervisors : notes'[s] \subseteq notes[s] \cup {Len(outbox) + 1}
  BY <1>2, <1>4, NotifyType DEF CoreInv, TypeOK
<1> QED
  BY <1>6, <1>7, <1>8, SucceedOutbox

\* Billing adds what the session cost.
LEMMA BillType ==
    ASSUME spend \in Nat, Bill PROVE spend' \in Nat
  BY ConstantsAssumption DEF Bill

-------------------------------------------------------------------------------
(* One lemma per group of actions *)

\* The steps of a handler.
LEMMA HandlerKeeps ==
    ASSUME CoreInv, NEW h \in Handlers, HandlerStep(h) \/ FirePause(h)
    PROVE  CoreInv'
<1>0. /\ TypeOK /\ RefInv /\ env \in Allowance /\ slots \in [Supervisors -> SUBSET Roles]
      /\ hnd \in [Handlers -> HandlerRow] /\ h[1] \in Supervisors
  BY HandlerProcess DEF CoreInv, TypeOK
<1> USE <1>0
<1>a. ASSUME Fault(h[1]) \/ DbFault PROVE env' \in Allowance
  BY <1>a, AllowanceSpent DEF Fault, DbFault
<1>1. CASE GateDefer(h)
  BY <1>1, ReturnKeeps DEF GateDefer, Busy
<1>2. CASE ScreenDefer(h)
  BY <1>2, ReturnKeeps DEF ScreenDefer, Busy
<1>3. CASE SessionTail(h)
  BY <1>3, ReturnKeeps DEF SessionTail, Busy
<1>4. CASE InsertAbort(h)
  BY <1>4, <1>a, ReturnKeeps DEF InsertAbort, Busy
<1>5. CASE SetupFailLost(h)
  BY <1>5, <1>a, ReturnKeeps DEF SetupFailLost, Busy
<1>6. CASE WriteTerminalLost(h)
  BY <1>6, <1>a, ReturnKeeps DEF WriteTerminalLost, Busy
<1>7. CASE ScreenPass(h)
  BY <1>7, GotoStep, MoveKeeps DEF ScreenPass, Busy, Pcs
<1>8. CASE SessionStart(h)
  BY <1>8, GotoStep, MoveKeeps DEF SessionStart, Busy, Pcs
<1>9. CASE FinalizeOK(h)
  BY <1>9, GotoStep, MoveKeeps DEF FinalizeOK, Busy, Pcs
<1>10. CASE FinalizeFault(h)
  BY <1>10, <1>a, GotoStep, MoveKeeps DEF FinalizeFault, Busy, Pcs
<1>11. CASE GatePass(h)
  <2>1. Busy(h) /\ RoleOf(hnd[h].ev) \in Roles
    BY <1>11 DEF GatePass, Busy, RefInv
  <2>2. slots' \in [Supervisors -> SUBSET Roles]
    BY <1>11, <2>1 DEF GatePass
  <2>3. UNCHANGED <<dbVars, procVars, loopVars, inFlight, env>>
    BY <1>11 DEF GatePass
  <2> QED
    BY <1>11, <2>1, <2>2, <2>3, GateStep, MoveKeeps
<1>12. CASE \E exit \in Statuses : SessionEnd(h, exit)
  <2> PICK exit \in Statuses : SessionEnd(h, exit)
    BY <1>12
  <2> DEFINE r == [hnd[h] EXCEPT !.pc = "closing", !.exit = exit]
  <2>1. hnd[h] \in HandlerRow /\ hnd' = [hnd EXCEPT ![h] = r]
    BY DEF SessionEnd
  <2>2. r \in HandlerRow /\ r.ev = hnd[h].ev
    BY <2>1 DEF HandlerRow, Pcs
  <2> HIDE DEF r
  <2> QED
    BY <2>1, <2>2, HandlerSet, MoveKeeps DEF SessionEnd, Busy
<1>13. CASE InsertRunningInstance(h)
  <2> DEFINE r == [hnd[h] EXCEPT !.pc = "setup", !.inst = Len(instances) + 1]
             x == [event |-> hnd[h].ev, status |-> "running"]
  <2>1. /\ hnd[h] \in HandlerRow /\ instances \in Seq(InstanceRow)
        /\ hnd' = [hnd EXCEPT ![h] = r] /\ instances' = Append(instances, x)
    BY <1>13 DEF InsertRunningInstance, TypeOK
  <2>2. Len(instances) + 1 \in Nat
    BY <2>1
  <2>3. r \in HandlerRow /\ r.ev = hnd[h].ev
    BY <2>1, <2>2 DEF HandlerRow, Pcs
  <2>4. x \in InstanceRow
    BY <2>1 DEF HandlerRow, InstanceRow, Statuses
  <2> HIDE DEF r, x
  <2>5. instances' \in Seq(InstanceRow)
    BY <2>1, <2>4
  <2>6. /\ hnd' \in [Handlers -> HandlerRow] /\ hnd'[h].ev = hnd[h].ev
        /\ \A g \in Handlers : g # h => hnd'[g] = hnd[g]
    BY <2>1, <2>3, HandlerSet
  <2>7. TypeOK'
    BY <1>13, <2>5, <2>6 DEF InsertRunningInstance, TypeOK, procVars, loopVars
  <2>8. HandlersKeep /\ OutboxExtends
    BY <1>13, <2>6, KeepOfGoto, OutboxSame DEF InsertRunningInstance, Busy
  <2> QED
    BY <1>13, <2>7, <2>8, RefStep DEF CoreInv, InsertRunningInstance, loopVars
<1>14. CASE SetupFail(h)
  <2>1. instances' \in Seq(InstanceRow)
    BY <1>14, StatusType DEF SetupFail, TypeOK, Statuses
  <2>2. OutboxExtends
    BY <1>14, MarkExtends DEF SetupFail
  <2>3. TypeOK'
    BY <1>14, <2>1, <2>2, ReturnStep DEF SetupFail, OutboxExtends, TypeOK, procVars, loopVars
  <2>4. HandlersKeep
    BY <1>14, ReturnStep, KeepOfGoto DEF SetupFail, Busy
  <2> QED
    BY <1>14, <2>2, <2>3, <2>4, RefStep DEF CoreInv, SetupFail, loopVars
<1>15. CASE WriteTerminal(h)
  <2>0. Busy(h) /\ Return(h) /\ hnd[h].exit \in Statuses
    BY <1>15 DEF WriteTerminal, Busy, HandlerRow
  <2> DEFINE Written ==
              /\ column' \in [Tickets -> Columns \cup {NoColumn}]
              /\ instances' \in Seq(InstanceRow)
              /\ history' \in Seq(TransitionRow)
              /\ notes' \in [Supervisors -> SUBSET Nat]
              /\ \A s \in Supervisors : notes'[s] \subseteq notes[s] \cup DOMAIN outbox'
              /\ OutboxExtends
  <2>1. Written
    <3>1. CASE hnd[h].exit = "succeeded"
      <4>1. Succeed(h)
        BY <1>15, <3>1 DEF WriteTerminal
      <4> QED
        BY <2>0, <4>1, SucceedTypes, SucceedOutbox
    <3>2. CASE hnd[h].exit # "succeeded"
      <4>1. /\ SetStatus(hnd[h].inst, hnd[h].exit)
            /\ outbox' = MarkEventProcessed(outbox, hnd[h].ev)
            /\ UNCHANGED <<column, history, notes>>
        BY <1>15, <3>2 DEF WriteTerminal
      <4> QED
        BY <2>0, <4>1, StatusType, MarkExtends DEF TypeOK
    <3> QED
      BY <3>1, <3>2
  <2>2. spend' \in Nat
    BY <1>15, BillType DEF WriteTerminal, TypeOK
  <2>3. TypeOK'
    BY <1>15, <2>0, <2>1, <2>2, ReturnStep DEF WriteTerminal, OutboxExtends, TypeOK, procVars
  <2>4. HandlersKeep
    BY <2>0, ReturnStep, KeepOfGoto
  <2> QED
    BY <1>15, <2>1, <2>3, <2>4, RefStep DEF CoreInv, WriteTerminal
<1>16. CASE AddDrawer(h)
  <2>1. Goto(h, "tx") /\ Busy(h) /\ hnd[h].inst \in Nat
    BY <1>16 DEF AddDrawer, Busy, HandlerRow
  <2>2. /\ hnd' \in [Handlers -> HandlerRow] /\ hnd'[h].ev = hnd[h].ev
        /\ \A g \in Handlers : g # h => hnd'[g] = hnd[g]
    BY <2>1, GotoStep DEF Pcs
  <2>3. TypeOK'
    BY <1>16, <2>1, <2>2 DEF AddDrawer, TypeOK, procVars, loopVars
  <2>4. HandlersKeep /\ OutboxExtends
    BY <1>16, <2>1, <2>2, KeepOfGoto, OutboxSame DEF AddDrawer
  <2> QED
    BY <1>16, <2>3, <2>4, RefStep DEF CoreInv, AddDrawer, loopVars
<1>17. CASE CommitFinalize(h)
  <2>1. Goto(h, "tail") /\ Busy(h) /\ Succeed(h)
    BY <1>17 DEF CommitFinalize, Busy
  <2>2. /\ hnd' \in [Handlers -> HandlerRow] /\ hnd'[h].ev = hnd[h].ev
        /\ \A g \in Handlers : g # h => hnd'[g] = hnd[g]
    BY <2>1, GotoStep DEF Pcs
  <2>3. spend' \in Nat /\ env' \in Allowance
    BY <1>17, <1>a, BillType DEF CommitFinalize, TypeOK
  <2>4. TypeOK'
    BY <1>17, <2>1, <2>2, <2>3, SucceedTypes, SucceedOutbox
       DEF CommitFinalize, OutboxExtends, TypeOK, procVars
  <2>5. HandlersKeep
    BY <2>1, <2>2, KeepOfGoto
  <2> QED
    BY <1>17, <2>1, <2>4, <2>5, SucceedTypes, SucceedOutbox, RefStep DEF CoreInv, CommitFinalize
<1>18. CASE CommitUnknown(h)
  <2>1. Goto(h, "finfail") /\ Busy(h) /\ Succeed(h)
    BY <1>18 DEF CommitUnknown, Busy
  <2>2. /\ hnd' \in [Handlers -> HandlerRow] /\ hnd'[h].ev = hnd[h].ev
        /\ \A g \in Handlers : g # h => hnd'[g] = hnd[g]
    BY <2>1, GotoStep DEF Pcs
  <2>3. spend' \in Nat /\ env' \in Allowance
    BY <1>18, <1>a, BillType DEF CommitUnknown, TypeOK
  <2>4. TypeOK'
    BY <1>18, <2>1, <2>2, <2>3, SucceedTypes, SucceedOutbox
       DEF CommitUnknown, OutboxExtends, TypeOK, procVars
  <2>5. HandlersKeep
    BY <2>1, <2>2, KeepOfGoto
  <2> QED
    BY <1>18, <2>1, <2>4, <2>5, SucceedTypes, SucceedOutbox, RefStep DEF CoreInv, CommitUnknown
<1>19. CASE WriteFinalizeFailure(h)
  <2>1. Goto(h, "tail") /\ Busy(h)
    BY <1>19 DEF WriteFinalizeFailure, Busy
  <2>2. /\ hnd' \in [Handlers -> HandlerRow] /\ hnd'[h].ev = hnd[h].ev
        /\ \A g \in Handlers : g # h => hnd'[g] = hnd[g]
    BY <2>1, GotoStep DEF Pcs
  <2>3. instances' \in Seq(InstanceRow) /\ env' \in Allowance
    BY <1>19, <1>a, StatusType DEF WriteFinalizeFailure, TypeOK, Statuses
  <2>4. TypeOK'
    BY <1>19, <2>2, <2>3 DEF WriteFinalizeFailure, TypeOK, procVars, loopVars
  <2>5. HandlersKeep /\ OutboxExtends
    BY <1>19, <2>1, <2>2, KeepOfGoto, OutboxSame DEF WriteFinalizeFailure
  <2> QED
    BY <1>19, <2>4, <2>5, RefStep DEF CoreInv, WriteFinalizeFailure, loopVars
<1>20. CASE FirePause(h)
  <2>1. TypeOK'
    BY <1>20 DEF FirePause, TypeOK, procVars, loopVars
  <2> QED
    BY <1>20, <2>1 DEF FirePause, CoreInv, RefInv, RoleOf, Busy, loopVars
<1> QED
  BY <1>1, <1>2, <1>3, <1>4, <1>5, <1>6, <1>7, <1>8, <1>9, <1>10, <1>11,
     <1>12, <1>13, <1>14, <1>15, <1>16, <1>17, <1>18, <1>19, <1>20
     DEF HandlerStep

\* Dispatch hands a row of the table to a handler, or does nothing.
LEMMA DispatchStep ==
    ASSUME CoreInv, NEW s \in Supervisors, NEW l \in Loops, NEW e \in DOMAIN outbox,
           Dispatch(s, l, e), UNCHANGED outbox,
           \A r \in Supervisors : notes'[r] \subseteq notes[r] /\ batch'[r] \subseteq batch[r]
    PROVE  /\ hnd' \in [Handlers -> HandlerRow]
           /\ inFlight' \in [Supervisors -> SUBSET Nat]
           /\ RefInv'
<1>0. /\ hnd \in [Handlers -> HandlerRow] /\ inFlight \in [Supervisors -> SUBSET Nat]
      /\ outbox \in Seq(EventRow) /\ e \in Nat /\ <<s, l>> \in Handlers
  BY DEF CoreInv, TypeOK, Handlers
<1>1. CASE UNCHANGED <<inFlight, hnd>>
  BY <1>0, <1>1 DEF CoreInv, RefInv, Busy, RoleOf
<1>2. CASE ~(UNCHANGED <<inFlight, hnd>>)
  <2> DEFINE r == [IdleHandler EXCEPT !.pc = "gate", !.ev = e]
  <2>1. /\ Route(outbox[e].channel) # NoRole
        /\ inFlight' = [inFlight EXCEPT ![s] = @ \cup {e}]
        /\ hnd' = [hnd EXCEPT ![<<s, l>>] = r]
    BY <1>2 DEF Dispatch
  <2>2. r \in HandlerRow /\ r.ev = e
    BY <1>0 DEF IdleHandler, HandlerRow, Pcs, Statuses
  <2>3. RoleOf(e) \in Roles
    BY <2>1, RouteType DEF RoleOf
  <2> HIDE DEF r
  <2>4. /\ hnd' \in [Handlers -> HandlerRow] /\ hnd'[<<s, l>>] = r
        /\ \A g \in Handlers : g # <<s, l>> => hnd'[g] = hnd[g]
    BY <1>0, <2>1, <2>2, HandlerSet
  <2>5. inFlight' \in [Supervisors -> SUBSET Nat]
    BY <1>0, <2>1
  <2>6. ASSUME NEW h \in Handlers, Busy(h)'
        PROVE  hnd'[h].ev \in DOMAIN outbox /\ RoleOf(hnd'[h].ev) \in Roles
    <3>1. CASE h = <<s, l>>
      BY <2>2, <2>3, <2>4, <3>1
    <3>2. CASE h # <<s, l>>
      BY <2>4, <2>6, <3>2 DEF CoreInv, RefInv, Busy
    <3> QED
      BY <3>1, <3>2
  <2>7. RefInv'
    BY <2>6 DEF CoreInv, RefInv, RoleOf
  <2> QED
    BY <2>4, <2>5, <2>7
<1> QED
  BY <1>1, <1>2

\* What is left of a process that is gone.
LEMMA GoneStep ==
    ASSUME TypeOK, NEW s \in Supervisors, Gone(s)
    PROVE  /\ hnd' \in [Handlers -> HandlerRow]
           /\ \A h \in Handlers : hnd'[h] = IF h[1] = s THEN IdleHandler ELSE hnd[h]
           /\ HandlersKeep
<1>1. IdleHandler \in HandlerRow
  BY DEF IdleHandler, HandlerRow, Pcs, Statuses
<1>2. /\ hnd' \in [Handlers -> HandlerRow]
      /\ \A h \in Handlers : hnd'[h] = IF h[1] = s THEN IdleHandler ELSE hnd[h]
  BY <1>1 DEF TypeOK, Gone
<1> QED
  BY <1>2 DEF HandlersKeep, Busy, IdleHandler

\* The steps of a process and what disturbs it.
LEMMA SupervisorKeeps ==
    ASSUME CoreInv, NEW s \in Supervisors, SupervisorStep(s) \/ Disturbance(s)
    PROVE  CoreInv'
<1>0. /\ TypeOK /\ RefInv /\ env \in Allowance
      /\ Window \subseteq DOMAIN outbox /\ Window \subseteq Nat
  BY WindowRows DEF CoreInv, TypeOK
<1> USE <1>0
<1>a. ASSUME UNCHANGED <<outbox, hnd>>,
             \A r \in Supervisors : /\ notes'[r] \subseteq notes[r]
                                    /\ batch'[r] \subseteq batch[r] \cup Window
      PROVE  RefInv'
  BY <1>a DEF RefInv, Busy, RoleOf
<1>1. CASE connectAndLock(s)
  <2>1. TypeOK'
    BY <1>1 DEF connectAndLock, TypeOK, Phases, dbVars, procVars, loopVars
  <2>2. RefInv'
    BY <1>1, <1>a DEF connectAndLock, TypeOK, dbVars, procVars, loopVars
  <2> QED
    BY <2>1, <2>2 DEF CoreInv
<1>2. CASE BeginListen(s)
  <2>1. TypeOK'
    BY <1>2 DEF BeginListen, TypeOK, Phases, dbVars, procVars, loopVars
  <2>2. RefInv'
    BY <1>2, <1>a DEF BeginListen, TypeOK, dbVars, procVars, loopVars
  <2> QED
    BY <2>1, <2>2 DEF CoreInv
<1>3. CASE NoticeDrop(s)
  <2>1. TypeOK'
    BY <1>3 DEF NoticeDrop, TypeOK, Phases, dbVars, procVars, loopVars
  <2>2. RefInv'
    BY <1>3, <1>a DEF NoticeDrop, TypeOK, dbVars, procVars, loopVars
  <2> QED
    BY <2>1, <2>2 DEF CoreInv
<1>4. CASE Redial(s)
  <2>1. TypeOK'
    BY <1>4 DEF Redial, TypeOK, Phases, dbVars, procVars, loopVars
  <2>2. RefInv'
    BY <1>4, <1>a DEF Redial, TypeOK, dbVars, procVars, loopVars
  <2> QED
    BY <2>1, <2>2 DEF CoreInv
<1>5. CASE PollSelect(s)
  <2>1. TypeOK'
    BY <1>5 DEF PollSelect, TypeOK, Phases, dbVars, procVars, loopVars
  <2>2. RefInv'
    BY <1>5, <1>a DEF PollSelect, TypeOK, dbVars, procVars, loopVars
  <2> QED
    BY <2>1, <2>2 DEF CoreInv
<1>6. CASE ConnDrop(s)
  <2>1. env' \in Allowance
    BY <1>6, AllowanceSpent DEF ConnDrop
  <2>2. TypeOK'
    BY <1>6, <2>1 DEF ConnDrop, TypeOK, Phases, dbVars, procVars, loopVars
  <2>3. RefInv'
    BY <1>6, <1>a DEF ConnDrop, TypeOK, dbVars, procVars, loopVars
  <2> QED
    BY <2>2, <2>3 DEF CoreInv
<1>7. CASE Sigterm(s)
  <2>1. env' \in Allowance
    BY <1>7, AllowanceSpent DEF Sigterm
  <2>2. TypeOK'
    BY <1>7, <2>1 DEF Sigterm, TypeOK, Phases, dbVars, procVars, loopVars
  <2>3. RefInv'
    BY <1>7, <1>a DEF Sigterm, TypeOK, dbVars, procVars, loopVars
  <2> QED
    BY <2>2, <2>3 DEF CoreInv
<1>13. CASE Reload(s)
  <2> PICK active \in SUBSET Roles : CacheReload(s, active)
    BY <1>13 DEF Reload
  <2>1. env' \in Allowance
    BY AllowanceSpent DEF CacheReload
  <2>2. TypeOK'
    BY <2>1 DEF CacheReload, TypeOK, dbVars, loopVars
  <2>3. RefInv'
    BY <1>a DEF CacheReload, TypeOK, dbVars, loopVars
  <2> QED
    BY <2>2, <2>3 DEF CoreInv
<1>8. CASE RecoverStaleRunning(s)
  <2>0. instances \in Seq(InstanceRow) /\ DOMAIN instances = 1 .. Len(instances)
    BY DEF TypeOK
  <2>1. ASSUME NEW i \in 1 .. Len(instances)
        PROVE  [instances[i] EXCEPT !.status = "supervisor_restarted"] \in InstanceRow
    <3>1. instances[i] \in InstanceRow
      BY <2>0
    <3> QED
      BY <3>1 DEF InstanceRow, Statuses
  <2>2. instances' \in [1 .. Len(instances) -> InstanceRow]
    BY <1>8, <2>0, <2>1 DEF RecoverStaleRunning
  <2>3. instances' \in Seq(InstanceRow)
    BY <2>0, <2>2
  <2>4. TypeOK'
    BY <1>8, <2>3 DEF RecoverStaleRunning, TypeOK, Phases
  <2>5. RefInv'
    BY <1>8, <1>a DEF RecoverStaleRunning, TypeOK
  <2> QED
    BY <2>4, <2>5 DEF CoreInv
<1>9. CASE Exit(s)
  <2>1. Gone(s) /\ env' \in Allowance
    BY <1>9, AllowanceSpent DEF Exit
  <2>2. TypeOK'
    BY <1>9, <2>1, GoneStep DEF Exit, Gone, TypeOK, Phases, dbVars
  <2>3. OutboxExtends
    BY <1>9, OutboxSame DEF Exit, dbVars
  <2>4. HandlersKeep
    BY <2>1, GoneStep DEF CoreInv
  <2>5. \A r \in Supervisors : notes'[r] \subseteq notes[r] /\ batch'[r] \subseteq batch[r]
    BY <2>1 DEF CoreInv, Gone, TypeOK
  <2>6. RefInv'
    BY <2>3, <2>4, <2>5, RefStep
  <2> QED
    BY ONLY <2>2, <2>6 DEF CoreInv
<1>10. CASE Crash(s)
  <2>1. Gone(s) /\ env' \in Allowance
    BY <1>10, AllowanceSpent DEF Crash
  <2>2. TypeOK'
    BY <1>10, <2>1, GoneStep DEF Crash, Gone, TypeOK, Phases, dbVars
  <2>3. OutboxExtends
    BY <1>10, OutboxSame DEF Crash, dbVars
  <2>4. HandlersKeep
    BY <2>1, GoneStep DEF CoreInv
  <2>5. \A r \in Supervisors : notes'[r] \subseteq notes[r] /\ batch'[r] \subseteq batch[r]
    BY <2>1 DEF CoreInv, Gone, TypeOK
  <2>6. RefInv'
    BY <2>3, <2>4, <2>5, RefStep
  <2> QED
    BY ONLY <2>2, <2>6 DEF CoreInv
<1>11. CASE ListenOne(s)
  <2> DEFINE e == Min(notes[s])
  <2>1. e \in notes[s]
    BY <1>11, MinIn DEF ListenOne, TypeOK
  <2>2. e \in DOMAIN outbox
    BY <2>1 DEF RefInv
  <2>3. /\ Dispatch(s, "listen", e) /\ UNCHANGED <<dbVars, procVars, batch, slots, env>>
        /\ notes' = [notes EXCEPT ![s] = @ \ {e}]
    BY <1>11 DEF ListenOne
  <2> HIDE DEF e
  <2>4. \A r \in Supervisors : notes'[r] \subseteq notes[r] /\ batch'[r] \subseteq batch[r]
    BY <2>3 DEF TypeOK
  <2>5. /\ hnd' \in [Handlers -> HandlerRow]
        /\ inFlight' \in [Supervisors -> SUBSET Nat]
        /\ RefInv'
    BY <2>2, <2>3, <2>4, DispatchStep DEF Loops, dbVars
  <2>6. TypeOK'
    BY <2>3, <2>5 DEF TypeOK, dbVars, procVars
  <2> QED
    BY <2>5, <2>6 DEF CoreInv
<1>12. CASE PollOne(s)
  <2> DEFINE e == Min(batch[s])
  <2>1. e \in batch[s]
    BY <1>12, MinIn DEF PollOne, TypeOK
  <2>2. e \in DOMAIN outbox
    BY <2>1 DEF RefInv
  <2>3. /\ Dispatch(s, "poll", e) /\ UNCHANGED <<dbVars, procVars, notes, slots, env>>
        /\ batch' = [batch EXCEPT ![s] = @ \ {e}]
    BY <1>12 DEF PollOne
  <2> HIDE DEF e
  <2>4. \A r \in Supervisors : notes'[r] \subseteq notes[r] /\ batch'[r] \subseteq batch[r]
    BY <2>3 DEF TypeOK
  <2>5. /\ hnd' \in [Handlers -> HandlerRow]
        /\ inFlight' \in [Supervisors -> SUBSET Nat]
        /\ RefInv'
    BY <2>2, <2>3, <2>4, DispatchStep DEF Loops, dbVars
  <2>6. TypeOK'
    BY <2>3, <2>5 DEF TypeOK, dbVars, procVars
  <2> QED
    BY <2>5, <2>6 DEF CoreInv
<1> QED
  BY <1>1, <1>2, <1>3, <1>4, <1>5, <1>6, <1>7, <1>8, <1>9, <1>10, <1>11,
     <1>12, <1>13
     DEF SupervisorStep, Disturbance

\* A row added by a writer, and a second one.
LEMMA AppendExtends ==
    ASSUME TypeOK, NEW a \in EventRow, NEW b \in EventRow,
           outbox' = Append(outbox, a) \/ outbox' = Append(Append(outbox, a), b)
    PROVE  /\ OutboxExtends
           /\ Len(outbox) + 1 \in DOMAIN outbox'
           /\ \A e \in DOMAIN outbox : outbox'[e] = outbox[e]
<1> DEFINE rows == Append(outbox, a)
<1>0. outbox \in Seq(EventRow)
  BY DEF TypeOK
<1>1. /\ rows \in Seq(EventRow) /\ DOMAIN outbox \subseteq DOMAIN rows
      /\ Len(outbox) + 1 \in DOMAIN rows
      /\ \A e \in DOMAIN outbox : rows[e] = outbox[e]
  BY <1>0, OutboxAppend
<1> HIDE DEF rows
<1>2. CASE outbox' = rows
  BY <1>1, <1>2 DEF OutboxExtends
<1>3. CASE outbox' = Append(rows, b)
  <2>1. /\ outbox' \in Seq(EventRow) /\ DOMAIN rows \subseteq DOMAIN outbox'
        /\ \A e \in DOMAIN rows : outbox'[e] = rows[e]
    BY <1>1, <1>3, OutboxAppend
  <2> QED
    BY <1>1, <2>1 DEF OutboxExtends
<1> QED
  BY <1>2, <1>3 DEF rows

\* The dashboard, agents and connectors.
LEMMA WriterKeeps ==
    ASSUME CoreInv, Writers
    PROVE  CoreInv'
<1>0. /\ TypeOK /\ env \in Allowance /\ outbox \in Seq(EventRow) /\ Len(outbox) + 1 \in Nat
  BY DEF CoreInv, TypeOK
<1> USE <1>0
<1>1. ASSUME NEW t \in Tickets, NEW col \in {"todo", "in_dev"}, NEW dashboard \in BOOLEAN,
             CreateTicket(t, col, dashboard)
      PROVE  CoreInv'
  <2>1. /\ CreatedRow(t, col) \in EventRow
        /\ MutationRow(t, <<"mutation", "mutation">>) \in EventRow
    <3>1. /\ col \in Columns /\ <<"created", col>> \in Channels
          /\ <<"mutation", "mutation">> \in Channels
      BY DEF Columns, Channels
    <3> QED
      BY <3>1, RowType DEF CreatedRow, MutationRow
  <2>2. /\ OutboxExtends /\ Len(outbox) + 1 \in DOMAIN outbox'
    BY <1>1, <2>1, AppendExtends DEF CreateTicket
  <2>3. /\ notes' \in [Supervisors -> SUBSET Nat]
        /\ \A s \in Supervisors : notes'[s] \subseteq notes[s] \cup {Len(outbox) + 1}
    BY <1>1, NotifyType DEF CreateTicket, TypeOK
  <2>4. env' \in Allowance /\ column' \in [Tickets -> Columns \cup {NoColumn}]
    BY <1>1, AllowanceSpent DEF CreateTicket, TypeOK, Columns
  <2>5. TypeOK'
    BY <1>1, <2>2, <2>3, <2>4 DEF CreateTicket, OutboxExtends, TypeOK, procVars
  <2>6. HandlersKeep
    BY <1>1 DEF CreateTicket, HandlersKeep, Busy
  <2> QED
    BY <1>1, <2>2, <2>3, <2>5, <2>6, RefStep DEF CoreInv, CreateTicket
<1>2. ASSUME NEW t \in Tickets, NEW from \in Columns, NEW to \in Columns, moveTicket(t, from, to)
      PROVE  CoreInv'
  <2>1. TransitionedRow(t, from, to) \in EventRow /\ MutationRow(t, <<from, to>>) \in EventRow
    <3>1. <<from, to>> \in Channels
      BY DEF Channels
    <3> QED
      BY <3>1, RowType DEF TransitionedRow, MutationRow
  <2>2. /\ OutboxExtends /\ Len(outbox) + 1 \in DOMAIN outbox'
    BY <1>2, <2>1, AppendExtends DEF moveTicket
  <2>3. /\ notes' \in [Supervisors -> SUBSET Nat]
        /\ \A s \in Supervisors : notes'[s] \subseteq notes[s] \cup {Len(outbox) + 1}
    BY <1>2, NotifyType DEF moveTicket, TypeOK
  <2>4. env' \in Allowance /\ column' \in [Tickets -> Columns \cup {NoColumn}]
    BY <1>2, AllowanceSpent DEF moveTicket, TypeOK
  <2>5. history' \in Seq(TransitionRow)
    <3>1. TransitionOf(0, 0, t, from, to) \in TransitionRow
      BY DEF TransitionOf, TransitionRow
    <3> QED
      BY <1>2, <3>1 DEF moveTicket, TypeOK
  <2>6. TypeOK'
    BY <1>2, <2>2, <2>3, <2>4, <2>5 DEF moveTicket, OutboxExtends, TypeOK, procVars
  <2>7. HandlersKeep
    BY <1>2 DEF moveTicket, HandlersKeep, Busy
  <2> QED
    BY <1>2, <2>2, <2>3, <2>6, <2>7, RefStep DEF CoreInv, moveTicket
<1> QED
  BY <1>1, <1>2 DEF Writers

\* The two clocks.
LEMMA TimeKeeps ==
    ASSUME CoreInv, PauseElapses \/ SpendAges
    PROVE  CoreInv'
<1>1. CASE PauseElapses
  BY <1>1 DEF PauseElapses, CoreInv, TypeOK, RefInv, Busy, RoleOf, procVars, loopVars
<1>2. CASE SpendAges
  BY <1>2 DEF SpendAges, CoreInv, TypeOK, RefInv, Busy, RoleOf, procVars, loopVars
<1> QED
  BY <1>1, <1>2

-------------------------------------------------------------------------------
\* Nothing is in flight at first.
LEMMA CoreInvInit == Init => CoreInv
<1> SUFFICES ASSUME Init PROVE CoreInv
  OBVIOUS
<1>1. hnd \in [Handlers -> HandlerRow] /\ \A h \in Handlers : ~Busy(h)
  BY DEF Init, IdleHandler, HandlerRow, Pcs, Statuses, Busy
<1>2. outbox \in Seq(EventRow) /\ instances \in Seq(InstanceRow) /\ history \in Seq(TransitionRow)
  BY DEF Init
<1>3. env \in Allowance
  BY ConstantsAssumption DEF Init, Allowance
<1>4. TypeOK
  BY <1>1, <1>2, <1>3 DEF Init, TypeOK, Phases
<1> QED
  BY <1>1, <1>4 DEF CoreInv, RefInv, Init

\* Every step keeps the invariant.
LEMMA CoreInvStep == CoreInv /\ [Next]_vars => CoreInv'
<1> SUFFICES ASSUME CoreInv, [Next]_vars PROVE CoreInv'
  OBVIOUS
<1>1. CASE Writers
  BY <1>1, WriterKeeps
<1>2. CASE \E s \in Supervisors : SupervisorStep(s) \/ Disturbance(s)
  BY <1>2, SupervisorKeeps
<1>3. CASE \E h \in Handlers : HandlerStep(h) \/ FirePause(h)
  BY <1>3, HandlerKeeps
<1>4. CASE PauseElapses \/ SpendAges
  BY <1>4, TimeKeeps
<1>5. CASE UNCHANGED vars
  BY <1>5 DEF CoreInv, TypeOK, RefInv, Busy, RoleOf, vars, dbVars, procVars, loopVars
<1> QED
  BY <1>1, <1>2, <1>3, <1>4, <1>5 DEF Next

\* Through any mix of crashes, dropped connections, database faults and restarts,
\* whatever a dispatch loop was told, has selected or works on is a routed row of
\* event_outbox: rows are never removed, and their channel never changes.
THEOREM ReferencesHold == Spec => []CoreInv
  BY CoreInvInit, CoreInvStep, PTL DEF Spec

\* The tables and the state of every process keep their types.
THEOREM TypeCorrect == Spec => []TypeOK
<1>1. CoreInv => TypeOK
  BY DEF CoreInv
<1> QED
  BY <1>1, ReferencesHold, PTL

===============================================================================
