------------------------- MODULE EventSpawnResources -------------------------
(***************************************************************************)
(* What the runs of the core share: the department's cap, the budget, the  *)
(* agents' slots, the rows that say "running", the diary and the tickets   *)
(* that wait for each other.  The cap and the budget need one supervisor,  *)
(* as EventSpawnSafety does; the rest holds for any number, whatever they  *)
(* lose.                                                                   *)
(***************************************************************************)
EXTENDS EventSpawnSafety, FiniteSetTheorems

\* Past the cap check, the row not inserted yet.
CapPcs == {"screen", "insert"}

\* Past the budget check, the session not billed yet.
UnbilledPcs == {"insert"} \cup OpenPcs

-------------------------------------------------------------------------------
(* The inductive invariants *)

\* A session that is about to be written has an outcome, and no finalize session
\* succeeds that way.
ExitInv ==
    \A h \in Handlers :
        hnd[h].pc = "closing" => /\ hnd[h].exit # "running"
                                 /\ hnd[h].exit = "succeeded" => ~Expected(hnd[h].ev)

\* A finalize transaction has its diary; a transition names a row, or is a drag.
DiaryInv ==
    /\ \A h \in Handlers : hnd[h].pc = "tx" => hnd[h].inst \in drawers
    /\ \A i \in DOMAIN history : IF history[i].ev = 0 THEN history[i].inst = 0
                                                      ELSE history[i].ev \in DOMAIN outbox
    /\ TransitionHasDiary

\* The loops of a process that hold a slot.
Holders(s) == {l \in Loops : hnd[<<s, l>>].slot}

\* The slots are the roles of the loops that hold one, which differ; a slot is held
\* past the gate only.
SlotInv ==
    \A s \in Supervisors :
        /\ slots[s] = {RoleOf(hnd[<<s, l>>].ev) : l \in Holders(s)}
        /\ \A l, m \in Holders(s) : RoleOf(hnd[<<s, l>>].ev) = RoleOf(hnd[<<s, m>>].ev) => l = m
        /\ \A l \in Holders(s) : hnd[<<s, l>>].pc \notin {"idle", "gate"}

\* A handler that is past the gate without a slot has seen no agent there: it cannot
\* find one before another reload.
OpenInv ==
    /\ env.reloads <= MaxReloads
    /\ env.reloads = MaxReloads => \A s \in Supervisors : cache[s] = Roles
    /\ UseContainer =>
          \A h \in Handlers :
              hnd[h].pc \notin {"idle", "gate"} /\ ~hnd[h].slot =>
                 \/ env.reloads + 2 <= MaxReloads
                 \/ RoleOf(hnd[h].ev) \notin cache[h[1]] /\ ~InSession(h)

\* The ticket's predecessor is up for review, or an operator has moved it.
Waited(t, cols, moves) ==
    Predecessor[t] # NoTicket /\ (\A j \in DOMAIN moves :
                                     moves[j].ticket = Predecessor[t] => moves[j].inst # 0)
        => cols[Predecessor[t]] \in SatisfactionColumns

\* Whoever is past the dependency check has waited, and so has every run.
WaitInv ==
    /\ \A h \in Handlers : hnd[h].pc = "insert" => Waited(outbox[hnd[h].ev].ticket, column, history)
    /\ \A i \in DOMAIN instances : /\ instances[i].event \in DOMAIN outbox
                                   /\ Waited(outbox[instances[i].event].ticket, column, history)

\* Nothing was lost so far.
Unspent == env.faults = MaxFaults /\ env.drops = MaxDrops /\ env.stops = MaxStops

\* The allowances only shrink.
EnvInv == env.faults <= MaxFaults /\ env.drops <= MaxDrops /\ env.stops <= MaxStops

\* As long as nothing was lost, the process that is up holds the lock and its
\* connection, and its open handlers own the rows that say "running".
Owned ==
    /\ \A s \in Supervisors : phase[s] # "down" => lock = s /\ connUp[s] /\ ~cancelled[s]
    /\ \A h \in Handlers : hnd[h].pc # "finfail"
    /\ \A s \in Supervisors, i \in Running :
          phase[s] \in {"drain", "listening"} =>
             \E l \in Loops : hnd[<<s, l>>].pc \in OpenPcs /\ hnd[<<s, l>>].inst = i

OwnInv ==
    /\ EnvInv
    /\ \A h \in Handlers : Busy(h) => phase[h[1]] # "down"
    /\ Unspent => Owned

\* A check that reserves nothing: n + est was within the limit when each handler of C
\* passed it, and each of the others has taken at most step since.  There are two
\* handlers at most.
Room(n, limit, est, step, C) ==
    /\ n > 0 => limit # 0 /\ n + est <= limit + step + step
    /\ \A h \in C : limit # 0 /\ n + est <= limit + step
    /\ \A g, h \in C : g # h => n + est <= limit

\* The handlers that are past a check.
At(pcs) == {h \in Handlers : hnd[h].pc \in pcs}

CapInv == Room(Cardinality(Running), Cap, 1, 1, At(CapPcs))

BudgetInv == HasBudget => Room(spend, Budget, Estimate, SessionCost, At(UnbilledPcs))

-------------------------------------------------------------------------------
(* What a step does to a handler, and what it writes *)

\* Where a handler can get in one step, unless it returns.
Moves ==
    {<<"gate", "screen">>, <<"screen", "insert">>, <<"insert", "setup">>,
     <<"setup", "running">>, <<"running", "closing">>, <<"running", "palace">>,
     <<"palace", "tx">>, <<"palace", "finfail">>, <<"tx", "finfail">>,
     <<"tx", "tail">>, <<"finfail", "tail">>}

\* One handler stays, returns or moves on with its event; it changes its instance
\* only in the insert.
PcStep(h) ==
    /\ \A g \in Handlers : g # h => hnd'[g] = hnd[g]
    /\ \/ hnd'[h] = hnd[h]
       \/ hnd'[h] = IdleHandler
       \/ /\ hnd'[h].ev = hnd[h].ev
          /\ <<hnd[h].pc, hnd'[h].pc>> \in Moves
          /\ hnd[h].pc # "insert" => hnd'[h].inst = hnd[h].inst

\* The five things a handler's step can do to the tables.
Silent == UNCHANGED <<column, instances, history, drawers, spend>>

Inserts(h) ==
    /\ hnd[h].pc = "insert" /\ hnd'[h].pc = "setup" /\ hnd'[h].inst = Len(instances) + 1
    /\ instances' = Append(instances, [event |-> hnd[h].ev, status |-> "running"])
    /\ UNCHANGED <<column, history, drawers, spend>>

Diarises(h) ==
    /\ hnd[h].pc = "palace"
    /\ drawers' = drawers \cup {hnd[h].inst}
    /\ UNCHANGED <<column, instances, history, spend>>

Fails(h) ==
    /\ hnd[h].pc \in {"setup", "closing", "finfail"} /\ hnd'[h].pc \in {"idle", "tail"}
    /\ \E status \in {"failed", hnd[h].exit} :
          /\ status = "failed" \/ hnd[h].pc = "closing"
          /\ SetStatus(hnd[h].inst, status)
    /\ IF hnd[h].pc = "closing" THEN Bill ELSE UNCHANGED spend
    /\ UNCHANGED <<column, history, drawers>>

Succeeds(h) ==
    /\ hnd[h].pc = "tx" \/ (hnd[h].pc = "closing" /\ hnd[h].exit = "succeeded")
    /\ hnd'[h].pc \in {"idle", "tail", "finfail"}
    /\ Succeed(h) /\ Bill
    /\ UNCHANGED drawers

\* Every step of a handler is one of them.
LEMMA HandlerShape ==
    ASSUME CoreInv, NEW h \in Handlers, HandlerStep(h) \/ FirePause(h)
    PROVE  /\ PcStep(h) /\ Busy(h) /\ OutboxExtends /\ UNCHANGED procVars
           /\ UNCHANGED env \/ DbFault
           /\ Silent \/ Inserts(h) \/ Diarises(h) \/ Fails(h) \/ Succeeds(h)
<1>0. /\ TypeOK /\ env \in Allowance /\ hnd \in [Handlers -> HandlerRow]
      /\ hnd[h] \in HandlerRow /\ IdleHandler.pc = "idle"
  BY DEF CoreInv, TypeOK, IdleHandler
<1> USE <1>0
<1>a. ASSUME Return(h) PROVE PcStep(h) /\ hnd'[h].pc = "idle"
  BY <1>a, ReturnStep DEF PcStep
<1>b. ASSUME NEW pc \in Pcs, Goto(h, pc), <<hnd[h].pc, pc>> \in Moves
      PROVE  PcStep(h) /\ hnd'[h].pc = pc /\ hnd'[h].inst = hnd[h].inst
  BY <1>b, GotoStep DEF PcStep
<1>c. UNCHANGED outbox => OutboxExtends
  BY OutboxSame
<1>d. UNCHANGED dbVars => Silent
  BY DEF dbVars, Silent
<1>1. CASE GateDefer(h)
  BY <1>1, <1>a, <1>c, <1>d DEF GateDefer, Busy, dbVars
<1>2. CASE ScreenDefer(h)
  BY <1>2, <1>a, <1>c, <1>d DEF ScreenDefer, Busy, dbVars
<1>3. CASE SessionTail(h)
  BY <1>3, <1>a, <1>c, <1>d DEF SessionTail, Busy, dbVars
<1>4. CASE InsertAbort(h)
  BY <1>4, <1>a, <1>c, <1>d DEF InsertAbort, Fault, Busy, dbVars
<1>5. CASE SetupFailLost(h)
  BY <1>5, <1>a, <1>c, <1>d DEF SetupFailLost, Fault, Busy, dbVars
<1>6. CASE WriteTerminalLost(h)
  BY <1>6, <1>a, <1>c, <1>d DEF WriteTerminalLost, Busy, dbVars
<1>7. CASE GatePass(h)
  <2>1. PcStep(h)
    BY <1>7, GateStep DEF GatePass, PcStep, Moves
  <2> QED
    BY <1>7, <2>1, <1>c, <1>d DEF GatePass, Busy, dbVars
<1>8. CASE ScreenPass(h)
  BY <1>8, <1>b, <1>c, <1>d DEF ScreenPass, Moves, Pcs, Busy, dbVars
<1>9. CASE SessionStart(h)
  BY <1>9, <1>b, <1>c, <1>d DEF SessionStart, Moves, Pcs, Busy, dbVars
<1>10. CASE FinalizeOK(h)
  BY <1>10, <1>b, <1>c, <1>d DEF FinalizeOK, Moves, Pcs, Busy, dbVars
<1>11. CASE FinalizeFault(h)
  BY <1>11, <1>b, <1>c, <1>d DEF FinalizeFault, Moves, Pcs, Busy, dbVars
<1>12. CASE AddDrawer(h)
  <2>1. Diarises(h)
    BY <1>12 DEF AddDrawer, Diarises
  <2> QED
    BY <1>12, <2>1, <1>b, <1>c DEF AddDrawer, Moves, Pcs, Busy
<1>13. CASE \E exit \in Statuses : SessionEnd(h, exit)
  <2> PICK exit \in Statuses : SessionEnd(h, exit)
    BY <1>13
  <2> DEFINE r == [hnd[h] EXCEPT !.pc = "closing", !.exit = exit]
  <2>1. /\ hnd' = [hnd EXCEPT ![h] = r] /\ hnd[h].pc = "running"
        /\ UNCHANGED <<dbVars, procVars, env>>
    BY DEF SessionEnd
  <2>2. r \in HandlerRow /\ r.ev = hnd[h].ev /\ r.pc = "closing" /\ r.inst = hnd[h].inst
    BY DEF HandlerRow, Pcs
  <2> HIDE DEF r
  <2>3. PcStep(h)
    BY <2>1, <2>2, HandlerSet DEF PcStep, Moves
  <2> QED
    BY <2>1, <2>3, <1>c, <1>d DEF Busy, dbVars
<1>14. CASE InsertRunningInstance(h)
  <2> DEFINE r == [hnd[h] EXCEPT !.pc = "setup", !.inst = Len(instances) + 1]
  <2>1. /\ hnd' = [hnd EXCEPT ![h] = r] /\ hnd[h].pc = "insert" /\ instances \in Seq(InstanceRow)
        /\ UNCHANGED <<outbox, procVars, env>>
    BY <1>14 DEF InsertRunningInstance, TypeOK
  <2>2. Len(instances) + 1 \in Nat
    BY <2>1
  <2>3. /\ r \in HandlerRow /\ r.ev = hnd[h].ev /\ r.pc = "setup"
        /\ r.inst = Len(instances) + 1
    BY <2>2 DEF HandlerRow, Pcs
  <2> HIDE DEF r
  <2>4. PcStep(h) /\ hnd'[h] = r
    BY <2>1, <2>3, HandlerSet DEF PcStep, Moves
  <2>5. Inserts(h)
    BY <1>14, <2>3, <2>4 DEF InsertRunningInstance, Inserts
  <2> QED
    BY <2>1, <2>4, <2>5, <1>c DEF Busy
<1>15. CASE SetupFail(h)
  <2>1. PcStep(h) /\ hnd'[h].pc = "idle"
    BY <1>15, <1>a DEF SetupFail
  <2>2. Fails(h)
    BY <1>15, <2>1 DEF SetupFail, Fails
  <2>3. OutboxExtends
    BY <1>15, MarkExtends DEF SetupFail
  <2> QED
    BY <1>15, <2>1, <2>2, <2>3 DEF SetupFail, Busy
<1>16. CASE WriteTerminal(h)
  <2>1. PcStep(h) /\ hnd'[h].pc = "idle" /\ Busy(h)
    BY <1>16, <1>a DEF WriteTerminal, Busy
  <2>2. CASE hnd[h].exit = "succeeded"
    <3>1. Succeeds(h)
      BY <1>16, <2>1, <2>2 DEF WriteTerminal, Succeeds
    <3>2. OutboxExtends
      BY <2>1, <3>1, SucceedOutbox DEF Succeeds
    <3> QED
      BY <1>16, <2>1, <3>1, <3>2 DEF WriteTerminal
  <2>3. CASE hnd[h].exit # "succeeded"
    <3>1. Fails(h)
      BY <1>16, <2>1, <2>3 DEF WriteTerminal, Fails
    <3>2. OutboxExtends
      BY <1>16, <2>3, MarkExtends DEF WriteTerminal
    <3> QED
      BY <1>16, <2>1, <3>1, <3>2 DEF WriteTerminal
  <2> QED
    BY <2>2, <2>3
<1>17. CASE CommitFinalize(h)
  <2>1. PcStep(h) /\ hnd'[h].pc = "tail" /\ Busy(h)
    BY <1>17, <1>b DEF CommitFinalize, Moves, Pcs, Busy
  <2>2. Succeeds(h)
    BY <1>17, <2>1 DEF CommitFinalize, Succeeds
  <2>3. OutboxExtends
    BY <2>1, <2>2, SucceedOutbox DEF Succeeds
  <2> QED
    BY <1>17, <2>1, <2>2, <2>3 DEF CommitFinalize
<1>18. CASE CommitUnknown(h)
  <2>1. PcStep(h) /\ hnd'[h].pc = "finfail" /\ Busy(h)
    BY <1>18, <1>b DEF CommitUnknown, Moves, Pcs, Busy
  <2>2. Succeeds(h)
    BY <1>18, <2>1 DEF CommitUnknown, Succeeds
  <2>3. OutboxExtends
    BY <2>1, <2>2, SucceedOutbox DEF Succeeds
  <2> QED
    BY <1>18, <2>1, <2>2, <2>3 DEF CommitUnknown
<1>19. CASE WriteFinalizeFailure(h)
  <2>1. PcStep(h) /\ hnd'[h].pc = "tail" /\ Busy(h) /\ hnd[h].pc = "finfail"
    BY <1>19, <1>b DEF WriteFinalizeFailure, Moves, Pcs, Busy
  <2>2. Silent \/ Fails(h)
    BY <1>19, <2>1 DEF WriteFinalizeFailure, Fails, Silent
  <2> QED
    BY <1>19, <2>1, <2>2, <1>c DEF WriteFinalizeFailure
<1>20. CASE FirePause(h)
  BY <1>20, <1>c DEF FirePause, PcStep, Busy, Silent
<1> QED
  BY <1>1, <1>2, <1>3, <1>4, <1>5, <1>6, <1>7, <1>8, <1>9, <1>10, <1>11,
     <1>12, <1>13, <1>14, <1>15, <1>16, <1>17, <1>18, <1>19, <1>20
     DEF HandlerStep

\* What has been looked at when a handler gets somewhere, and what it leaves behind
\* when its session is over.
Checks(h) ==
    hnd'[h].pc # hnd[h].pc =>
        /\ hnd'[h].pc = "screen"  => CheckCap
        /\ hnd'[h].pc = "insert"  => /\ ThrottleAllows
                                     /\ checkDependencySatisfied(outbox[hnd[h].ev].ticket)
        /\ hnd'[h].pc = "running" => RoleOf(hnd[h].ev) \in cache[h[1]]
        /\ hnd'[h].pc = "tx"      => hnd[h].inst \in drawers'
        /\ hnd'[h].pc = "closing" => /\ hnd'[h].exit # "running"
                                     /\ hnd'[h].exit = "succeeded" => ~Expected(hnd[h].ev)
        /\ hnd'[h].pc = "finfail" => DbFault
        /\ hnd[h].pc \in OpenPcs /\ hnd'[h].pc \notin OpenPcs =>
              DbFault \/ cancelled[h[1]] \/ Fails(h) \/ Succeeds(h)

\* A slot is taken at the gate, where it is enforced and free, ...
TakesSlot(h) ==
    /\ hnd[h].pc = "gate" /\ hnd'[h].pc = "screen" /\ acquireAgentSlot(h[1], hnd[h].ev)
    /\ hnd'[h].slot = SlotEnforced(h[1], hnd[h].ev)
    /\ slots' = [slots EXCEPT ![h[1]] = @ \cup (IF hnd'[h].slot THEN {RoleOf(hnd[h].ev)} ELSE {})]

\* ... given back on return, ...
GivesSlot(h) ==
    /\ hnd'[h] = IdleHandler
    /\ slots' = [slots EXCEPT ![h[1]] = @ \ HeldSlot(h)]

\* ... and kept in between.
KeepsSlot(h) ==
    /\ \/ hnd'[h] = hnd[h]
       \/ hnd[h].pc \notin {"idle", "gate"} /\ hnd'[h].pc \notin {"idle", "gate"}
    /\ hnd'[h].slot = hnd[h].slot
    /\ UNCHANGED slots

SlotStep(h) == TakesSlot(h) \/ GivesSlot(h) \/ KeepsSlot(h)

\* No step gets past a check that it has not made.
LEMMA HandlerChecks ==
    ASSUME CoreInv, NEW h \in Handlers, HandlerStep(h) \/ FirePause(h)
    PROVE  Checks(h) /\ SlotStep(h)
<1>0. /\ TypeOK /\ hnd \in [Handlers -> HandlerRow] /\ hnd[h] \in HandlerRow
      /\ IdleHandler.pc = "idle"
  BY DEF CoreInv, TypeOK, IdleHandler
<1> USE <1>0
<1>a. ASSUME Return(h), Busy(h),
             hnd[h].pc \in OpenPcs => DbFault \/ cancelled[h[1]] \/ Fails(h) \/ Succeeds(h)
      PROVE  Checks(h) /\ SlotStep(h)
  <2>1. hnd'[h] = IdleHandler /\ slots' = [slots EXCEPT ![h[1]] = @ \ HeldSlot(h)]
    BY <1>a, ReturnStep DEF Return
  <2> QED
    BY <1>a, <2>1 DEF Checks, SlotStep, GivesSlot, Busy
<1>b. ASSUME NEW pc \in Pcs, Goto(h, pc), pc \notin {"idle", "gate", "closing"},
             pc = "screen"  => CheckCap,
             pc = "insert"  => /\ ThrottleAllows
                               /\ checkDependencySatisfied(outbox[hnd[h].ev].ticket),
             pc = "running" => RoleOf(hnd[h].ev) \in cache[h[1]],
             pc = "tx"      => hnd[h].inst \in drawers',
             pc = "finfail" => DbFault,
             hnd[h].pc \in OpenPcs /\ pc \notin OpenPcs =>
                DbFault \/ cancelled[h[1]] \/ Fails(h) \/ Succeeds(h)
      PROVE  Checks(h) /\ hnd'[h].pc = pc /\ hnd'[h].slot = hnd[h].slot
  BY <1>b, GotoStep DEF Checks
<1>c. ASSUME hnd[h].pc \notin {"idle", "gate"}, hnd'[h].pc \notin {"idle", "gate"},
             hnd'[h].slot = hnd[h].slot, UNCHANGED slots
      PROVE  SlotStep(h)
  BY <1>c DEF SlotStep, KeepsSlot
<1>1. CASE GateDefer(h)
  BY <1>1, <1>a DEF GateDefer, Busy, OpenPcs
<1>2. CASE ScreenDefer(h)
  BY <1>2, <1>a DEF ScreenDefer, Busy, OpenPcs
<1>3. CASE SessionTail(h)
  BY <1>3, <1>a DEF SessionTail, Busy, OpenPcs
<1>4. CASE InsertAbort(h)
  BY <1>4, <1>a DEF InsertAbort, Busy, OpenPcs
<1>5. CASE SetupFailLost(h)
  BY <1>5, <1>a DEF SetupFailLost, Fault, Busy
<1>6. CASE WriteTerminalLost(h)
  BY <1>6, <1>a DEF WriteTerminalLost, Busy
<1>7. CASE GatePass(h)
  <2>1. /\ hnd[h].pc = "gate" /\ hnd'[h].pc = "screen" /\ CheckCap
        /\ acquireAgentSlot(h[1], hnd[h].ev)
        /\ hnd'[h].slot = SlotEnforced(h[1], hnd[h].ev)
    BY <1>7, GateStep DEF GatePass, GateOpen
  <2>2. slots' = [slots EXCEPT ![h[1]] =
                     @ \cup (IF SlotEnforced(h[1], hnd[h].ev) THEN {RoleOf(hnd[h].ev)} ELSE {})]
    BY <1>7 DEF GatePass
  <2>3. TakesSlot(h)
    BY <2>1, <2>2 DEF TakesSlot
  <2> QED
    BY <2>1, <2>3 DEF Checks, OpenPcs, SlotStep
<1>8. CASE ScreenPass(h)
  BY <1>8, <1>b, <1>c DEF ScreenPass, ScreenOpen, Pcs, OpenPcs
<1>9. CASE SessionStart(h)
  BY <1>9, <1>b, <1>c DEF SessionStart, Pcs, OpenPcs
<1>10. CASE FinalizeOK(h)
  BY <1>10, <1>b, <1>c DEF FinalizeOK, Pcs, OpenPcs
<1>11. CASE FinalizeFault(h)
  BY <1>11, <1>b, <1>c DEF FinalizeFault, Pcs
<1>12. CASE AddDrawer(h)
  BY <1>12, <1>b, <1>c DEF AddDrawer, Pcs, OpenPcs
<1>13. CASE \E exit \in Statuses : SessionEnd(h, exit)
  <2> PICK exit \in Statuses : SessionEnd(h, exit)
    BY <1>13
  <2> DEFINE r == [hnd[h] EXCEPT !.pc = "closing", !.exit = exit]
  <2>1. hnd' = [hnd EXCEPT ![h] = r] /\ hnd[h].pc = "running" /\ UNCHANGED slots
    BY DEF SessionEnd
  <2>2. r \in HandlerRow /\ r.pc = "closing" /\ r.exit = exit /\ r.slot = hnd[h].slot
    BY DEF HandlerRow, Pcs
  <2>3. exit # "running" /\ (exit = "succeeded" => ~Expected(hnd[h].ev))
    BY DEF SessionEnd
  <2> HIDE DEF r
  <2>4. hnd'[h] = r
    BY <2>1
  <2> QED
    BY <2>1, <2>2, <2>3, <2>4, <1>c DEF Checks, OpenPcs
<1>14. CASE InsertRunningInstance(h)
  <2> DEFINE r == [hnd[h] EXCEPT !.pc = "setup", !.inst = Len(instances) + 1]
  <2>1. hnd' = [hnd EXCEPT ![h] = r] /\ hnd[h].pc = "insert" /\ UNCHANGED slots
    BY <1>14 DEF InsertRunningInstance
  <2>2. r.pc = "setup" /\ r.slot = hnd[h].slot
    BY DEF HandlerRow
  <2> HIDE DEF r
  <2>3. hnd'[h].pc = "setup" /\ hnd'[h].slot = hnd[h].slot
    BY <2>1, <2>2
  <2> QED
    BY <2>1, <2>3, <1>c DEF Checks, OpenPcs
<1>15. CASE SetupFail(h)
  <2>1. Return(h) /\ Busy(h) /\ hnd'[h].pc = "idle"
    BY <1>15, ReturnStep DEF SetupFail, Busy
  <2>2. Fails(h)
    BY <1>15, <2>1 DEF SetupFail, Fails
  <2> QED
    BY <2>1, <2>2, <1>a
<1>16. CASE WriteTerminal(h)
  <2>1. Return(h) /\ Busy(h) /\ hnd'[h].pc = "idle"
    BY <1>16, ReturnStep DEF WriteTerminal, Busy
  <2>2. Fails(h) \/ Succeeds(h)
    BY <1>16, <2>1 DEF WriteTerminal, Fails, Succeeds
  <2> QED
    BY <2>1, <2>2, <1>a
<1>17. CASE CommitFinalize(h)
  <2>1. hnd'[h].pc = "tail"
    BY <1>17, GotoStep DEF CommitFinalize, Pcs
  <2>2. Succeeds(h)
    BY <1>17, <2>1 DEF CommitFinalize, Succeeds
  <2> QED
    BY <1>17, <2>2, <1>b, <1>c DEF CommitFinalize, Pcs
<1>18. CASE CommitUnknown(h)
  BY <1>18, <1>b, <1>c DEF CommitUnknown, Pcs
<1>19. CASE WriteFinalizeFailure(h)
  BY <1>19, <1>b, <1>c DEF WriteFinalizeFailure, Pcs, OpenPcs
<1>20. CASE FirePause(h)
  BY <1>20 DEF FirePause, Checks, SlotStep, KeepsSlot
<1> QED
  BY <1>1, <1>2, <1>3, <1>4, <1>5, <1>6, <1>7, <1>8, <1>9, <1>10, <1>11,
     <1>12, <1>13, <1>14, <1>15, <1>16, <1>17, <1>18, <1>19, <1>20
     DEF HandlerStep

\* What a process does to the handlers and to the rows of the runs.
Fresh ==
    \A h \in Handlers :
        hnd'[h] = hnd[h] \/ (hnd'[h].pc \in {"idle", "gate"} /\ ~hnd'[h].slot)

\* No row says "running" any more; the rows and their events stay.
Recovers ==
    /\ Running' = {} /\ DOMAIN instances' = DOMAIN instances
    /\ \A i \in DOMAIN instances : instances'[i].event = instances[i].event

\* Dispatch brings a handler to the gate and touches no other one.
LEMMA DispatchFresh ==
    ASSUME TypeOK, NEW s \in Supervisors, NEW l \in Loops, NEW e, Dispatch(s, l, e)
    PROVE  \A h \in Handlers :
              hnd'[h] = hnd[h] \/ (h = <<s, l>> /\ hnd'[h].pc = "gate" /\ ~hnd'[h].slot)
<1>1. CASE UNCHANGED hnd
  BY <1>1
<1>2. CASE ~(UNCHANGED hnd)
  <2> DEFINE r == [IdleHandler EXCEPT !.pc = "gate", !.ev = e]
  <2>1. hnd' = [hnd EXCEPT ![<<s, l>>] = r] /\ hnd \in [Handlers -> HandlerRow]
    BY <1>2 DEF Dispatch, TypeOK
  <2>2. r.pc = "gate" /\ ~r.slot
    BY DEF IdleHandler
  <2> HIDE DEF r
  <2> QED
    BY <2>1, <2>2
<1> QED
  BY <1>1, <1>2

\* A process writes nothing but recovery's update.
LEMMA ProcessShape ==
    ASSUME CoreInv, NEW s \in Supervisors, SupervisorStep(s) \/ Disturbance(s)
    PROVE  /\ UNCHANGED <<column, outbox, history, drawers, spend>> /\ OutboxExtends /\ Fresh
           /\ UNCHANGED instances \/ (RecoverStaleRunning(s) /\ Recovers)
<1>0. TypeOK
  BY DEF CoreInv
<1> USE <1>0
<1>a. UNCHANGED hnd => Fresh
  BY DEF Fresh
<1>b. Gone(s) => Fresh
  BY GoneStep DEF Fresh, IdleHandler
<1>c. UNCHANGED outbox => OutboxExtends
  BY OutboxSame
<1>1. CASE RecoverStaleRunning(s)
  <2>0. instances \in Seq(InstanceRow) /\ DOMAIN instances = 1 .. Len(instances)
    BY DEF TypeOK
  <2>1. DOMAIN instances' = DOMAIN instances
    BY <1>1 DEF RecoverStaleRunning
  <2>2. ASSUME NEW i \in DOMAIN instances
        PROVE  instances'[i].event = instances[i].event /\ instances'[i].status # "running"
    <3>1. instances[i] \in InstanceRow
      BY <2>0
    <3>2. instances'[i] = IF instances[i].status = "running"
                          THEN [instances[i] EXCEPT !.status = "supervisor_restarted"]
                          ELSE instances[i]
      BY <1>1 DEF RecoverStaleRunning
    <3> QED
      BY <3>1, <3>2 DEF InstanceRow
  <2>3. Recovers
    BY <2>1, <2>2 DEF Recovers, Running
  <2> QED
    BY <1>1, <2>3, <1>a, <1>c DEF RecoverStaleRunning
<1>2. CASE \/ connectAndLock(s) \/ BeginListen(s) \/ NoticeDrop(s) \/ Redial(s)
           \/ PollSelect(s) \/ ConnDrop(s) \/ Sigterm(s) \/ Reload(s)
  BY <1>2, <1>a, <1>c DEF connectAndLock, BeginListen, NoticeDrop, Redial, PollSelect, ConnDrop,
                          Sigterm, Reload, CacheReload, dbVars
<1>3. CASE Exit(s) \/ Crash(s)
  BY <1>3, <1>b, <1>c DEF Exit, Crash, dbVars
<1>4. CASE ListenOne(s)
  <2>1. Dispatch(s, "listen", Min(notes[s])) /\ UNCHANGED dbVars
    BY <1>4 DEF ListenOne
  <2> QED
    BY <2>1, <1>c, DispatchFresh DEF Loops, Fresh, dbVars
<1>5. CASE PollOne(s)
  <2>1. Dispatch(s, "poll", Min(batch[s])) /\ UNCHANGED dbVars
    BY <1>5 DEF PollOne
  <2> QED
    BY <2>1, <1>c, DispatchFresh DEF Loops, Fresh, dbVars
<1> QED
  BY <1>1, <1>2, <1>3, <1>4, <1>5 DEF SupervisorStep, Disturbance

\* A writer creates a ticket, or drags one; the drag is nobody's run.
Creates ==
    /\ UNCHANGED history
    /\ \E t \in Tickets : column[t] = NoColumn /\ \A u \in Tickets : u # t => column'[u] = column[u]

Drags ==
    \E x \in TransitionRow :
        /\ x.ev = 0 /\ x.inst = 0 /\ history' = Append(history, x)
        /\ \A u \in Tickets : u # x.ticket => column'[u] = column[u]

\* A writer has nothing to do with the agents.
LEMMA WriterReloads ==
    ASSUME env \in Allowance, Writers PROVE env'.reloads = env.reloads
  BY DEF Writers, CreateTicket, moveTicket, Allowance

\* What the operator and the dashboard do to the tables, as the resource invariants see it.
LEMMA WriterShape ==
    ASSUME CoreInv, Writers
    PROVE  /\ UNCHANGED <<instances, drawers, spend, hnd, slots, procVars>> /\ OutboxExtends
           /\ env'.faults = env.faults /\ env'.drops = env.drops /\ env'.stops = env.stops
           /\ env'.reloads = env.reloads
           /\ Creates \/ Drags
<1>0. TypeOK /\ env \in Allowance /\ column \in [Tickets -> Columns \cup {NoColumn}]
  BY DEF CoreInv, TypeOK
<1> USE <1>0
<1>1. ASSUME NEW t \in Tickets, NEW col \in {"todo", "in_dev"}, NEW dashboard \in BOOLEAN,
             CreateTicket(t, col, dashboard)
      PROVE  /\ UNCHANGED <<instances, drawers, spend, hnd, slots, procVars>> /\ OutboxExtends
             /\ env'.faults = env.faults /\ env'.drops = env.drops /\ env'.stops = env.stops
             /\ Creates
  <2>1. /\ CreatedRow(t, col) \in EventRow
        /\ MutationRow(t, <<"mutation", "mutation">>) \in EventRow
    <3>1. /\ col \in Columns /\ <<"created", col>> \in Channels
          /\ <<"mutation", "mutation">> \in Channels
      BY DEF Columns, Channels
    <3> QED
      BY <3>1, RowType DEF CreatedRow, MutationRow
  <2>2. OutboxExtends
    BY <1>1, <2>1, AppendExtends DEF CreateTicket
  <2>3. env'.faults = env.faults /\ env'.drops = env.drops /\ env'.stops = env.stops
    BY <1>1 DEF CreateTicket, Allowance
  <2>4. Creates
    BY <1>1 DEF CreateTicket, Creates
  <2> QED
    BY <1>1, <2>2, <2>3, <2>4 DEF CreateTicket
<1>2. ASSUME NEW t \in Tickets, NEW from \in Columns, NEW to \in Columns, moveTicket(t, from, to)
      PROVE  /\ UNCHANGED <<instances, drawers, spend, hnd, slots, procVars>> /\ OutboxExtends
             /\ env'.faults = env.faults /\ env'.drops = env.drops /\ env'.stops = env.stops
             /\ Drags
  <2>1. TransitionedRow(t, from, to) \in EventRow /\ MutationRow(t, <<from, to>>) \in EventRow
    <3>1. <<from, to>> \in Channels
      BY DEF Channels
    <3> QED
      BY <3>1, RowType DEF TransitionedRow, MutationRow
  <2>2. OutboxExtends
    BY <1>2, <2>1, AppendExtends DEF moveTicket
  <2>3. env'.faults = env.faults /\ env'.drops = env.drops /\ env'.stops = env.stops
    BY <1>2 DEF moveTicket, Allowance
  <2> DEFINE x == TransitionOf(0, 0, t, from, to)
  <2>4. x \in TransitionRow /\ x.ev = 0 /\ x.inst = 0 /\ x.ticket = t
    BY DEF TransitionOf, TransitionRow
  <2>5. history' = Append(history, x) /\ column' = [column EXCEPT ![t] = to]
    BY <1>2 DEF moveTicket
  <2> HIDE DEF x
  <2>6. Drags
    BY <2>4, <2>5 DEF Drags
  <2> QED
    BY <1>2, <2>2, <2>3, <2>6 DEF moveTicket
<1> QED
  BY <1>1, <1>2, WriterReloads DEF Writers

\* The clocks, and the steps that change nothing.
LEMMA TimeShape ==
    ASSUME CoreInv, PauseElapses \/ SpendAges \/ UNCHANGED vars
    PROVE  /\ UNCHANGED <<column, outbox, instances, history, drawers, hnd, slots, procVars, env>>
           /\ OutboxExtends /\ spend \in Nat /\ spend' \in Nat /\ spend' <= spend
<1>1. spend \in Nat /\ TypeOK
  BY DEF CoreInv, TypeOK
<1>2. UNCHANGED <<column, outbox, instances, history, drawers, hnd, slots, procVars, env>>
  BY DEF PauseElapses, SpendAges, vars, dbVars
<1>3. spend' \in Nat /\ spend' <= spend
  BY <1>1 DEF PauseElapses, SpendAges, vars, dbVars
<1> QED
  BY <1>1, <1>2, <1>3, OutboxSame

\* A row appended to the transitions.
LEMMA HistoryAppend ==
    ASSUME history \in Seq(TransitionRow), NEW x \in TransitionRow, history' = Append(history, x)
    PROVE  /\ DOMAIN history' = DOMAIN history \cup {Len(history) + 1}
           /\ Len(history) + 1 \notin DOMAIN history
           /\ history'[Len(history) + 1] = x
           /\ \A i \in DOMAIN history : history'[i] = history[i]
  OBVIOUS

\* The transition of a successful run ends in a column that satisfies dependents.
LEMMA SucceedMoves ==
    ASSUME CoreInv, NEW h \in Handlers, Busy(h), Succeed(h)
    PROVE  \E x \in TransitionRow :
              /\ x.ev = hnd[h].ev /\ x.inst = hnd[h].inst /\ x.ticket = outbox[hnd[h].ev].ticket
              /\ x.ev \in DOMAIN outbox
              /\ x.to \in SatisfactionColumns
              /\ history' = Append(history, x)
              /\ column' = [column EXCEPT ![x.ticket] = x.to]
<1> DEFINE e == hnd[h].ev
           cols == ColumnsOf(e)
           x == TransitionOf(e, hnd[h].inst, outbox[e].ticket, cols[1], cols[2])
<1>1. /\ outbox \in Seq(EventRow) /\ e \in DOMAIN outbox /\ outbox[e] \in EventRow
      /\ hnd[h] \in HandlerRow
  BY DEF CoreInv, TypeOK, RefInv
<1>2. outbox[e].ticket \in Tickets /\ e \in Nat /\ hnd[h].inst \in Nat
  BY <1>1 DEF EventRow, HandlerRow
<1>3. cols[1] \in Columns /\ cols[2] \in Columns
  BY ColumnsOfTransition DEF ColumnsOf
<1>4. cols[2] \in SatisfactionColumns
  BY DEF ColumnsOf, transitionColumns, SatisfactionColumns
<1>5. /\ history' = Append(history, x)
      /\ column' = [column EXCEPT ![outbox[e].ticket] = cols[2]]
  BY DEF Succeed, ColumnsOf
<1>6. /\ x \in TransitionRow /\ x.ev = e /\ x.inst = hnd[h].inst /\ x.ticket = outbox[e].ticket
      /\ x.to = cols[2]
  BY <1>2, <1>3 DEF TransitionOf, TransitionRow
<1> HIDE DEF x, cols
<1> QED
  BY <1>1, <1>4, <1>5, <1>6

-------------------------------------------------------------------------------
(* The diary *)

\* The tables a step leaves behind, as far as the diary is concerned.
LEMMA DiaryKeeps ==
    ASSUME CoreInv, DiaryInv, OutboxExtends, drawers \subseteq drawers',
           \A h \in Handlers : hnd'[h].pc = "tx" => hnd'[h].inst \in drawers',
           \/ UNCHANGED history
           \/ \E x \in TransitionRow :
                 /\ history' = Append(history, x)
                 /\ \/ x.ev = 0 /\ x.inst = 0
                    \/ /\ x.ev \in DOMAIN outbox
                       /\ Expected(x.ev) => x.inst \in drawers'
    PROVE  DiaryInv'
<1>0. history \in Seq(TransitionRow) /\ outbox \in Seq(EventRow) /\ 0 \notin DOMAIN outbox
  BY DEF CoreInv, TypeOK
<1>1. \A e \in DOMAIN outbox : Route(outbox'[e].channel) = Route(outbox[e].channel)
                               /\ outbox'[e].col = outbox[e].col
  BY DEF OutboxExtends
<1>2. ASSUME NEW i \in DOMAIN history
      PROVE  /\ IF history[i].ev = 0 THEN history[i].inst = 0 ELSE history[i].ev \in DOMAIN outbox'
             /\ history[i].inst # 0
                /\ finalizeExpectedForRole(Route(outbox'[history[i].ev].channel),
                                           outbox'[history[i].ev].col)
                => history[i].inst \in drawers'
  <2>1. CASE history[i].ev = 0
    BY <2>1 DEF DiaryInv
  <2>2. CASE history[i].ev # 0
    <3>1. history[i].ev \in DOMAIN outbox
      BY <2>2 DEF DiaryInv
    <3>2. history[i].inst # 0 /\ Expected(history[i].ev) => history[i].inst \in drawers
      BY DEF DiaryInv, TransitionHasDiary
    <3> QED
      BY <1>1, <2>2, <3>1, <3>2 DEF Expected, RoleOf, OutboxExtends
  <2> QED
    BY <2>1, <2>2
<1>3. CASE UNCHANGED history
  BY <1>2, <1>3 DEF DiaryInv, TransitionHasDiary, Expected, RoleOf
<1>4. CASE ~(UNCHANGED history)
  <2> PICK x \in TransitionRow :
         /\ history' = Append(history, x)
         /\ \/ x.ev = 0 /\ x.inst = 0
            \/ x.ev \in DOMAIN outbox /\ (Expected(x.ev) => x.inst \in drawers')
    BY <1>4
  <2> DEFINE n == Len(history) + 1
  <2>1. /\ DOMAIN history' = DOMAIN history \cup {n}
        /\ history'[n] = x /\ \A i \in DOMAIN history : history'[i] = history[i]
    BY <1>0, HistoryAppend
  <2> HIDE DEF n
  <2>2. /\ IF x.ev = 0 THEN x.inst = 0 ELSE x.ev \in DOMAIN outbox'
        /\ x.inst # 0
           /\ finalizeExpectedForRole(Route(outbox'[x.ev].channel), outbox'[x.ev].col)
           => x.inst \in drawers'
    BY <1>0, <1>1 DEF Expected, RoleOf, OutboxExtends
  <2> QED
    BY <1>2, <2>1, <2>2 DEF DiaryInv, TransitionHasDiary, Expected, RoleOf
<1> QED
  BY <1>3, <1>4

\* What a handler in "closing" knows stays true.
LEMMA ExitKeeps ==
    ASSUME CoreInv, ExitInv, OutboxExtends,
           \A h \in Handlers :
              hnd'[h].pc = "closing" =>
                 \/ hnd'[h] = hnd[h]
                 \/ /\ Busy(h) /\ hnd'[h].ev = hnd[h].ev /\ hnd'[h].exit # "running"
                    /\ hnd'[h].exit = "succeeded" => ~Expected(hnd[h].ev)
    PROVE  ExitInv'
<1> SUFFICES ASSUME NEW h \in Handlers, hnd'[h].pc = "closing"
             PROVE  /\ hnd'[h].exit # "running"
                    /\ hnd'[h].exit = "succeeded" =>
                          ~finalizeExpectedForRole(Route(outbox'[hnd'[h].ev].channel),
                                                   outbox'[hnd'[h].ev].col)
  BY DEF ExitInv, Expected, RoleOf
<1>1. /\ Busy(h) /\ hnd'[h].ev = hnd[h].ev /\ hnd'[h].exit # "running"
      /\ hnd'[h].exit = "succeeded" => ~Expected(hnd[h].ev)
  BY DEF ExitInv, Busy
<1>2. hnd[h].ev \in DOMAIN outbox
  BY <1>1 DEF CoreInv, RefInv
<1> QED
  BY <1>1, <1>2 DEF OutboxExtends, Expected, RoleOf

\* A handler's step keeps both: it reaches "tx" over its diary, and a session that
\* succeeds without a finalize transaction was not expected to have one.
LEMMA DiaryHandler ==
    ASSUME CoreInv, ExitInv, DiaryInv, NEW h \in Handlers, HandlerStep(h) \/ FirePause(h)
    PROVE  ExitInv' /\ DiaryInv'
<1>1. /\ PcStep(h) /\ Busy(h) /\ OutboxExtends
      /\ Silent \/ Inserts(h) \/ Diarises(h) \/ Fails(h) \/ Succeeds(h)
  BY HandlerShape
<1>2. Checks(h)
  BY HandlerChecks
<1>3. drawers \subseteq drawers'
  BY <1>1 DEF Silent, Inserts, Diarises, Fails, Succeeds
<1>4. ASSUME NEW g \in Handlers, hnd'[g].pc = "tx" PROVE hnd'[g].inst \in drawers'
  <2>1. CASE hnd'[g] = hnd[g]
    BY <1>3, <1>4, <2>1 DEF DiaryInv
  <2>2. CASE hnd'[g] # hnd[g]
    <3>1. g = h /\ hnd[h].pc = "palace" /\ hnd'[h].inst = hnd[h].inst
      BY <1>1, <1>4, <2>2 DEF PcStep, Moves, IdleHandler
    <3> QED
      BY <1>2, <1>4, <3>1 DEF Checks
  <2> QED
    BY <2>1, <2>2
<1>5. ASSUME NEW g \in Handlers, hnd'[g].pc = "closing", hnd'[g] # hnd[g]
      PROVE  /\ Busy(g) /\ hnd'[g].ev = hnd[g].ev /\ hnd'[g].exit # "running"
             /\ hnd'[g].exit = "succeeded" => ~Expected(hnd[g].ev)
  <2>1. g = h /\ hnd[h].pc = "running" /\ hnd'[h].ev = hnd[h].ev
    BY <1>1, <1>5 DEF PcStep, Moves, IdleHandler
  <2> QED
    BY <1>1, <1>2, <1>5, <2>1 DEF Checks
<1>6. ExitInv'
  BY <1>1, <1>5, ExitKeeps
<1>7. CASE UNCHANGED history
  BY <1>1, <1>3, <1>4, <1>6, <1>7, DiaryKeeps
<1>8. CASE Succeeds(h)
  <2>1. Succeed(h) /\ UNCHANGED drawers
    BY <1>8 DEF Succeeds
  <2> PICK x \in TransitionRow :
         /\ x.ev = hnd[h].ev /\ x.inst = hnd[h].inst /\ x.ev \in DOMAIN outbox
         /\ history' = Append(history, x)
    BY <1>1, <2>1, SucceedMoves
  <2>2. Expected(x.ev) => x.inst \in drawers'
    <3>1. CASE hnd[h].pc = "tx"
      BY <2>1, <3>1 DEF DiaryInv
    <3>2. CASE hnd[h].pc = "closing" /\ hnd[h].exit = "succeeded"
      BY <3>2 DEF ExitInv
    <3> QED
      BY <1>8, <3>1, <3>2 DEF Succeeds
  <2> QED
    BY <1>1, <1>3, <1>4, <1>6, <2>2, DiaryKeeps
<1> QED
  BY <1>1, <1>7, <1>8 DEF Silent, Inserts, Diarises, Fails

\* The others start no transaction and write no transition of a run.
LEMMA DiaryStep ==
    CoreInv /\ ExitInv /\ DiaryInv /\ [Next]_vars => ExitInv' /\ DiaryInv'
<1> SUFFICES ASSUME CoreInv, ExitInv, DiaryInv, [Next]_vars PROVE ExitInv' /\ DiaryInv'
  OBVIOUS
<1>a. ASSUME OutboxExtends, Fresh, UNCHANGED drawers, UNCHANGED history \/ Drags
      PROVE  ExitInv' /\ DiaryInv'
  <2>1. \A h \in Handlers : hnd'[h].pc \in {"tx", "closing"} => hnd'[h] = hnd[h]
    BY <1>a DEF Fresh
  <2>2. \A h \in Handlers : hnd'[h].pc = "tx" => hnd'[h].inst \in drawers'
    BY <1>a, <2>1 DEF DiaryInv
  <2>3. ExitInv'
    BY <1>a, <2>1, ExitKeeps
  <2>4. DiaryInv'
    BY <1>a, <2>2, DiaryKeeps DEF Drags
  <2> QED
    BY <2>3, <2>4
<1>1. CASE Writers
  BY <1>1, <1>a, WriterShape DEF Fresh, Creates
<1>2. CASE \E s \in Supervisors : SupervisorStep(s) \/ Disturbance(s)
  BY <1>2, <1>a, ProcessShape
<1>3. CASE \E h \in Handlers : HandlerStep(h) \/ FirePause(h)
  BY <1>3, DiaryHandler
<1>4. CASE PauseElapses \/ SpendAges \/ UNCHANGED vars
  BY <1>4, <1>a, TimeShape DEF Fresh
<1> QED
  BY <1>1, <1>2, <1>3, <1>4 DEF Next

\* No handler and no transition yet.
LEMMA DiaryInit == Init => ExitInv /\ DiaryInv
<1> SUFFICES ASSUME Init PROVE ExitInv /\ DiaryInv
  OBVIOUS
<1>1. DOMAIN history = {} /\ \A h \in Handlers : hnd[h].pc = "idle"
  BY DEF Init, IdleHandler
<1> QED
  BY <1>1 DEF ExitInv, DiaryInv, TransitionHasDiary

\* WriteFinalize writes the diary before its transaction, and no session that is
\* expected to finalize succeeds by any other way: whatever crashes or is lost in
\* between, every transition of a finalize run has its diary in MemPalace.
THEOREM TransitionHasDiaryHolds == Spec => []TransitionHasDiary
<1>1. DiaryInv => TransitionHasDiary
  BY DEF DiaryInv
<1> QED
  BY <1>1, DiaryInit, ReferencesHold, DiaryStep, PTL DEF Spec

-------------------------------------------------------------------------------
(* The slots of the agents *)

\* The role of a handler's event, before and after any step.
LEMMA RoleStays ==
    ASSUME CoreInv, OutboxExtends, NEW h \in Handlers, Busy(h), hnd'[h].ev = hnd[h].ev
    PROVE  Route(outbox'[hnd'[h].ev].channel) = RoleOf(hnd[h].ev)
  BY DEF CoreInv, RefInv, OutboxExtends, RoleOf

\* SlotInv of the next state, for one process.
SlotsOf(s) ==
    LET holders == {l \in Loops : hnd'[<<s, l>>].slot}
        role(l) == Route(outbox'[hnd'[<<s, l>>].ev].channel)
    IN  /\ slots'[s] = {role(l) : l \in holders}
        /\ \A l, m \in holders : role(l) = role(m) => l = m
        /\ \A l \in holders : hnd'[<<s, l>>].pc \notin {"idle", "gate"}

\* Slots are kept per process.
LEMMA SlotsAll ==
    ASSUME \A s \in Supervisors : SlotsOf(s) PROVE SlotInv'
  BY DEF SlotInv, SlotsOf, Holders, RoleOf

\* The same loops hold the slots, for the same events.
LEMMA SlotsSame ==
    ASSUME CoreInv, SlotInv, OutboxExtends, NEW s \in Supervisors,
           slots'[s] = slots[s],
           \A l \in Loops :
              LET h == <<s, l>>
              IN  \/ ~hnd[h].slot /\ ~hnd'[h].slot
                  \/ /\ hnd[h].slot /\ hnd'[h].slot /\ hnd'[h].ev = hnd[h].ev
                     /\ hnd'[h].pc \notin {"idle", "gate"}
    PROVE  SlotsOf(s)
<1> DEFINE holders == {l \in Loops : hnd'[<<s, l>>].slot}
           role(l) == Route(outbox'[hnd'[<<s, l>>].ev].channel)
<1>1. holders = Holders(s)
  BY DEF Holders
<1>2. ASSUME NEW l \in Holders(s)
      PROVE  role(l) = RoleOf(hnd[<<s, l>>].ev) /\ hnd'[<<s, l>>].pc \notin {"idle", "gate"}
  <2>1. <<s, l>> \in Handlers /\ Busy(<<s, l>>) /\ hnd'[<<s, l>>].ev = hnd[<<s, l>>].ev
    BY <1>2 DEF Holders, Handlers, Busy, SlotInv
  <2>2. hnd'[<<s, l>>].pc \notin {"idle", "gate"}
    BY <1>2 DEF Holders
  <2> QED
    BY <2>1, <2>2, RoleStays
<1>3. /\ slots[s] = {RoleOf(hnd[<<s, l>>].ev) : l \in Holders(s)}
      /\ \A l, m \in Holders(s) : RoleOf(hnd[<<s, l>>].ev) = RoleOf(hnd[<<s, m>>].ev) => l = m
  BY DEF SlotInv
<1>4. \A l \in holders : hnd'[<<s, l>>].pc \notin {"idle", "gate"}
  BY <1>1, <1>2
<1> HIDE DEF holders, role
<1>5. {role(l) : l \in holders} = {RoleOf(hnd[<<s, l>>].ev) : l \in Holders(s)}
  BY <1>1, <1>2
<1>6. ASSUME NEW l \in holders, NEW m \in holders, role(l) = role(m) PROVE l = m
  <2>1. l \in Holders(s) /\ m \in Holders(s)
    BY <1>1
  <2>2. role(l) = RoleOf(hnd[<<s, l>>].ev) /\ role(m) = RoleOf(hnd[<<s, m>>].ev)
    BY <1>2, <2>1
  <2> QED
    BY <1>3, <1>6, <2>1, <2>2
<1> QED
  BY <1>3, <1>4, <1>5, <1>6 DEF SlotsOf, holders, role

\* A loop that holds a slot is past the gate.
LEMMA HolderPast ==
    ASSUME SlotInv, NEW h \in Handlers, hnd[h].slot PROVE hnd[h].pc \notin {"idle", "gate"}
<1>1. PICK r \in Supervisors, k \in Loops : h = <<r, k>>
  BY DEF Handlers
<1> QED
  BY <1>1 DEF SlotInv, Holders

\* A handler takes a free slot, gives back its own, or moves on in between.
LEMMA SlotHandler ==
    ASSUME CoreInv, SlotInv, NEW h \in Handlers, HandlerStep(h) \/ FirePause(h),
           NEW s \in Supervisors
    PROVE  SlotsOf(s)
<1>0. hnd \in [Handlers -> HandlerRow]
  BY DEF CoreInv, TypeOK
<1>1. /\ PcStep(h) /\ Busy(h) /\ OutboxExtends /\ SlotStep(h) /\ slots \in [Supervisors -> SUBSET Roles]
  BY HandlerShape, HandlerChecks DEF CoreInv, TypeOK
<1>2. PICK r \in Supervisors, k \in Loops : h = <<r, k>> /\ h[1] = r
  BY DEF Handlers
<1>3. \A l \in Loops : <<s, l>> # h => hnd'[<<s, l>>] = hnd[<<s, l>>]
  BY <1>1 DEF PcStep, Handlers
<1>3a. \A l \in Loops : /\ hnd[<<s, l>>].slot \in BOOLEAN
                        /\ hnd[<<s, l>>].slot => hnd[<<s, l>>].pc \notin {"idle", "gate"}
  <2>1. \A l \in Loops : <<s, l>> \in Handlers
    BY DEF Handlers
  <2> QED
    BY <1>0, <2>1, HolderPast DEF HandlerRow
<1>4. CASE s # r
  <2>1. \A l \in Loops : hnd'[<<s, l>>] = hnd[<<s, l>>]
    BY <1>2, <1>3, <1>4
  <2>2. slots'[s] = slots[s]
    BY <1>1, <1>2, <1>4 DEF SlotStep, TakesSlot, GivesSlot, KeepsSlot
  <2> QED
    BY <1>1, <1>3a, <2>1, <2>2, SlotsSame
<1>5. CASE s = r /\ KeepsSlot(h)
  <2>1. /\ UNCHANGED slots /\ hnd'[h].slot = hnd[h].slot
        /\ hnd'[h] = hnd[h] \/ hnd'[h].pc \notin {"idle", "gate"}
    BY <1>5 DEF KeepsSlot
  <2>2. hnd'[h] = hnd[h] \/ hnd'[h].ev = hnd[h].ev
    BY <1>1, <2>1 DEF PcStep, IdleHandler
  <2>3. \A l \in Loops :
           \/ hnd'[<<s, l>>] = hnd[<<s, l>>]
           \/ /\ hnd'[<<s, l>>].slot = hnd[<<s, l>>].slot /\ hnd'[<<s, l>>].ev = hnd[<<s, l>>].ev
              /\ hnd'[<<s, l>>].pc \notin {"idle", "gate"}
    BY <1>3, <2>1, <2>2
  <2> QED
    BY <1>1, <1>3a, <2>1, <2>3, SlotsSame
<1> DEFINE role(l) == RoleOf(hnd[<<r, l>>].ev)
           role1(l) == Route(outbox'[hnd'[<<r, l>>].ev].channel)
           holders1 == {l \in Loops : hnd'[<<r, l>>].slot}
<1>6. /\ slots[r] = {role(l) : l \in Holders(r)}
      /\ \A l, m \in Holders(r) : role(l) = role(m) => l = m
  BY DEF SlotInv
<1>7. ASSUME NEW l \in Holders(r), l # k PROVE role1(l) = role(l)
  <2>1. <<r, l>> \in Handlers /\ Busy(<<r, l>>) /\ hnd'[<<r, l>>].ev = hnd[<<r, l>>].ev
    BY <1>1, <1>2, <1>7 DEF Holders, Handlers, Busy, PcStep, SlotInv
  <2> QED
    BY <1>1, <2>1, RoleStays
<1>8. ASSUME NEW l \in Loops, l # k PROVE l \in holders1 <=> l \in Holders(r)
  BY <1>1, <1>2, <1>8 DEF PcStep, Handlers, Holders
<1>8a. ASSUME NEW l \in Loops, l # k, l \in holders1 PROVE hnd'[<<r, l>>].pc \notin {"idle", "gate"}
  <2>1. l \in Holders(r) /\ hnd'[<<r, l>>] = hnd[<<r, l>>]
    BY <1>1, <1>2, <1>8, <1>8a DEF PcStep, Handlers
  <2> QED
    BY <2>1 DEF SlotInv
<1>9. CASE s = r /\ TakesSlot(h)
  <2>0. k \notin Holders(r) /\ hnd'[h].pc = "screen"
    BY <1>2, <1>9 DEF TakesSlot, Holders, SlotInv
  <2>1. hnd'[h].ev = hnd[h].ev
    BY <1>1, <2>0 DEF PcStep, IdleHandler, Busy
  <2>2. \A l \in holders1 : hnd'[<<r, l>>].pc \notin {"idle", "gate"}
    BY <1>2, <1>8a, <2>0
  <2>3. CASE hnd'[h].slot
    <3>1. holders1 = Holders(r) \cup {k}
      BY <1>2, <1>8, <2>3 DEF Holders
    <3>2. role1(k) = role(k) /\ role(k) \notin slots[r] /\ slots'[r] = slots[r] \cup {role(k)}
      BY <1>1, <1>2, <1>9, <2>1, <2>3, RoleStays DEF TakesSlot, acquireAgentSlot
    <3> HIDE DEF role, role1, holders1
    <3>3. slots'[r] = {role1(l) : l \in holders1} /\ \A l, m \in holders1 : role1(l) = role1(m) => l = m
      BY <1>6, <1>7, <2>0, <3>1, <3>2
    <3>4. SlotsOf(r)
      BY ONLY <2>2, <3>3 DEF SlotsOf, role1, holders1
    <3> QED
      BY ONLY <1>9, <3>4
  <2>4. CASE ~hnd'[h].slot
    <3>1. holders1 = Holders(r)
      BY <1>2, <1>8, <2>0, <2>4 DEF Holders
    <3>2. slots'[r] = slots[r]
      BY <1>1, <1>2, <1>9, <2>4 DEF TakesSlot
    <3> HIDE DEF role, role1, holders1
    <3>3. slots'[r] = {role1(l) : l \in holders1} /\ \A l, m \in holders1 : role1(l) = role1(m) => l = m
      BY <1>6, <1>7, <2>0, <3>1, <3>2
    <3>4. SlotsOf(r)
      BY ONLY <2>2, <3>3 DEF SlotsOf, role1, holders1
    <3> QED
      BY ONLY <1>9, <3>4
  <2> QED
    BY <2>3, <2>4
<1>10. CASE s = r /\ GivesSlot(h)
  <2>0. ~hnd'[h].slot
    BY <1>10 DEF GivesSlot, IdleHandler
  <2>1. holders1 = Holders(r) \ {k}
    BY <1>2, <1>8, <2>0 DEF Holders
  <2>2. slots'[r] = slots[r] \ (IF k \in Holders(r) THEN {role(k)} ELSE {})
    BY <1>1, <1>2, <1>10 DEF GivesSlot, HeldSlot, Holders
  <2>3. \A l \in holders1 : hnd'[<<r, l>>].pc \notin {"idle", "gate"}
    BY <1>2, <1>8a, <2>1
  <2> HIDE DEF role, role1, holders1
  <2>4. slots'[r] = {role1(l) : l \in holders1} /\ \A l, m \in holders1 : role1(l) = role1(m) => l = m
    BY <1>6, <1>7, <2>1, <2>2
  <2>5. SlotsOf(r)
    BY ONLY <2>3, <2>4 DEF SlotsOf, role1, holders1
  <2> QED
    BY ONLY <1>10, <2>5
<1> QED
  BY <1>1, <1>4, <1>5, <1>9, <1>10 DEF SlotStep

\* A process that is gone gives back all its slots; the others start no run here.
LEMMA SlotProcess ==
    ASSUME CoreInv, SlotInv, NEW s \in Supervisors,
           SupervisorStep(s) \/ Disturbance(s), NEW r \in Supervisors
    PROVE  SlotsOf(r)
<1>0. TypeOK /\ OutboxExtends /\ slots \in [Supervisors -> SUBSET Roles]
  BY ProcessShape DEF CoreInv, TypeOK
<1>a. \A l \in Loops : /\ <<r, l>> \in Handlers
                       /\ hnd[<<r, l>>].slot \in BOOLEAN
                       /\ hnd[<<r, l>>].slot => hnd[<<r, l>>].pc \notin {"idle", "gate"}
  <2>1. \A l \in Loops : <<r, l>> \in Handlers
    BY DEF Handlers
  <2> QED
    BY <1>0, <2>1, HolderPast DEF TypeOK, HandlerRow
<1>1. CASE Gone(s)
  <2>1. \A h \in Handlers : hnd'[h] = IF h[1] = s THEN IdleHandler ELSE hnd[h]
    BY <1>0, <1>1, GoneStep
  <2>2. CASE r = s
    <3>1. slots'[r] = {}
      BY <1>0, <1>1, <2>2 DEF Gone
    <3>2. \A l \in Loops : ~hnd'[<<r, l>>].slot
      BY <2>1, <2>2 DEF Handlers, IdleHandler
    <3> QED
      BY <3>1, <3>2 DEF SlotsOf
  <2>3. CASE r # s
    <3>1. slots'[r] = slots[r]
      BY <1>0, <1>1, <2>3 DEF Gone
    <3>2. \A l \in Loops : hnd'[<<r, l>>] = hnd[<<r, l>>]
      BY <2>1, <2>3 DEF Handlers
    <3> QED
      BY <1>0, <1>a, <3>1, <3>2, SlotsSame
  <2> QED
    BY <2>2, <2>3
<1>2. CASE UNCHANGED <<slots, hnd>>
  BY <1>0, <1>a, <1>2, SlotsSame
<1>3. ASSUME NEW l \in Loops, NEW e, Idle(s, l), Dispatch(s, l, e), UNCHANGED slots
      PROVE  SlotsOf(r)
  <2>1. \A h \in Handlers :
           hnd'[h] = hnd[h] \/ (h = <<s, l>> /\ hnd'[h].pc = "gate" /\ ~hnd'[h].slot)
    BY <1>0, <1>3, DispatchFresh
  <2>2. \A m \in Loops :
           \/ hnd'[<<r, m>>] = hnd[<<r, m>>]
           \/ ~hnd'[<<r, m>>].slot /\ ~hnd[<<r, m>>].slot
    BY <1>a, <1>3, <2>1 DEF Idle
  <2> QED
    BY <1>0, <1>a, <1>3, <2>2, SlotsSame
<1>4. CASE ListenOne(s)
  BY <1>3, <1>4 DEF ListenOne, Loops
<1>5. CASE PollOne(s)
  BY <1>3, <1>5 DEF PollOne, Loops
<1>6. CASE Exit(s) \/ Crash(s)
  BY <1>1, <1>6 DEF Exit, Crash
<1>7. CASE \/ connectAndLock(s) \/ RecoverStaleRunning(s) \/ BeginListen(s) \/ NoticeDrop(s)
           \/ Redial(s) \/ PollSelect(s) \/ ConnDrop(s) \/ Sigterm(s) \/ Reload(s)
  BY <1>2, <1>7 DEF connectAndLock, RecoverStaleRunning, BeginListen, NoticeDrop, Redial,
                    PollSelect, ConnDrop, Sigterm, Reload, CacheReload
<1> QED
  BY <1>4, <1>5, <1>6, <1>7 DEF SupervisorStep, Disturbance

\* Every step takes and gives back the slots its handlers answer for.
LEMMA SlotInvStep == CoreInv /\ SlotInv /\ [Next]_vars => SlotInv'
<1> SUFFICES ASSUME CoreInv, SlotInv, [Next]_vars, NEW s \in Supervisors
             PROVE  SlotsOf(s)
  BY SlotsAll
<1>0. \A l \in Loops : /\ hnd[<<s, l>>].slot \in BOOLEAN
                       /\ hnd[<<s, l>>].slot => hnd[<<s, l>>].pc \notin {"idle", "gate"}
  <2>1. \A l \in Loops : <<s, l>> \in Handlers
    BY DEF Handlers
  <2> QED
    BY <2>1, HolderPast DEF CoreInv, TypeOK, HandlerRow
<1>1. CASE Writers
  BY <1>0, <1>1, WriterShape, SlotsSame
<1>2. CASE \E r \in Supervisors : SupervisorStep(r) \/ Disturbance(r)
  BY <1>2, SlotProcess
<1>3. CASE \E h \in Handlers : HandlerStep(h) \/ FirePause(h)
  BY <1>3, SlotHandler
<1>4. CASE PauseElapses \/ SpendAges \/ UNCHANGED vars
  BY <1>0, <1>4, TimeShape, SlotsSame
<1> QED
  BY <1>1, <1>2, <1>3, <1>4 DEF Next

\* OpenInv of the next state, for one handler.
OpenOf(h) ==
    hnd'[h].pc \notin {"idle", "gate"} /\ ~hnd'[h].slot =>
       \/ env'.reloads + 2 <= MaxReloads
       \/ /\ Route(outbox'[hnd'[h].ev].channel) \notin cache'[h[1]]
          /\ hnd'[h].pc \notin AgentPcs \ {"setup"}

\* A handler that stays as it is.
LEMMA OpenSame ==
    ASSUME CoreInv, OpenInv, UseContainer, OutboxExtends, NEW h \in Handlers,
           hnd'[h] = hnd[h], cache'[h[1]] = cache[h[1]], env'.reloads = env.reloads
    PROVE  OpenOf(h)
<1> SUFFICES ASSUME hnd[h].pc \notin {"idle", "gate"}, ~hnd[h].slot PROVE OpenOf(h)
  BY DEF OpenOf
<1>1. Route(outbox'[hnd'[h].ev].channel) = RoleOf(hnd[h].ev)
  BY RoleStays DEF Busy
<1>2. \/ env.reloads + 2 <= MaxReloads
      \/ RoleOf(hnd[h].ev) \notin cache[h[1]] /\ hnd[h].pc \notin AgentPcs \ {"setup"}
  BY DEF OpenInv, InSession
<1> QED
  BY <1>1, <1>2 DEF OpenOf

\* A handler's own step: it passes the gate without a slot where its agent is unknown,
\* and finds the agent only if the cache has it by then.
LEMMA OpenHandler ==
    ASSUME CoreInv, OpenInv, UseContainer, NEW g \in Handlers, HandlerStep(g) \/ FirePause(g),
           NEW h \in Handlers
    PROVE  OpenOf(h)
<1>1. /\ PcStep(g) /\ Busy(g) /\ OutboxExtends /\ SlotStep(g) /\ Checks(g)
      /\ UNCHANGED cache /\ (UNCHANGED env \/ DbFault)
  BY HandlerShape, HandlerChecks DEF procVars
<1>2. env \in Allowance /\ env'.reloads = env.reloads
  <2>1. env \in Allowance
    BY DEF CoreInv, TypeOK
  <2> QED
    BY <1>1, <2>1 DEF DbFault, Allowance
<1>3. CASE hnd'[h] = hnd[h]
  BY <1>1, <1>2, <1>3, OpenSame
<1>4. CASE h = g /\ hnd'[h] # hnd[h]
  <2> SUFFICES ASSUME hnd'[h].pc \notin {"idle", "gate"}, ~hnd'[h].slot PROVE OpenOf(h)
    BY DEF OpenOf
  <2>1. hnd'[h].ev = hnd[h].ev /\ <<hnd[h].pc, hnd'[h].pc>> \in Moves
    BY <1>1, <1>4 DEF PcStep, IdleHandler
  <2>2. Route(outbox'[hnd'[h].ev].channel) = RoleOf(hnd[h].ev)
    BY <1>1, <1>4, <2>1, RoleStays
  <2>3. CASE TakesSlot(h)
    BY <1>1, <2>2, <2>3 DEF TakesSlot, SlotEnforced, OpenOf, AgentPcs
  <2>4. CASE KeepsSlot(h)
    <3>1. hnd[h].pc \notin {"idle", "gate"} /\ ~hnd[h].slot
      BY <1>4, <2>4 DEF KeepsSlot
    <3>2. CASE env.reloads + 2 <= MaxReloads
      BY <1>2, <3>2 DEF OpenOf
    <3>3. CASE RoleOf(hnd[h].ev) \notin cache[h[1]] /\ ~InSession(h)
      <4>1. hnd'[h].pc # "running"
        BY <1>1, <1>4, <2>1, <3>3 DEF Checks, Moves
      <4>2. hnd'[h].pc \notin AgentPcs \ {"setup"}
        BY <2>1, <3>3, <4>1 DEF Moves, InSession, AgentPcs
      <4> QED
        BY <1>1, <2>2, <3>3, <4>2 DEF OpenOf
    <3> QED
      BY <3>1, <3>2, <3>3 DEF OpenInv
  <2>5. CASE GivesSlot(h)
    BY <2>5 DEF GivesSlot, IdleHandler
  <2> QED
    BY <1>1, <1>4, <2>3, <2>4, <2>5 DEF SlotStep
<1> QED
  BY <1>1, <1>3, <1>4 DEF PcStep

\* The step of a process: only a reload touches a cache, and it is counted.
LEMMA OpenProcess ==
    ASSUME CoreInv, OpenInv, UseContainer, NEW s \in Supervisors,
           SupervisorStep(s) \/ Disturbance(s), NEW h \in Handlers
    PROVE  OpenOf(h)
<1>0. /\ env \in Allowance /\ OutboxExtends /\ Fresh
      /\ MaxReloads \in Nat
  BY ProcessShape, ConstantsAssumption DEF CoreInv, TypeOK
<1>1. CASE Reload(s)
  <2> SUFFICES ASSUME hnd'[h].pc \notin {"idle", "gate"}, ~hnd'[h].slot PROVE OpenOf(h)
    BY DEF OpenOf
  <2>1. UNCHANGED hnd /\ env' = [env EXCEPT !.reloads = @ - 1] /\ env.reloads > 0
    BY <1>1 DEF Reload, CacheReload
  <2>2. env'.reloads = env.reloads - 1 /\ env.reloads \in Nat
    BY <1>0, <2>1 DEF Allowance
  <2>3. env.reloads # MaxReloads
    <3>1. RoleOf(hnd[h].ev) \in Roles /\ h[1] \in Supervisors
      BY <2>1, HandlerProcess DEF CoreInv, RefInv, Busy
    <3> QED
      BY <1>0, <2>1, <2>2, <3>1 DEF OpenInv
  <2>4. env.reloads + 1 <= MaxReloads
    BY <1>0, <2>2, <2>3 DEF OpenInv
  <2> QED
    BY <1>0, <2>2, <2>4 DEF OpenOf
<1>2. CASE ~Reload(s)
  <2>1. UNCHANGED cache /\ env'.reloads = env.reloads
    <3>1. UNCHANGED cache
      BY <1>2 DEF SupervisorStep, Disturbance, connectAndLock, RecoverStaleRunning, BeginListen,
                  NoticeDrop, Redial, Exit, Gone, ListenOne, PollSelect, PollOne, ConnDrop,
                  Sigterm, Crash, procVars
    <3>2. \/ UNCHANGED env \/ env' = [env EXCEPT !.crashes = @ - 1]
          \/ env' = [env EXCEPT !.drops = @ - 1] \/ env' = [env EXCEPT !.stops = @ - 1]
      BY <1>2 DEF SupervisorStep, Disturbance, connectAndLock, RecoverStaleRunning, BeginListen,
                  NoticeDrop, Redial, Exit, ListenOne, PollSelect, PollOne, ConnDrop,
                  Sigterm, Crash
    <3> QED
      BY <1>0, <3>1, <3>2 DEF Allowance
  <2>2. CASE hnd'[h] = hnd[h]
    BY <1>0, <2>1, <2>2, OpenSame
  <2>3. CASE hnd'[h].pc \in {"idle", "gate"}
    BY <2>3 DEF OpenOf
  <2> QED
    BY <1>0, <2>2, <2>3 DEF Fresh
<1> QED
  BY <1>1, <1>2

\* The counter of reloads, and the caches before the first one.
LEMMA ReloadStep ==
    ASSUME CoreInv, OpenInv, [Next]_vars
    PROVE  /\ env'.reloads <= MaxReloads
           /\ env'.reloads = MaxReloads => \A s \in Supervisors : cache'[s] = Roles
<1>0. env \in Allowance /\ MaxReloads \in Nat
  BY ConstantsAssumption DEF CoreInv, TypeOK
<1>a. ASSUME UNCHANGED cache, env'.reloads = env.reloads
      PROVE  /\ env'.reloads <= MaxReloads
             /\ env'.reloads = MaxReloads => \A s \in Supervisors : cache'[s] = Roles
  BY <1>a DEF OpenInv
<1>1. CASE Writers
  BY <1>1, <1>a, WriterShape DEF procVars
<1>2. CASE \E h \in Handlers : HandlerStep(h) \/ FirePause(h)
  <2>1. UNCHANGED cache /\ (UNCHANGED env \/ DbFault)
    BY <1>2, HandlerShape DEF procVars
  <2>2. env'.reloads = env.reloads
    BY <1>0, <2>1 DEF DbFault, Allowance
  <2> QED
    BY <1>a, <2>1, <2>2
<1>3. CASE PauseElapses \/ SpendAges \/ UNCHANGED vars
  BY <1>3, <1>a, TimeShape DEF procVars
<1>4. ASSUME NEW s \in Supervisors, SupervisorStep(s) \/ Disturbance(s), ~Reload(s)
      PROVE  UNCHANGED cache /\ env'.reloads = env.reloads
  <2>1. UNCHANGED cache
    BY <1>4 DEF SupervisorStep, Disturbance, connectAndLock, RecoverStaleRunning, BeginListen,
                NoticeDrop, Redial, Exit, Gone, ListenOne, PollSelect, PollOne, ConnDrop,
                Sigterm, Crash, procVars
  <2>2. \/ UNCHANGED env \/ env' = [env EXCEPT !.crashes = @ - 1]
        \/ env' = [env EXCEPT !.drops = @ - 1] \/ env' = [env EXCEPT !.stops = @ - 1]
    BY <1>4 DEF SupervisorStep, Disturbance, connectAndLock, RecoverStaleRunning, BeginListen,
                NoticeDrop, Redial, Exit, ListenOne, PollSelect, PollOne, ConnDrop,
                Sigterm, Crash
  <2> QED
    BY <1>0, <2>1, <2>2 DEF Allowance
<1>5. ASSUME NEW s \in Supervisors, Reload(s)
      PROVE  env'.reloads < MaxReloads
  <2>1. env' = [env EXCEPT !.reloads = @ - 1] /\ env.reloads > 0
    BY <1>5 DEF Reload, CacheReload
  <2>2. env'.reloads = env.reloads - 1 /\ env.reloads \in Nat
    BY <1>0, <2>1 DEF Allowance
  <2> QED
    BY <1>0, <2>2 DEF OpenInv
<1>6. CASE \E s \in Supervisors : SupervisorStep(s) \/ Disturbance(s)
  <2>1. PICK s \in Supervisors : SupervisorStep(s) \/ Disturbance(s)
    BY <1>6
  <2>2. CASE Reload(s)
    <3>1. env'.reloads < MaxReloads /\ env'.reloads \in Nat
      <4>1. env' = [env EXCEPT !.reloads = @ - 1] /\ env.reloads > 0
        BY <2>2 DEF Reload, CacheReload
      <4> QED
        BY <1>0, <1>5, <2>2, <4>1 DEF Allowance
    <3> QED
      BY <1>0, <3>1
  <2>3. CASE ~Reload(s)
    BY <1>4, <1>a, <2>1, <2>3
  <2> QED
    BY <2>2, <2>3
<1> QED
  BY <1>1, <1>2, <1>3, <1>6 DEF Next

\* Every step keeps a session without a slot out of one reload's reach.
LEMMA OpenInvStep == CoreInv /\ OpenInv /\ [Next]_vars => OpenInv'
<1> SUFFICES ASSUME CoreInv, OpenInv, [Next]_vars PROVE OpenInv'
  OBVIOUS
<1>1. ASSUME UseContainer, NEW h \in Handlers PROVE OpenOf(h)
  <2>1. CASE Writers
    BY <1>1, <2>1, WriterShape, OpenSame DEF procVars
  <2>2. CASE \E s \in Supervisors : SupervisorStep(s) \/ Disturbance(s)
    BY <1>1, <2>2, OpenProcess
  <2>3. CASE \E g \in Handlers : HandlerStep(g) \/ FirePause(g)
    BY <1>1, <2>3, OpenHandler
  <2>4. CASE PauseElapses \/ SpendAges \/ UNCHANGED vars
    BY <1>1, <2>4, TimeShape, OpenSame DEF procVars
  <2> QED
    BY <2>1, <2>2, <2>3, <2>4 DEF Next
<1>2. UseContainer => \A h \in Handlers : OpenOf(h)
  BY <1>1
<1> QED
  BY <1>2, ReloadStep DEF OpenInv, OpenOf, InSession, RoleOf

\* As many slots are taken as loops hold one.
LEMMA SlotsCounted ==
    ASSUME NEW L \in SUBSET Loops, NEW role, \A l, m \in L : role[l] = role[m] => l = m
    PROVE  Cardinality({role[l] : l \in L}) = Cardinality(L)
<1>1. ASSUME NEW a, NEW b, a # b PROVE Cardinality({a, b}) = 2
  <2>1. IsFiniteSet({a}) /\ Cardinality({a}) = 1
    BY FS_Singleton
  <2>2. Cardinality({a} \cup {b}) = Cardinality({a}) + 1
    BY <1>1, <2>1, FS_AddElement
  <2>3. {a} \cup {b} = {a, b}
    OBVIOUS
  <2> QED
    BY <2>1, <2>2, <2>3
<1>2. L = {} \/ L = {"listen"} \/ L = {"poll"} \/ L = {"listen", "poll"}
  BY DEF Loops
<1>3. CASE L = {}
  <2>1. {role[l] : l \in L} = {}
    BY <1>3
  <2> QED
    BY <1>3, <2>1
<1>4. ASSUME NEW x, L = {x} PROVE Cardinality({role[l] : l \in L}) = Cardinality(L)
  <2>1. {role[l] : l \in L} = {role[x]}
    BY <1>4
  <2> QED
    BY <1>4, <2>1, FS_Singleton
<1>5. CASE L = {"listen", "poll"}
  <2>1. {role[l] : l \in L} = {role["listen"], role["poll"]}
    BY <1>5
  <2>2. role["listen"] # role["poll"] /\ "listen" # "poll"
    BY <1>5
  <2>3. Cardinality({role["listen"], role["poll"]}) = 2 /\ Cardinality({"listen", "poll"}) = 2
    BY <1>1, <2>2
  <2> QED
    BY <1>5, <2>1, <2>3
<1> QED
  BY <1>2, <1>3, <1>4, <1>5

\* On the container runtime the slots taken are those some handler will release, and no
\* agent's is held twice: no fault, retry, defer or crash leaks one.  A session without a
\* slot takes an agent that left the cache before the gate and came back after it, so two
\* reloads, in any number of supervisors and with any number of disturbances.
THEOREM AgentSlotExclusiveHolds == Spec => []AgentSlotExclusive
<1>1. Init => SlotInv /\ OpenInv
  <2> SUFFICES ASSUME Init PROVE SlotInv /\ OpenInv
    OBVIOUS
  <2>1. /\ \A h \in Handlers : hnd[h].pc = "idle" /\ hnd[h].slot = FALSE
        /\ \A s \in Supervisors : slots[s] = {} /\ cache[s] = Roles
        /\ env.reloads = MaxReloads /\ MaxReloads \in Nat
    BY ConstantsAssumption DEF Init, IdleHandler
  <2>2. \A s \in Supervisors : Holders(s) = {}
    BY <2>1 DEF Holders, Handlers
  <2>3. SlotInv
    BY <2>1, <2>2 DEF SlotInv
  <2>4. OpenInv
    BY <2>1 DEF OpenInv
  <2> QED
    BY <2>3, <2>4
<1>2. SlotInv /\ OpenInv => AgentSlotExclusive
  <2> SUFFICES ASSUME SlotInv, OpenInv, UseContainer, NEW s \in Supervisors
               PROVE  /\ slots[s] = {RoleOf(hnd[<<s, l>>].ev) : l \in Holders(s)}
                      /\ Cardinality(slots[s]) = Cardinality(Holders(s))
                      /\ \A l \in Loops : InSession(<<s, l>>) /\ l \notin Holders(s) =>
                                             env.reloads + 2 <= MaxReloads
    BY DEF AgentSlotExclusive, Holders
  <2> DEFINE role == [l \in Loops |-> RoleOf(hnd[<<s, l>>].ev)]
  <2>1. Holders(s) \in SUBSET Loops
    BY DEF Holders
  <2>2. {RoleOf(hnd[<<s, l>>].ev) : l \in Holders(s)} = {role[l] : l \in Holders(s)}
    BY <2>1
  <2>3. \A l, m \in Holders(s) : role[l] = role[m] => l = m
    BY <2>1 DEF SlotInv
  <2> HIDE DEF role
  <2>4. Cardinality({role[l] : l \in Holders(s)}) = Cardinality(Holders(s))
    BY <2>1, <2>3, SlotsCounted
  <2>5. ASSUME NEW l \in Loops, InSession(<<s, l>>), l \notin Holders(s)
        PROVE  env.reloads + 2 <= MaxReloads
    <3>1. <<s, l>> \in Handlers /\ ~hnd[<<s, l>>].slot
      BY <2>5 DEF Handlers, Holders
    <3>2. hnd[<<s, l>>].pc \notin {"idle", "gate"}
      BY <2>5 DEF InSession, AgentPcs
    <3> QED
      BY <2>5, <3>1, <3>2 DEF OpenInv
  <2> QED
    BY <2>2, <2>4, <2>5 DEF SlotInv
<1> QED
  BY <1>1, <1>2, ReferencesHold, SlotInvStep, OpenInvStep, PTL DEF Spec

-------------------------------------------------------------------------------
(* Tickets that wait for each other *)

\* A step moves a ticket forward, or is a drag, or touches a ticket that is new.
Forward ==
    \/ UNCHANGED <<column, history>>
    \/ Creates
    \/ Drags
    \/ \E x \in TransitionRow : /\ x.to \in SatisfactionColumns
                                /\ history' = Append(history, x)
                                /\ column' = [column EXCEPT ![x.ticket] = x.to]

\* What has waited goes on having waited.
LEMMA WaitedStays ==
    ASSUME CoreInv, Forward, NEW t \in Tickets, Waited(t, column, history)
    PROVE  Waited(t, column', history')
<1> DEFINE p == Predecessor[t]
<1> SUFFICES ASSUME p # NoTicket,
                    \A j \in DOMAIN history' : history'[j].ticket = p => history'[j].inst # 0
             PROVE  column'[p] \in SatisfactionColumns
  BY DEF Waited
<1>0. /\ p \in Tickets /\ column \in [Tickets -> Columns \cup {NoColumn}]
      /\ history \in Seq(TransitionRow)
  BY ConstantsAssumption DEF CoreInv, TypeOK
<1> HIDE DEF p
<1>a. ASSUME \A j \in DOMAIN history : j \in DOMAIN history' /\ history'[j] = history[j]
      PROVE  column[p] \in SatisfactionColumns
  BY <1>a DEF Waited, p
<1>1. CASE UNCHANGED <<column, history>>
  BY <1>1, <1>a
<1>2. CASE Creates
  <2>1. PICK u \in Tickets : column[u] = NoColumn /\ \A v \in Tickets : v # u => column'[v] = column[v]
    BY <1>2 DEF Creates
  <2>2. column[p] \in SatisfactionColumns
    BY <1>2, <1>a DEF Creates
  <2> QED
    BY <1>0, <2>1, <2>2 DEF SatisfactionColumns, NoColumn
<1>3. CASE Drags
  <2> PICK x \in TransitionRow : /\ x.inst = 0 /\ history' = Append(history, x)
                                 /\ \A u \in Tickets : u # x.ticket => column'[u] = column[u]
    BY <1>3 DEF Drags
  <2>1. x.ticket # p
    BY <1>0, HistoryAppend
  <2>2. column[p] \in SatisfactionColumns
    BY <1>0, <1>a, HistoryAppend
  <2> QED
    BY <1>0, <2>1, <2>2
<1>4. CASE \E x \in TransitionRow : /\ x.to \in SatisfactionColumns
                                    /\ history' = Append(history, x)
                                    /\ column' = [column EXCEPT ![x.ticket] = x.to]
  <2> PICK x \in TransitionRow : /\ x.to \in SatisfactionColumns
                                 /\ history' = Append(history, x)
                                 /\ column' = [column EXCEPT ![x.ticket] = x.to]
    BY <1>4
  <2>1. column[p] \in SatisfactionColumns
    BY <1>0, <1>a, HistoryAppend
  <2> QED
    BY <1>0, <2>1
<1> QED
  BY <1>1, <1>2, <1>3, <1>4 DEF Forward

\* Every step is such a step.
LEMMA StepForward ==
    ASSUME CoreInv, [Next]_vars
    PROVE  Forward /\ OutboxExtends
<1>1. CASE Writers
  BY <1>1, WriterShape DEF Forward
<1>2. CASE \E s \in Supervisors : SupervisorStep(s) \/ Disturbance(s)
  BY <1>2, ProcessShape DEF Forward
<1>3. ASSUME NEW h \in Handlers, HandlerStep(h) \/ FirePause(h) PROVE Forward /\ OutboxExtends
  <2>1. /\ Busy(h) /\ OutboxExtends
        /\ Silent \/ Inserts(h) \/ Diarises(h) \/ Fails(h) \/ Succeeds(h)
    BY <1>3, HandlerShape
  <2>2. CASE Succeeds(h)
    BY <2>1, <2>2, SucceedMoves DEF Succeeds, Forward
  <2>3. CASE ~Succeeds(h)
    BY <2>1, <2>3 DEF Silent, Inserts, Diarises, Fails, Forward
  <2> QED
    BY <2>1, <2>2, <2>3
<1>4. CASE PauseElapses \/ SpendAges \/ UNCHANGED vars
  BY <1>4, TimeShape DEF Forward
<1> QED
  BY <1>1, <1>2, <1>3, <1>4 DEF Next

\* Who is past the dependency check, and which rows there are, after a step.
LEMMA WaitKeeps ==
    ASSUME CoreInv, WaitInv, Forward, OutboxExtends,
           \A h \in Handlers :
              hnd'[h].pc = "insert" =>
                 /\ Busy(h) /\ hnd'[h].ev = hnd[h].ev
                 /\ hnd[h].pc # "insert" => checkDependencySatisfied(outbox[hnd[h].ev].ticket),
           \A i \in DOMAIN instances' :
              \/ i \in DOMAIN instances /\ instances'[i].event = instances[i].event
              \/ \E h \in Handlers : hnd[h].pc = "insert" /\ instances'[i].event = hnd[h].ev
    PROVE  WaitInv'
<1>0. /\ outbox \in Seq(EventRow) /\ \A e \in DOMAIN outbox : outbox[e].ticket \in Tickets
  <2>1. outbox \in Seq(EventRow) /\ \A e \in DOMAIN outbox : outbox[e] \in EventRow
    BY DEF CoreInv, TypeOK
  <2> QED
    BY <2>1 DEF EventRow
<1>1. \A e \in DOMAIN outbox : Waited(outbox[e].ticket, column, history)
                               => Waited(outbox'[e].ticket, column', history')
  BY <1>0, WaitedStays DEF OutboxExtends
<1>2. ASSUME NEW h \in Handlers, hnd'[h].pc = "insert"
      PROVE  Waited(outbox'[hnd'[h].ev].ticket, column', history')
  <2>1. Busy(h) /\ hnd'[h].ev = hnd[h].ev /\ hnd[h].ev \in DOMAIN outbox
    BY <1>2 DEF CoreInv, RefInv
  <2>2. Waited(outbox[hnd[h].ev].ticket, column, history)
    <3>1. CASE hnd[h].pc = "insert"
      BY <3>1 DEF WaitInv
    <3>2. CASE hnd[h].pc # "insert"
      BY <1>2, <3>2 DEF checkDependencySatisfied, Waited
    <3> QED
      BY <3>1, <3>2
  <2> QED
    BY <1>1, <2>1, <2>2
<1>3. ASSUME NEW i \in DOMAIN instances'
      PROVE  /\ instances'[i].event \in DOMAIN outbox'
             /\ Waited(outbox'[instances'[i].event].ticket, column', history')
  <2>1. /\ instances'[i].event \in DOMAIN outbox
        /\ Waited(outbox[instances'[i].event].ticket, column, history)
    <3>1. CASE i \in DOMAIN instances /\ instances'[i].event = instances[i].event
      BY <3>1 DEF WaitInv
    <3>2. CASE \E h \in Handlers : hnd[h].pc = "insert" /\ instances'[i].event = hnd[h].ev
      BY <3>2 DEF WaitInv, CoreInv, RefInv, Busy
    <3> QED
      BY <1>3, <3>1, <3>2
  <2> QED
    BY <1>1, <2>1 DEF OutboxExtends
<1> QED
  BY <1>2, <1>3 DEF WaitInv

\* A status that is set leaves the rows and their events.
LEMMA StatusKeeps ==
    ASSUME CoreInv, NEW i, NEW status, SetStatus(i, status)
    PROVE  /\ DOMAIN instances' = DOMAIN instances
           /\ \A j \in DOMAIN instances : /\ instances'[j].event = instances[j].event
                                          /\ j # i => instances'[j] = instances[j]
                                          /\ j = i => instances'[j].status = status
<1>1. instances \in Seq(InstanceRow) /\ \A j \in DOMAIN instances : instances[j] \in InstanceRow
  BY DEF CoreInv, TypeOK
<1>2. DOMAIN instances' = DOMAIN instances
  BY DEF SetStatus
<1>3. ASSUME NEW j \in DOMAIN instances
      PROVE  /\ instances'[j].event = instances[j].event
             /\ j # i => instances'[j] = instances[j]
             /\ j = i => instances'[j].status = status
  <2>1. CASE j = i
    <3>1. instances'[j] = [instances[j] EXCEPT !.status = status]
      BY <2>1 DEF SetStatus
    <3> QED
      BY <1>1, <2>1, <3>1 DEF InstanceRow
  <2>2. CASE j # i
    BY <2>2 DEF SetStatus
  <2> QED
    BY <2>1, <2>2
<1> QED
  BY <1>2, <1>3

\* A handler inserts the row of its event, and no other.
LEMMA InstancesGrow ==
    ASSUME CoreInv, NEW h \in Handlers,
           Silent \/ Inserts(h) \/ Diarises(h) \/ Fails(h) \/ Succeeds(h)
    PROVE  \A i \in DOMAIN instances' :
              \/ i \in DOMAIN instances /\ instances'[i].event = instances[i].event
              \/ hnd[h].pc = "insert" /\ instances'[i].event = hnd[h].ev
<1>1. CASE UNCHANGED instances
  BY <1>1
<1>2. CASE Inserts(h)
  <2> DEFINE r == [event |-> hnd[h].ev, status |-> "running"]
  <2>1. /\ instances \in Seq(InstanceRow) /\ instances' = Append(instances, r)
        /\ hnd[h].pc = "insert" /\ r.event = hnd[h].ev
    BY <1>2 DEF Inserts, CoreInv, TypeOK
  <2> HIDE DEF r
  <2>2. /\ DOMAIN instances' = DOMAIN instances \cup {Len(instances) + 1}
        /\ instances'[Len(instances) + 1] = r
        /\ \A i \in DOMAIN instances : instances'[i] = instances[i]
    BY <2>1
  <2> QED
    BY <2>1, <2>2
<1>3. CASE Fails(h)
  <2>1. PICK status : SetStatus(hnd[h].inst, status)
    BY <1>3 DEF Fails
  <2> QED
    BY <2>1, StatusKeeps
<1>4. CASE Succeeds(h)
  <2>1. SetStatus(hnd[h].inst, "succeeded")
    BY <1>4 DEF Succeeds, Succeed
  <2> QED
    BY <2>1, StatusKeeps
<1> QED
  BY <1>1, <1>2, <1>3, <1>4 DEF Silent, Diarises

\* No run takes a ticket out of review, so a check that passed stays true.
LEMMA WaitInvStep == CoreInv /\ WaitInv /\ [Next]_vars => WaitInv'
<1> SUFFICES ASSUME CoreInv, WaitInv, [Next]_vars PROVE WaitInv'
  OBVIOUS
<1>0. Forward /\ OutboxExtends
  BY StepForward
<1>a. ASSUME Fresh, UNCHANGED instances \/ Recovers PROVE WaitInv'
  <2>1. \A h \in Handlers : hnd'[h].pc = "insert" => hnd'[h] = hnd[h] /\ Busy(h)
    BY <1>a DEF Fresh, Busy
  <2>2. \A i \in DOMAIN instances' : i \in DOMAIN instances /\ instances'[i].event = instances[i].event
    BY <1>a DEF Recovers
  <2> QED
    BY <1>0, <2>1, <2>2, WaitKeeps
<1>1. CASE Writers
  BY <1>1, <1>a, WriterShape DEF Fresh
<1>2. CASE \E s \in Supervisors : SupervisorStep(s) \/ Disturbance(s)
  BY <1>2, <1>a, ProcessShape
<1>3. ASSUME NEW h \in Handlers, HandlerStep(h) \/ FirePause(h) PROVE WaitInv'
  <2>1. /\ PcStep(h) /\ Busy(h) /\ Checks(h)
        /\ Silent \/ Inserts(h) \/ Diarises(h) \/ Fails(h) \/ Succeeds(h)
    BY <1>3, HandlerShape, HandlerChecks
  <2>2. ASSUME NEW g \in Handlers, hnd'[g].pc = "insert"
        PROVE  /\ Busy(g) /\ hnd'[g].ev = hnd[g].ev
               /\ hnd[g].pc # "insert" => checkDependencySatisfied(outbox[hnd[g].ev].ticket)
    <3>1. CASE hnd'[g] = hnd[g]
      BY <2>2, <3>1 DEF Busy
    <3>2. CASE hnd'[g] # hnd[g]
      <4>1. g = h /\ hnd'[h].ev = hnd[h].ev /\ hnd[h].pc = "screen"
        BY <2>1, <2>2, <3>2 DEF PcStep, IdleHandler, Moves
      <4> QED
        BY <2>1, <2>2, <4>1 DEF Checks
    <3> QED
      BY <3>1, <3>2
  <2>3. \A i \in DOMAIN instances' :
              \/ i \in DOMAIN instances /\ instances'[i].event = instances[i].event
              \/ hnd[h].pc = "insert" /\ instances'[i].event = hnd[h].ev
    BY <2>1, InstancesGrow
  <2> QED
    BY <1>0, <2>2, <2>3, WaitKeeps
<1>4. CASE PauseElapses \/ SpendAges \/ UNCHANGED vars
  BY <1>4, <1>a, TimeShape DEF Fresh
<1> QED
  BY <1>1, <1>2, <1>3, <1>4 DEF Next

\* No agent is started for a dependent ticket before its predecessor was up for
\* review; the check and the INSERT are not atomic, but no run moves a ticket back,
\* so only an operator's drag can make the answer stale.
THEOREM DependentsWaitHolds == Spec => []DependentsWait
<1>1. Init => WaitInv
  <2> SUFFICES ASSUME Init PROVE WaitInv
    OBVIOUS
  <2>1. DOMAIN instances = {} /\ \A h \in Handlers : hnd[h].pc = "idle"
    BY DEF Init, IdleHandler
  <2> QED
    BY <2>1 DEF WaitInv
<1>2. WaitInv => DependentsWait
  BY DEF WaitInv, DependentsWait, Waited
<1> QED
  BY <1>1, <1>2, ReferencesHold, WaitInvStep, PTL DEF Spec

-------------------------------------------------------------------------------
(* The rows that say "running" *)

\* Nothing was lost by this step.
Lossless == env'.faults = env.faults /\ env'.drops = env.drops /\ env'.stops = env.stops

\* A fault, a dropped connection and a signal are the losses.
LEMMA LossStep ==
    ASSUME CoreInv, EnvInv, [Next]_vars
    PROVE  EnvInv' /\ (Unspent' => Unspent /\ Lossless)
<1>0. env \in Allowance
  BY DEF CoreInv, TypeOK
<1>1. CASE Lossless
  BY <1>1 DEF EnvInv, Unspent, Lossless
<1>2. CASE DbFault
  BY <1>0, <1>2, ConstantsAssumption DEF DbFault, EnvInv, Unspent, Allowance
<1>3. ASSUME NEW s \in Supervisors, ConnDrop(s)
      PROVE  EnvInv' /\ ~Unspent'
  BY <1>0, <1>3, ConstantsAssumption DEF ConnDrop, EnvInv, Unspent, Allowance
<1>4. ASSUME NEW s \in Supervisors, Sigterm(s)
      PROVE  EnvInv' /\ ~Unspent'
  BY <1>0, <1>4, ConstantsAssumption DEF Sigterm, EnvInv, Unspent, Allowance
<1>5. ASSUME NEW s \in Supervisors, SupervisorStep(s) \/ Crash(s) \/ Reload(s)
      PROVE  Lossless
  <2>1. \/ UNCHANGED env \/ env' = [env EXCEPT !.crashes = @ - 1]
        \/ env' = [env EXCEPT !.reloads = @ - 1]
    BY <1>5 DEF SupervisorStep, connectAndLock, RecoverStaleRunning, BeginListen, NoticeDrop,
                Redial, Exit, ListenOne, PollSelect, PollOne, Crash, Reload, CacheReload
  <2> QED
    BY <1>0, <2>1 DEF Lossless, Allowance
<1>6. CASE Writers
  BY <1>1, <1>6, WriterShape DEF Lossless
<1>7. CASE \E h \in Handlers : HandlerStep(h) \/ FirePause(h)
  BY <1>1, <1>2, <1>7, HandlerShape DEF Lossless
<1>8. CASE PauseElapses \/ SpendAges \/ UNCHANGED vars
  BY <1>1, <1>8, TimeShape DEF Lossless
<1>9. CASE \E s \in Supervisors : SupervisorStep(s) \/ Disturbance(s)
  BY <1>1, <1>3, <1>4, <1>5, <1>9 DEF Disturbance
<1> QED
  BY <1>6, <1>7, <1>8, <1>9 DEF Next

\* The rows that say "running" after a handler's step.
LEMMA RunningStep ==
    ASSUME CoreInv, ExitInv, NEW h \in Handlers
    PROVE  /\ Silent \/ Diarises(h) => Running' = Running
           /\ Inserts(h) => Running' = Running \cup {Len(instances) + 1}
           /\ Fails(h) \/ Succeeds(h) => Running' = Running \ {hnd[h].inst}
<1>0. instances \in Seq(InstanceRow)
  BY DEF CoreInv, TypeOK
<1>1. ASSUME UNCHANGED instances PROVE Running' = Running
  BY <1>1 DEF Running
<1>2. ASSUME Inserts(h) PROVE Running' = Running \cup {Len(instances) + 1}
  <2> DEFINE r == [event |-> hnd[h].ev, status |-> "running"]
  <2>1. instances' = Append(instances, r) /\ r.status = "running"
    BY <1>2 DEF Inserts
  <2> HIDE DEF r
  <2>2. /\ DOMAIN instances' = DOMAIN instances \cup {Len(instances) + 1}
        /\ instances'[Len(instances) + 1] = r
        /\ \A i \in DOMAIN instances : instances'[i] = instances[i]
        /\ Len(instances) + 1 \notin DOMAIN instances
    BY <1>0, <2>1
  <2> QED
    BY <2>1, <2>2 DEF Running
<1>3. ASSUME NEW status, SetStatus(hnd[h].inst, status), status # "running"
      PROVE  Running' = Running \ {hnd[h].inst}
  <2>1. /\ DOMAIN instances' = DOMAIN instances
        /\ \A j \in DOMAIN instances : /\ j # hnd[h].inst => instances'[j] = instances[j]
                                       /\ j = hnd[h].inst => instances'[j].status = status
    BY <1>3, StatusKeeps
  <2> QED
    BY <1>3, <2>1 DEF Running
<1>4. ASSUME Fails(h) PROVE Running' = Running \ {hnd[h].inst}
  <2>1. PICK status \in {"failed", hnd[h].exit} : /\ status = "failed" \/ hnd[h].pc = "closing"
                                                  /\ SetStatus(hnd[h].inst, status)
    BY <1>4 DEF Fails
  <2>2. status # "running"
    BY <2>1 DEF ExitInv
  <2> QED
    BY <2>1, <2>2, <1>3
<1>5. ASSUME Succeeds(h) PROVE Running' = Running \ {hnd[h].inst}
  BY <1>3, <1>5 DEF Succeeds, Succeed
<1> QED
  BY <1>1, <1>2, <1>4, <1>5 DEF Silent, Diarises

\* A handler that leaves its run has written its outcome, or something was lost.
LEMMA OwnHandler ==
    ASSUME CoreInv, ExitInv, OwnInv, Owned, Lossless,
           NEW h \in Handlers, HandlerStep(h) \/ FirePause(h)
    PROVE  Owned'
<1>0. env \in Allowance
  BY DEF CoreInv, TypeOK
<1>1. /\ PcStep(h) /\ Busy(h) /\ UNCHANGED procVars /\ Checks(h)
      /\ Silent \/ Inserts(h) \/ Diarises(h) \/ Fails(h) \/ Succeeds(h)
  BY HandlerShape, HandlerChecks
<1>2. ~DbFault
  BY <1>0 DEF DbFault, Lossless, Allowance
<1>3. PICK r \in Supervisors, k \in Loops : h = <<r, k>> /\ h[1] = r
  BY DEF Handlers
<1>4. phase[r] # "down" /\ lock = r /\ ~cancelled[r]
  BY <1>1, <1>3 DEF OwnInv, Owned
<1>5. \A g \in Handlers : hnd'[g].pc # "finfail"
  <2> SUFFICES ASSUME NEW g \in Handlers, hnd'[g].pc = "finfail" PROVE FALSE
    OBVIOUS
  <2>1. hnd'[g] # hnd[g]
    BY DEF Owned
  <2>2. g = h
    BY <1>1, <2>1 DEF PcStep
  <2> QED
    BY <1>1, <1>2, <2>1, <2>2 DEF Checks, Owned
<1>6. hnd[h].pc \in OpenPcs /\ hnd'[h].pc \notin OpenPcs => Fails(h) \/ Succeeds(h)
  BY <1>1, <1>2, <1>3, <1>4 DEF Checks
<1>7. hnd[h].pc \in OpenPcs /\ hnd'[h].pc \in OpenPcs => hnd'[h].inst = hnd[h].inst
  BY <1>1 DEF PcStep, IdleHandler, OpenPcs
<1>8. ASSUME NEW s \in Supervisors, NEW i \in Running', phase[s] \in {"drain", "listening"}
      PROVE  \E l \in Loops : hnd'[<<s, l>>].pc \in OpenPcs /\ hnd'[<<s, l>>].inst = i
  <2>1. s = r
    BY <1>4, <1>8 DEF Owned
  <2>2. CASE i \notin Running
    <3>1. Inserts(h) /\ i = Len(instances) + 1
      BY <1>1, <1>8, <2>2, RunningStep
    <3> QED
      BY <1>3, <2>1, <3>1 DEF Inserts, OpenPcs
  <2>3. CASE i \in Running
    <3>1. PICK l \in Loops : hnd[<<s, l>>].pc \in OpenPcs /\ hnd[<<s, l>>].inst = i
      BY <1>8, <2>3 DEF Owned
    <3>2. CASE l # k
      <4>1. hnd'[<<s, l>>] = hnd[<<s, l>>]
        BY <1>1, <1>3, <2>1, <3>2 DEF PcStep, Handlers
      <4> QED
        BY <3>1, <4>1
    <3>3. CASE l = k
      <4>1. hnd[h].pc \in OpenPcs /\ hnd[h].inst = i
        BY <1>3, <2>1, <3>1, <3>3
      <4>2. ~Fails(h) /\ ~Succeeds(h)
        BY <1>8, <4>1, RunningStep
      <4> QED
        BY <1>3, <1>6, <1>7, <2>1, <4>1, <4>2
    <3> QED
      BY <3>2, <3>3
  <2> QED
    BY <2>2, <2>3
<1> QED
  BY <1>1, <1>5, <1>8 DEF Owned, procVars

\* A process gives nothing away but by ending, and then another one recovers.
LEMMA OwnProcess ==
    ASSUME CoreInv, OwnInv, Owned, Lossless, NEW s \in Supervisors,
           SupervisorStep(s) \/ Disturbance(s)
    PROVE  Owned'
<1>0. /\ TypeOK /\ env \in Allowance /\ phase \in [Supervisors -> Phases]
      /\ lock \in Supervisors \cup {NoSupervisor} /\ connUp \in [Supervisors -> BOOLEAN]
      /\ cancelled \in [Supervisors -> BOOLEAN] /\ NoSupervisor \notin Supervisors
      /\ OpenPcs \cap {"idle", "gate"} = {}
  BY ConstantsAssumption DEF CoreInv, TypeOK, OpenPcs
<1>1. CASE ConnDrop(s) \/ Sigterm(s)
  BY <1>0, <1>1 DEF ConnDrop, Sigterm, Lossless, Allowance
<1>2. CASE NoticeDrop(s) \/ Redial(s)
  BY <1>2 DEF NoticeDrop, Redial, Owned
<1>3. CASE connectAndLock(s)
  <2>1. /\ lock = NoSupervisor /\ lock' = s /\ phase' = [phase EXCEPT ![s] = "recover"]
        /\ connUp' = [connUp EXCEPT ![s] = TRUE] /\ cancelled' = [cancelled EXCEPT ![s] = FALSE]
        /\ UNCHANGED <<instances, hnd>>
    BY <1>3 DEF connectAndLock, dbVars
  <2>2. \A r \in Supervisors : phase[r] = "down"
    BY <1>0, <2>1 DEF Owned
  <2>3. /\ \A r \in Supervisors : r # s => phase'[r] = "down"
        /\ phase'[s] = "recover" /\ connUp'[s] /\ ~cancelled'[s]
    BY <1>0, <2>1, <2>2
  <2> QED
    BY <2>1, <2>3 DEF Owned
<1>4. CASE RecoverStaleRunning(s)
  <2>1. Running' = {}
    BY <1>4, ProcessShape DEF RecoverStaleRunning, Recovers, Running
  <2>2. /\ phase[s] # "down" /\ phase' = [phase EXCEPT ![s] = "drain"]
        /\ UNCHANGED <<lock, connUp, cancelled, hnd>>
    BY <1>4 DEF RecoverStaleRunning
  <2> QED
    BY <1>0, <2>1, <2>2 DEF Owned
<1>5. CASE BeginListen(s)
  <2>1. /\ phase[s] = "drain" /\ phase' = [phase EXCEPT ![s] = "listening"]
        /\ UNCHANGED <<lock, connUp, cancelled, hnd, instances>>
    BY <1>5 DEF BeginListen, dbVars
  <2>2. Running' = Running
    BY <2>1 DEF Running
  <2> QED
    BY <1>0, <2>1, <2>2 DEF Owned
<1>6. CASE PollSelect(s) \/ Reload(s)
  <2>1. UNCHANGED <<lock, phase, connUp, cancelled, hnd, instances>>
    BY <1>6 DEF PollSelect, Reload, CacheReload, dbVars, procVars
  <2>2. Running' = Running
    BY <2>1 DEF Running
  <2> QED
    BY <2>1, <2>2 DEF Owned
<1>7. ASSUME NEW l \in Loops, NEW e, Idle(s, l), Dispatch(s, l, e),
             UNCHANGED <<lock, phase, connUp, cancelled, instances>>
      PROVE  Owned'
  <2>1. \A h \in Handlers : hnd'[h] = hnd[h] \/ (h = <<s, l>> /\ hnd'[h].pc = "gate")
    BY <1>0, <1>7, DispatchFresh
  <2>2. \A r \in Supervisors, m \in Loops :
           <<r, m>> \in Handlers /\ (hnd[<<r, m>>].pc \in OpenPcs => hnd'[<<r, m>>] = hnd[<<r, m>>])
    BY <1>0, <1>7, <2>1 DEF Handlers, Idle
  <2>3. Running' = Running
    BY <1>7 DEF Running
  <2> QED
    BY <1>7, <2>1, <2>2, <2>3 DEF Owned
<1>8. CASE ListenOne(s)
  BY <1>7, <1>8 DEF ListenOne, Loops, dbVars, procVars
<1>9. CASE PollOne(s)
  BY <1>7, <1>9 DEF PollOne, Loops, dbVars, procVars
<1>10. CASE Exit(s) \/ Crash(s)
  <2>1. Gone(s) /\ phase[s] # "down"
    BY <1>10 DEF Exit, Crash
  <2>2. \A r \in Supervisors : r # s => phase[r] = "down"
    BY <2>1 DEF Owned
  <2>3. \A r \in Supervisors : phase'[r] = "down"
    BY <1>0, <2>1, <2>2 DEF Gone
  <2>4. \A h \in Handlers : hnd'[h].pc # "finfail"
    BY <1>0, <2>1, GoneStep DEF Owned, IdleHandler
  <2> QED
    BY <2>3, <2>4 DEF Owned
<1> QED
  BY <1>1, <1>2, <1>3, <1>4, <1>5, <1>6, <1>8, <1>9, <1>10 DEF SupervisorStep, Disturbance

\* A busy handler belongs to a process that is up.
LEMMA BusyIsUp ==
    ASSUME CoreInv, \A h \in Handlers : Busy(h) => phase[h[1]] # "down", [Next]_vars
    PROVE  \A h \in Handlers : Busy(h)' => phase'[h[1]] # "down"
<1>0. /\ TypeOK /\ phase \in [Supervisors -> Phases] /\ \A h \in Handlers : h[1] \in Supervisors
  BY HandlerProcess DEF CoreInv, TypeOK
<1>a. ASSUME \A h \in Handlers : Busy(h)' => Busy(h),
             \A s \in Supervisors : phase'[s] = "down" => phase[s] = "down"
      PROVE  \A h \in Handlers : Busy(h)' => phase'[h[1]] # "down"
  BY <1>0, <1>a
<1>1. CASE Writers
  BY <1>1, <1>a, WriterShape DEF Busy, procVars
<1>2. CASE \E h \in Handlers : HandlerStep(h) \/ FirePause(h)
  <2>1. \A h \in Handlers : Busy(h)' => Busy(h)
    BY <1>2, HandlerShape DEF PcStep, Busy
  <2> QED
    BY <1>2, <1>a, <2>1, HandlerShape DEF procVars
<1>3. CASE PauseElapses \/ SpendAges \/ UNCHANGED vars
  BY <1>3, <1>a, TimeShape DEF Busy, procVars
<1>4. ASSUME NEW s \in Supervisors, SupervisorStep(s) \/ Disturbance(s)
      PROVE  \A h \in Handlers : Busy(h)' => phase'[h[1]] # "down"
  <2>1. CASE \/ connectAndLock(s) \/ RecoverStaleRunning(s) \/ BeginListen(s) \/ NoticeDrop(s)
             \/ Redial(s) \/ PollSelect(s) \/ ConnDrop(s) \/ Sigterm(s) \/ Reload(s)
    <3>1. UNCHANGED hnd
      BY <2>1 DEF connectAndLock, RecoverStaleRunning, BeginListen, NoticeDrop, Redial,
                  PollSelect, ConnDrop, Sigterm, Reload, CacheReload
    <3>2. UNCHANGED phase \/ \E p \in Phases \ {"down"} : phase' = [phase EXCEPT ![s] = p]
      BY <2>1 DEF connectAndLock, RecoverStaleRunning, BeginListen, NoticeDrop, Redial,
                  PollSelect, ConnDrop, Sigterm, Reload, CacheReload, procVars, Phases
    <3> QED
      BY <1>0, <1>a, <3>1, <3>2 DEF Busy
  <2>2. ASSUME NEW l \in Loops, NEW e, Dispatch(s, l, e), phase[s] # "down", UNCHANGED phase
        PROVE  \A h \in Handlers : Busy(h)' => phase'[h[1]] # "down"
    <3>1. \A h \in Handlers : hnd'[h] = hnd[h] \/ h[1] = s
      BY <1>0, <2>2, DispatchFresh
    <3> QED
      BY <2>2, <3>1 DEF Busy
  <2>3. CASE ListenOne(s)
    BY <2>2, <2>3 DEF ListenOne, Loops, procVars
  <2>4. CASE PollOne(s)
    BY <2>2, <2>4 DEF PollOne, Loops, procVars
  <2>5. CASE Exit(s) \/ Crash(s)
    <3>1. Gone(s)
      BY <2>5 DEF Exit, Crash
    <3>2. \A h \in Handlers : hnd'[h] = IF h[1] = s THEN IdleHandler ELSE hnd[h]
      BY <1>0, <3>1, GoneStep
    <3>3. \A r \in Supervisors : r # s => phase'[r] = phase[r]
      BY <1>0, <3>1 DEF Gone
    <3> QED
      BY <1>0, <3>2, <3>3 DEF Busy, IdleHandler
  <2> QED
    BY <1>4, <2>1, <2>3, <2>4, <2>5 DEF SupervisorStep, Disturbance
<1> QED
  BY <1>1, <1>2, <1>3, <1>4 DEF Next

\* While nothing is lost, every running row keeps its handler.
LEMMA OwnInvStep == CoreInv /\ ExitInv /\ OwnInv /\ [Next]_vars => OwnInv'
<1> SUFFICES ASSUME CoreInv, ExitInv, OwnInv, [Next]_vars PROVE OwnInv'
  OBVIOUS
<1>1. EnvInv' /\ (Unspent' => Unspent /\ Lossless)
  BY LossStep DEF OwnInv
<1>2. \A h \in Handlers : Busy(h)' => phase'[h[1]] # "down"
  BY BusyIsUp DEF OwnInv
<1>3. ASSUME Unspent' PROVE Owned'
  <2>1. Owned /\ Lossless
    BY <1>1, <1>3 DEF OwnInv, Owned
  <2>2. CASE Writers
    BY <2>1, <2>2, WriterShape DEF Owned, Running, procVars
  <2>3. CASE \E s \in Supervisors : SupervisorStep(s) \/ Disturbance(s)
    BY <2>1, <2>3, OwnProcess
  <2>4. CASE \E h \in Handlers : HandlerStep(h) \/ FirePause(h)
    BY <2>1, <2>4, OwnHandler
  <2>5. CASE PauseElapses \/ SpendAges \/ UNCHANGED vars
    <3>1. UNCHANGED <<lock, phase, connUp, cancelled, hnd, instances>>
      BY <2>5, TimeShape DEF procVars
    <3>2. Running' = Running
      BY <3>1 DEF Running
    <3> QED
      BY <2>1, <3>1, <3>2 DEF Owned
  <2> QED
    BY <2>2, <2>3, <2>4, <2>5 DEF Next
<1> QED
  BY <1>1, <1>2, <1>3 DEF OwnInv, Owned

\* Recovery flips every row a crashed process left behind, and every handler writes
\* its outcome before it returns: as long as no write, connection or signal was in
\* the way, a supervisor past recovery owns every row that says "running".
THEOREM RunningRowsOwnedHolds == Spec => []RunningRowsOwned
<1>1. Init => OwnInv
  <2> SUFFICES ASSUME Init PROVE OwnInv
    OBVIOUS
  <2>1. /\ DOMAIN instances = {} /\ \A h \in Handlers : hnd[h].pc = "idle"
        /\ \A s \in Supervisors : phase[s] = "down"
    BY DEF Init, IdleHandler
  <2>2. EnvInv
    BY ConstantsAssumption DEF Init, EnvInv
  <2> QED
    BY <2>1, <2>2 DEF OwnInv, Owned, Busy, Running
<1>2. OwnInv => RunningRowsOwned
  BY DEF OwnInv, Owned, Unspent, RunningRowsOwned
<1> QED
  BY <1>1, <1>2, DiaryInit, ReferencesHold, DiaryStep, OwnInvStep, PTL DEF Spec

-------------------------------------------------------------------------------
(* Checks that reserve nothing: the cap and the budget *)

\* Somebody leaves, or what is counted shrinks.
LEMMA RoomLeave ==
    ASSUME NEW n \in Nat, NEW m \in Nat, NEW limit \in Nat, NEW est \in Nat, NEW step \in Nat,
           NEW C, NEW D, Room(n, limit, est, step, C), m <= n, D \subseteq C
    PROVE  Room(m, limit, est, step, D)
  BY DEF Room

\* Somebody passes the check.
LEMMA RoomEnter ==
    ASSUME NEW n \in Nat, NEW limit \in Nat, NEW est \in Nat, NEW step \in Nat, NEW C, NEW D,
           NEW h, Room(n, limit, est, step, C), limit # 0, n + est <= limit, D \subseteq C \cup {h}
    PROVE  Room(n, limit, est, step, D)
  BY DEF Room

\* One of at most two takes what it has left room for.
LEMMA RoomUse ==
    ASSUME NEW n \in Nat, NEW m \in Nat, NEW limit \in Nat, NEW est \in Nat, NEW step \in Nat,
           NEW C, NEW D, NEW h \in C,
           Room(n, limit, est, step, C), D \subseteq C \ {h}, m <= n + step,
           \A f, g \in C : f = g \/ f = h \/ g = h
    PROVE  Room(m, limit, est, step, D)
<1>1. limit # 0 /\ n + est <= limit + step /\ m + est <= limit + step + step
  <2>1. limit # 0 /\ n + est <= limit + step
    BY DEF Room
  <2> QED
    BY <2>1
<1>2. ASSUME NEW g \in D PROVE m + est <= limit + step
  <2>1. g \in C /\ g # h
    BY <1>2
  <2>2. n + est <= limit
    BY <2>1 DEF Room
  <2> QED
    BY <2>2
<1>3. \A f, g \in D : f = g
  OBVIOUS
<1> QED
  BY <1>1, <1>2, <1>3 DEF Room

\* One process has two loops.
LEMMA TwoAtWork ==
    ASSUME NoLockLoss, SafeInv, NEW f \in Handlers, NEW g \in Handlers, NEW h \in Handlers,
           Busy(f), Busy(g), Busy(h)
    PROVE  f = g \/ f = h \/ g = h
<1>1. OneSupervisor
  BY LockAdmitsOne DEF SafeInv
<1>2. \A k \in Handlers : k = <<k[1], k[2]>> /\ k[1] \in Supervisors /\ k[2] \in {"listen", "poll"}
  BY DEF Handlers, Loops
<1>3. f[1] = g[1] /\ g[1] = h[1]
  <2>1. phase[f[1]] # "down" /\ phase[g[1]] # "down" /\ phase[h[1]] # "down"
    BY DEF SafeInv, FlightInv
  <2> QED
    BY <1>1, <1>2, <2>1 DEF OneSupervisor
<1>4. f[2] = g[2] \/ f[2] = h[2] \/ g[2] = h[2]
  BY <1>2
<1> QED
  BY <1>2, <1>3, <1>4

\* Whoever is past a check is busy.
LEMMA PastIsBusy ==
    ASSUME NEW pcs, pcs \in {CapPcs, UnbilledPcs}, NEW h \in At(pcs)
    PROVE  h \in Handlers /\ Busy(h)
  BY DEF At, CapPcs, UnbilledPcs, OpenPcs, Busy

\* The rows that say "running" are finitely many.
LEMMA RunningFinite ==
    ASSUME instances \in Seq(InstanceRow)
    PROVE  IsFiniteSet(Running) /\ Cardinality(Running) \in Nat
<1>1. IsFiniteSet(1 .. Len(instances))
  BY FS_Interval
<1>2. Running \subseteq 1 .. Len(instances)
  BY DEF Running
<1>3. IsFiniteSet(Running)
  BY <1>1, <1>2, FS_Subset
<1> QED
  BY <1>3, FS_CardinalityType

\* A step that starts no run: the handlers that were past the cap check may go on,
\* and one may pass it.
LEMMA CapShrinks ==
    ASSUME CoreInv, CapInv, Running' \subseteq Running,
           \/ At(CapPcs)' \subseteq At(CapPcs)
           \/ CheckCap /\ \E h \in Handlers : At(CapPcs)' \subseteq At(CapPcs) \cup {h}
    PROVE  CapInv'
<1>1. IsFiniteSet(Running) /\ Cardinality(Running) \in Nat /\ Cap \in Nat
  BY RunningFinite, ConstantsAssumption DEF CoreInv, TypeOK
<1>2. Cardinality(Running') \in Nat /\ Cardinality(Running') <= Cardinality(Running)
  BY <1>1, FS_Subset, FS_CardinalityType
<1>3. Room(Cardinality(Running), Cap, 1, 1, At(CapPcs)')
  <2>1. CASE At(CapPcs)' \subseteq At(CapPcs)
    <3>1. Cardinality(Running) <= Cardinality(Running)
      BY <1>1
    <3> QED
      BY <1>1, <2>1, <3>1, RoomLeave DEF CapInv
  <2>2. CASE CheckCap /\ \E h \in Handlers : At(CapPcs)' \subseteq At(CapPcs) \cup {h}
    <3>1. Cardinality(Running) < Cap
      BY <2>2 DEF CheckCap
    <3>2. Cap # 0 /\ Cardinality(Running) + 1 <= Cap
      BY <1>1, <3>1
    <3> QED
      BY <1>1, <2>2, <3>2, RoomEnter DEF CapInv
  <2> QED
    BY <2>1, <2>2
<1>4. Room(Cardinality(Running'), Cap, 1, 1, At(CapPcs)')
  BY <1>1, <1>2, <1>3, RoomLeave
<1> QED
  BY <1>4 DEF CapInv

\* Loops that are idle or at the gate are past no check.
LEMMA FreshAt ==
    ASSUME Fresh, NEW pcs, pcs \in {CapPcs, UnbilledPcs} PROVE At(pcs)' \subseteq At(pcs)
<1>1. "idle" \notin pcs /\ "gate" \notin pcs
  BY DEF CapPcs, UnbilledPcs, OpenPcs
<1> QED
  BY <1>1 DEF Fresh, At

\* A handler inserts its row only if it passed the gate under the cap, and there is one other loop.
LEMMA CapHandler ==
    ASSUME NoLockLoss, SafeInv, ExitInv, CapInv,
           NEW h \in Handlers, HandlerStep(h) \/ FirePause(h)
    PROVE  CapInv'
<1>0. CoreInv
  BY DEF SafeInv
<1>1. /\ PcStep(h) /\ Busy(h) /\ Checks(h)
      /\ Silent \/ Inserts(h) \/ Diarises(h) \/ Fails(h) \/ Succeeds(h)
  BY <1>0, HandlerShape, HandlerChecks
<1>2. \A g \in Handlers : g # h => hnd'[g] = hnd[g]
  BY <1>1 DEF PcStep
<1>3. CASE Inserts(h)
  <2>1. h \in At(CapPcs) /\ At(CapPcs)' \subseteq At(CapPcs) \ {h}
    BY <1>2, <1>3 DEF Inserts, At, CapPcs
  <2>2. \A f, g \in At(CapPcs) : f = g \/ f = h \/ g = h
    BY <1>1, PastIsBusy, TwoAtWork
  <2>3. /\ IsFiniteSet(Running) /\ Cardinality(Running) \in Nat /\ Cap \in Nat
    BY <1>0, RunningFinite, ConstantsAssumption DEF CoreInv, TypeOK
  <2>4. /\ Running' = Running \cup {Len(instances) + 1} /\ Len(instances) + 1 \notin Running
    <3>1. instances \in Seq(InstanceRow)
      BY <1>0 DEF CoreInv, TypeOK
    <3> QED
      BY <1>0, <1>3, <3>1, RunningStep DEF Running
  <2>5. Cardinality(Running') = Cardinality(Running) + 1
    BY <2>3, <2>4, FS_AddElement
  <2>6. Room(Cardinality(Running) + 1, Cap, 1, 1, At(CapPcs)')
    <3>1. Cardinality(Running) + 1 \in Nat /\ Cardinality(Running) + 1 <= Cardinality(Running) + 1
      BY <2>3
    <3> QED
      BY <2>1, <2>2, <2>3, <3>1, RoomUse DEF CapInv
  <2> QED
    BY <2>5, <2>6 DEF CapInv
<1>4. CASE ~Inserts(h)
  <2>1. Running' \subseteq Running
    BY <1>0, <1>1, <1>4, RunningStep
  <2>2. CASE hnd'[h].pc = "screen" /\ hnd[h].pc # "screen"
    <3>1. CheckCap
      BY <1>1, <2>2 DEF Checks
    <3>2. At(CapPcs)' \subseteq At(CapPcs) \cup {h}
      BY <1>2 DEF At
    <3> QED
      BY <1>0, <2>1, <3>1, <3>2, CapShrinks
  <2>3. CASE ~(hnd'[h].pc = "screen" /\ hnd[h].pc # "screen")
    <3>1. hnd'[h].pc \in CapPcs => hnd[h].pc \in CapPcs
      BY <1>1, <2>3 DEF PcStep, Moves, IdleHandler, CapPcs
    <3>2. At(CapPcs)' \subseteq At(CapPcs)
      BY <1>2, <3>1 DEF At
    <3> QED
      BY <1>0, <2>1, <3>2, CapShrinks
  <2> QED
    BY <2>2, <2>3
<1> QED
  BY <1>3, <1>4

\* Only handlers of the process that holds the lock insert running rows.
LEMMA CapInvStep ==
    ASSUME NoLockLoss PROVE SafeInv /\ ExitInv /\ CapInv /\ [Next]_vars => CapInv'
<1> SUFFICES ASSUME SafeInv, ExitInv, CapInv, [Next]_vars PROVE CapInv'
  OBVIOUS
<1>0. CoreInv
  BY DEF SafeInv
<1>a. ASSUME Fresh, UNCHANGED instances \/ Recovers PROVE CapInv'
  <2>1. Running' \subseteq Running
    BY <1>a DEF Running, Recovers
  <2> QED
    BY <1>0, <1>a, <2>1, FreshAt, CapShrinks
<1>1. CASE Writers
  BY <1>0, <1>1, <1>a, WriterShape DEF Fresh
<1>2. CASE \E s \in Supervisors : SupervisorStep(s) \/ Disturbance(s)
  BY <1>0, <1>2, <1>a, ProcessShape
<1>3. CASE \E h \in Handlers : HandlerStep(h) \/ FirePause(h)
  BY <1>0, <1>3, CapHandler
<1>4. CASE PauseElapses \/ SpendAges \/ UNCHANGED vars
  BY <1>0, <1>4, <1>a, TimeShape DEF Fresh
<1> QED
  BY <1>1, <1>2, <1>3, <1>4 DEF Next

\* A handler spends only where it has room, once for each time it was let through.
LEMMA BudgetHandler ==
    ASSUME NoLockLoss, SafeInv, HasBudget, BudgetInv,
           NEW h \in Handlers, HandlerStep(h) \/ FirePause(h)
    PROVE  BudgetInv'
<1>0. /\ CoreInv /\ spend \in Nat
      /\ Budget \in Nat /\ Estimate \in Nat /\ SessionCost \in Nat
  BY ConstantsAssumption DEF SafeInv, CoreInv, TypeOK
<1>1. /\ PcStep(h) /\ Busy(h) /\ Checks(h)
      /\ Silent \/ Inserts(h) \/ Diarises(h) \/ Fails(h) \/ Succeeds(h)
  BY <1>0, HandlerShape, HandlerChecks
<1>2. \A g \in Handlers : g # h => hnd'[g] = hnd[g]
  BY <1>1 DEF PcStep
<1>3. CASE UNCHANGED spend
  <2>1. CASE hnd'[h].pc = "insert" /\ hnd[h].pc # "insert"
    <3>1. Budget # 0 /\ spend + Estimate <= Budget
      BY <1>0, <1>1, <2>1 DEF Checks, ThrottleAllows
    <3>2. At(UnbilledPcs)' \subseteq At(UnbilledPcs) \cup {h}
      BY <1>2 DEF At
    <3>3. Room(spend, Budget, Estimate, SessionCost, At(UnbilledPcs)')
      BY <1>0, <3>1, <3>2, RoomEnter DEF BudgetInv
    <3> QED
      BY <1>3, <3>3 DEF BudgetInv
  <2>2. CASE ~(hnd'[h].pc = "insert" /\ hnd[h].pc # "insert")
    <3>1. hnd'[h].pc \in UnbilledPcs => hnd[h].pc \in UnbilledPcs
      BY <1>1, <2>2 DEF PcStep, Moves, IdleHandler, UnbilledPcs, OpenPcs
    <3>2. At(UnbilledPcs)' \subseteq At(UnbilledPcs)
      BY <1>2, <3>1 DEF At
    <3>3. Room(spend, Budget, Estimate, SessionCost, At(UnbilledPcs)')
      BY <1>0, <3>2, RoomLeave DEF BudgetInv
    <3> QED
      BY <1>3, <3>3 DEF BudgetInv
  <2> QED
    BY <2>1, <2>2
<1>4. CASE ~(UNCHANGED spend)
  <2>1. Bill /\ ((Fails(h) /\ hnd[h].pc = "closing") \/ Succeeds(h))
    BY <1>1, <1>4 DEF Silent, Inserts, Diarises, Fails, Succeeds
  <2>1a. spend' \in Nat /\ spend' <= spend + SessionCost
    BY <1>0, <2>1 DEF Bill
  <2>2. hnd[h].pc \in UnbilledPcs /\ hnd'[h].pc \notin UnbilledPcs
    BY <2>1 DEF Fails, Succeeds, UnbilledPcs, OpenPcs
  <2>3. h \in At(UnbilledPcs) /\ At(UnbilledPcs)' \subseteq At(UnbilledPcs) \ {h}
    BY <1>2, <2>2 DEF At
  <2>4. \A f, g \in At(UnbilledPcs) : f = g \/ f = h \/ g = h
    BY <1>1, PastIsBusy, TwoAtWork
  <2>5. Room(spend', Budget, Estimate, SessionCost, At(UnbilledPcs)')
    BY <1>0, <2>1a, <2>3, <2>4, RoomUse DEF BudgetInv
  <2> QED
    BY <2>5 DEF BudgetInv
<1> QED
  BY <1>3, <1>4

\* Only handlers of the process that holds the lock spend.
LEMMA BudgetInvStep ==
    ASSUME NoLockLoss PROVE SafeInv /\ BudgetInv /\ [Next]_vars => BudgetInv'
<1> SUFFICES ASSUME SafeInv, HasBudget, BudgetInv, [Next]_vars PROVE BudgetInv'
  BY DEF BudgetInv
<1>0. /\ CoreInv /\ spend \in Nat
      /\ Budget \in Nat /\ Estimate \in Nat /\ SessionCost \in Nat
  BY ConstantsAssumption DEF SafeInv, CoreInv, TypeOK
<1>a. ASSUME Fresh, spend' \in Nat, spend' <= spend PROVE BudgetInv'
  <2>1. At(UnbilledPcs)' \subseteq At(UnbilledPcs)
    BY <1>a, FreshAt
  <2>2. Room(spend', Budget, Estimate, SessionCost, At(UnbilledPcs)')
    BY <1>0, <1>a, <2>1, RoomLeave DEF BudgetInv
  <2> QED
    BY <2>2 DEF BudgetInv
<1>1. CASE Writers
  BY <1>0, <1>1, <1>a, WriterShape DEF Fresh
<1>2. CASE \E s \in Supervisors : SupervisorStep(s) \/ Disturbance(s)
  BY <1>0, <1>2, <1>a, ProcessShape
<1>3. CASE \E h \in Handlers : HandlerStep(h) \/ FirePause(h)
  BY <1>3, BudgetHandler
<1>4. CASE PauseElapses \/ SpendAges \/ UNCHANGED vars
  BY <1>0, <1>4, <1>a, TimeShape DEF Fresh
<1> QED
  BY <1>1, <1>2, <1>3, <1>4 DEF Next

\* Nobody is past a check at first, and nothing is counted.
LEMMA RoomInit == Init => CapInv /\ BudgetInv
<1> SUFFICES ASSUME Init PROVE CapInv /\ BudgetInv
  OBVIOUS
<1>1. DOMAIN instances = {} /\ spend = 0 /\ \A h \in Handlers : hnd[h].pc = "idle"
  BY DEF Init, IdleHandler
<1>2. At(CapPcs) = {} /\ At(UnbilledPcs) = {} /\ Running = {}
  BY <1>1 DEF At, CapPcs, UnbilledPcs, OpenPcs, Running
<1>3. Cardinality(Running) = 0
  BY <1>2, FS_EmptySet
<1> QED
  BY <1>1, <1>2, <1>3, ConstantsAssumption DEF CapInv, BudgetInv, Room

\* CheckCap and the INSERT are two transactions, so both dispatch loops may take the
\* last place, whatever the cap is: the department runs one session above it, never
\* two, and none at all when the cap is zero.
THEOREM CapBoundHolds == ASSUME NoLockLoss PROVE Spec => []CapBound
<1>1. SafeInv /\ [Next]_vars => SafeInv'
  BY SafeInvStep
<1>2. SafeInv /\ ExitInv /\ CapInv /\ [Next]_vars => CapInv'
  BY CapInvStep
<1>3. SafeInv => CoreInv
  BY DEF SafeInv
<1>4. Init => ExitInv /\ DiaryInv
  BY DiaryInit
<1>5. CoreInv /\ CapInv => CapBound
  <2> SUFFICES ASSUME CoreInv, CapInv PROVE CapBound
    OBVIOUS
  <2>1. Cardinality(Running) \in Nat /\ Cap \in Nat
    BY RunningFinite, ConstantsAssumption DEF CoreInv, TypeOK
  <2> QED
    BY <2>1 DEF CapInv, Room, CapBound
<1> QED
  BY <1>1, <1>2, <1>3, <1>4, <1>5, SafeInvInit, RoomInit, DiaryStep, PTL DEF Spec

\* The budget gate adds one flat estimate to what was billed and reserves nothing:
\* whatever the budget, the estimate and the cost of a session are, what is spent goes
\* beyond the budget by at most two sessions less one estimate, and a zero budget is
\* never spent from.
THEOREM BudgetOvershootHolds == ASSUME NoLockLoss PROVE Spec => []BudgetOvershoot
<1>1. SafeInv /\ [Next]_vars => SafeInv'
  BY SafeInvStep
<1>2. SafeInv /\ BudgetInv /\ [Next]_vars => BudgetInv'
  BY BudgetInvStep
<1>3. SafeInv /\ BudgetInv => BudgetOvershoot
  <2> SUFFICES ASSUME SafeInv, BudgetInv PROVE BudgetOvershoot
    OBVIOUS
  <2>1. spend \in Nat /\ {Budget, Estimate, SessionCost} \subseteq Nat
    BY ConstantsAssumption DEF SafeInv, CoreInv, TypeOK
  <2> QED
    BY <2>1 DEF BudgetInv, Room, BudgetOvershoot
<1> QED
  BY <1>1, <1>2, <1>3, SafeInvInit, RoomInit, PTL DEF Spec

===============================================================================
