--------------------------- MODULE EventSpawnSafety ---------------------------
(***************************************************************************)
(* One supervisor, one handler per event, one effect per event: for any    *)
(* number of processes as long as no LISTEN connection is lost, and for    *)
(* one process whatever it loses.  (With two processes and a lost          *)
(* connection they fail: the advisory lock is not taken again.)            *)
(***************************************************************************)
EXTENDS EventSpawnProofs

\* The condition under which the lock stays with the process that took it.
NoLockLoss == MaxDrops = 0 \/ \A s, r \in Supervisors : s = r

\* A process that is up holds the lock.
LockInv ==
    MaxDrops = 0 => /\ env.drops = 0
                    /\ \A s \in Supervisors : phase[s] # "down" => lock = s

\* What a handler works on is in its process's in-flight table, once.
FlightInv ==
    /\ \A h \in Handlers : Busy(h) => phase[h[1]] # "down" /\ hnd[h].ev \in inFlight[h[1]]
    /\ \A g, h \in Handlers :
          Busy(g) /\ Busy(h) /\ g[1] = h[1] /\ hnd[g].ev = hnd[h].ev => g = h

\* From the row lock to the terminal write.
ClaimPcs == {"screen", "insert"} \cup OpenPcs

\* A claimed event is unprocessed; an event that took effect is processed.
SettleInv ==
    /\ \A h \in Handlers : hnd[h].pc \in ClaimPcs => ~outbox[hnd[h].ev].processed
    /\ \A i \in DOMAIN history :
          history[i].ev # 0 => /\ history[i].ev \in DOMAIN outbox
                               /\ outbox[history[i].ev].processed
    /\ OneEffectPerEvent

SafeInv == CoreInv /\ LockInv /\ FlightInv /\ SettleInv

-------------------------------------------------------------------------------
(* What the parts give together *)

\* The lock admits one process.
LEMMA LockAdmitsOne ==
    ASSUME NoLockLoss, LockInv PROVE OneSupervisor
<1>1. CASE MaxDrops = 0
  BY <1>1 DEF LockInv, OneSupervisor
<1>2. CASE \A s, r \in Supervisors : s = r
  BY <1>2 DEF OneSupervisor
<1> QED
  BY <1>1, <1>2 DEF NoLockLoss

\* With one process, its in-flight table separates the handlers of all.
LEMMA FlightSeparates ==
    ASSUME NoLockLoss, LockInv, FlightInv PROVE OneHandlerPerEvent
<1> SUFFICES ASSUME NEW g \in Handlers, NEW h \in Handlers,
                    Busy(g), Busy(h), hnd[g].ev = hnd[h].ev
             PROVE  g = h
  BY DEF OneHandlerPerEvent
<1>1. g[1] \in Supervisors /\ h[1] \in Supervisors
  BY HandlerProcess
<1>2. phase[g[1]] # "down" /\ phase[h[1]] # "down"
  BY DEF FlightInv
<1>3. g[1] = h[1]
  BY <1>1, <1>2, LockAdmitsOne DEF OneSupervisor
<1> QED
  BY <1>3 DEF FlightInv

-------------------------------------------------------------------------------
(* The in-flight table *)

\* Handlers and table as they were, nobody new is down.
LEMMA FlightSame ==
    ASSUME FlightInv, UNCHANGED <<hnd, inFlight>>,
           \A s \in Supervisors : phase'[s] = "down" => phase[s] = "down"
    PROVE  FlightInv'
  BY HandlerProcess DEF FlightInv, Busy

\* A handler goes on with its event.
LEMMA FlightMove ==
    ASSUME FlightInv, NEW h \in Handlers, Busy(h), hnd'[h].ev = hnd[h].ev,
           \A g \in Handlers : g # h => hnd'[g] = hnd[g], UNCHANGED <<inFlight, phase>>
    PROVE  FlightInv'
<1>1. \A g \in Handlers : Busy(g)' => Busy(g) /\ hnd'[g].ev = hnd[g].ev
  BY DEF Busy
<1> QED
  BY <1>1 DEF FlightInv

\* A handler returns; Dispatch deletes its event, which is nobody else's.
LEMMA FlightReturn ==
    ASSUME CoreInv, FlightInv, NEW h \in Handlers, Busy(h), Return(h), UNCHANGED phase
    PROVE  FlightInv'
<1>1. /\ hnd'[h] = IdleHandler /\ \A g \in Handlers : g # h => hnd'[g] = hnd[g]
  BY ReturnStep DEF CoreInv
<1>2. inFlight' = [inFlight EXCEPT ![h[1]] = @ \ {hnd[h].ev}]
  BY DEF Return
<1>3. inFlight \in [Supervisors -> SUBSET Nat] /\ \A g \in Handlers : g[1] \in Supervisors
  BY HandlerProcess DEF CoreInv, TypeOK
<1>4. \A g \in Handlers : Busy(g)' => g # h /\ Busy(g) /\ hnd'[g].ev = hnd[g].ev
  BY <1>1 DEF Busy, IdleHandler
<1>5. ASSUME NEW g \in Handlers, Busy(g)'
      PROVE  phase'[g[1]] # "down" /\ hnd'[g].ev \in inFlight'[g[1]]
  <2>1. g # h /\ Busy(g) /\ hnd'[g].ev = hnd[g].ev
    BY <1>4, <1>5
  <2>2. phase[g[1]] # "down" /\ hnd[g].ev \in inFlight[g[1]]
    BY <2>1 DEF FlightInv
  <2>3. g[1] = h[1] => hnd[g].ev # hnd[h].ev
    BY <2>1 DEF FlightInv
  <2> QED
    BY <1>2, <1>3, <2>1, <2>2, <2>3
<1> QED
  BY <1>4, <1>5 DEF FlightInv

\* Dispatch lets an event in once.
LEMMA FlightDispatch ==
    ASSUME CoreInv, FlightInv, NEW s \in Supervisors, NEW l \in Loops, NEW e \in Nat,
           Dispatch(s, l, e), phase[s] # "down", UNCHANGED phase
    PROVE  FlightInv'
<1>0. /\ hnd \in [Handlers -> HandlerRow] /\ inFlight \in [Supervisors -> SUBSET Nat]
      /\ <<s, l>> \in Handlers /\ <<s, l>>[1] = s
      /\ \A g \in Handlers : g[1] \in Supervisors
  BY HandlerProcess DEF CoreInv, TypeOK, Handlers
<1>1. CASE UNCHANGED <<inFlight, hnd>>
  BY <1>1, FlightSame
<1>2. CASE ~(UNCHANGED <<inFlight, hnd>>)
  <2> DEFINE r == [IdleHandler EXCEPT !.pc = "gate", !.ev = e]
             k == <<s, l>>
  <2>1. /\ e \notin inFlight[s]
        /\ inFlight' = [inFlight EXCEPT ![s] = @ \cup {e}]
        /\ hnd' = [hnd EXCEPT ![k] = r]
    BY <1>2 DEF Dispatch
  <2>2. r \in HandlerRow /\ r.ev = e
    BY DEF IdleHandler, HandlerRow, Pcs, Statuses
  <2>3. k \in Handlers /\ k[1] = s
    BY <1>0
  <2> HIDE DEF r, k
  <2>4. hnd'[k].ev = e /\ \A g \in Handlers : g # k => hnd'[g] = hnd[g]
    BY <1>0, <2>1, <2>2, <2>3
  <2>5. ASSUME NEW g \in Handlers, Busy(g)', g # k
        PROVE  /\ Busy(g) /\ hnd'[g].ev = hnd[g].ev /\ phase[g[1]] # "down"
               /\ hnd[g].ev \in inFlight[g[1]]
    BY <2>4, <2>5 DEF FlightInv, Busy
  <2>6. \A g \in Handlers : Busy(g)' => phase'[g[1]] # "down" /\ hnd'[g].ev \in inFlight'[g[1]]
    <3> TAKE g \in Handlers
    <3> HAVE Busy(g)'
    <3>1. CASE g = k
      BY <1>0, <2>1, <2>3, <2>4, <3>1
    <3>2. CASE g # k
      BY <1>0, <2>1, <2>5, <3>2
    <3> QED
      BY <3>1, <3>2
  <2>7. \A g \in Handlers : Busy(g)' /\ g # k /\ g[1] = s => hnd'[g].ev # e
    BY <2>1, <2>5
  <2>8. ASSUME NEW g \in Handlers, NEW h \in Handlers, Busy(g)', Busy(h)', g[1] = h[1],
               hnd'[g].ev = hnd'[h].ev
        PROVE  g = h
    <3>1. CASE g = k \/ h = k
      BY <2>3, <2>4, <2>7, <2>8, <3>1
    <3>2. CASE g # k /\ h # k
      BY <2>5, <2>8, <3>2 DEF FlightInv
    <3> QED
      BY <3>1, <3>2
  <2> QED
    BY <2>6, <2>8 DEF FlightInv
<1> QED
  BY <1>1, <1>2

\* A process that is gone has no handlers left.
LEMMA FlightGone ==
    ASSUME CoreInv, FlightInv, NEW s \in Supervisors, Gone(s)
    PROVE  FlightInv'
<1>1. \A h \in Handlers : hnd'[h] = IF h[1] = s THEN IdleHandler ELSE hnd[h]
  BY GoneStep DEF CoreInv
<1>2. \A h \in Handlers : Busy(h)' => h[1] # s /\ Busy(h) /\ hnd'[h] = hnd[h]
  BY <1>1 DEF Busy, IdleHandler
<1>3. \A r \in Supervisors : r # s => phase'[r] = phase[r] /\ inFlight'[r] = inFlight[r]
  BY DEF Gone, CoreInv, TypeOK
<1> QED
  BY <1>2, <1>3, HandlerProcess DEF FlightInv

-------------------------------------------------------------------------------
(* Marks and effects *)

\* A claimed event is somebody's event.
LEMMA ClaimIsBusy ==
    ASSUME NEW h \in Handlers, hnd[h].pc \in ClaimPcs PROVE Busy(h)
  BY DEF ClaimPcs, OpenPcs, Busy

\* No mark and no effect: handlers go on, give up, or claim an unprocessed event.
LEMMA SettleQuiet ==
    ASSUME CoreInv, SettleInv, OutboxExtends, UNCHANGED history,
           \A e \in DOMAIN outbox : outbox'[e].processed = outbox[e].processed,
           \A h \in Handlers :
              hnd'[h].pc \in ClaimPcs =>
                 \/ hnd[h].pc \in ClaimPcs /\ hnd'[h].ev = hnd[h].ev
                 \/ hnd'[h].ev \in DOMAIN outbox /\ ~outbox[hnd'[h].ev].processed
    PROVE  SettleInv'
<1>1. ASSUME NEW h \in Handlers, hnd'[h].pc \in ClaimPcs
      PROVE  ~outbox'[hnd'[h].ev].processed
  <2>1. CASE hnd[h].pc \in ClaimPcs /\ hnd'[h].ev = hnd[h].ev
    <3>1. hnd[h].ev \in DOMAIN outbox /\ ~outbox[hnd[h].ev].processed
      BY <2>1, ClaimIsBusy DEF CoreInv, RefInv, SettleInv
    <3> QED
      BY <2>1, <3>1
  <2>2. CASE hnd'[h].ev \in DOMAIN outbox /\ ~outbox[hnd'[h].ev].processed
    BY <2>2
  <2> QED
    BY <1>1, <2>1, <2>2
<1>2. \A i \in DOMAIN history' :
         history'[i].ev # 0 => history'[i].ev \in DOMAIN outbox' /\ outbox'[history'[i].ev].processed
  BY DEF SettleInv, OutboxExtends
<1>3. OneEffectPerEvent'
  BY DEF SettleInv, OneEffectPerEvent
<1> QED
  BY <1>1, <1>2, <1>3 DEF SettleInv

\* A mark, alone or with its effect: the handler's claim kept the event unprocessed,
\* so it has taken no effect yet, and nobody else has claimed it.
LEMMA SettleMark ==
    ASSUME NoLockLoss, SafeInv, NEW h \in Handlers, hnd[h].pc \in ClaimPcs,
           hnd'[h].pc \notin ClaimPcs, \A g \in Handlers : g # h => hnd'[g] = hnd[g],
           DOMAIN outbox \subseteq DOMAIN outbox',
           \A e \in DOMAIN outbox :
              outbox'[e].processed = (outbox[e].processed \/ e = hnd[h].ev),
           UNCHANGED history \/ \E x \in TransitionRow : /\ x.ev = hnd[h].ev
                                                         /\ history' = Append(history, x)
    PROVE  SettleInv'
<1>0. /\ CoreInv /\ LockInv /\ FlightInv /\ SettleInv /\ OneHandlerPerEvent
      /\ Busy(h) /\ hnd[h].ev \in DOMAIN outbox /\ ~outbox[hnd[h].ev].processed
      /\ history \in Seq(TransitionRow)
  BY FlightSeparates, ClaimIsBusy DEF SafeInv, CoreInv, RefInv, SettleInv, TypeOK
<1>1. ASSUME NEW g \in Handlers, hnd'[g].pc \in ClaimPcs
      PROVE  ~outbox'[hnd'[g].ev].processed
  <2>1. g # h /\ hnd'[g] = hnd[g]
    BY <1>1
  <2>2. Busy(g) /\ hnd[g].ev \in DOMAIN outbox /\ ~outbox[hnd[g].ev].processed
    BY <1>0, <1>1, <2>1, ClaimIsBusy DEF CoreInv, RefInv, SettleInv
  <2>3. hnd[g].ev # hnd[h].ev
    BY <1>0, <2>1, <2>2 DEF OneHandlerPerEvent
  <2> QED
    BY <2>1, <2>2, <2>3
<1>2. \A i \in DOMAIN history :
         history[i].ev # 0 => /\ history[i].ev \in DOMAIN outbox'
                              /\ outbox'[history[i].ev].processed
                              /\ history[i].ev # hnd[h].ev
  BY <1>0 DEF SettleInv
<1>3. hnd[h].ev \in DOMAIN outbox' /\ outbox'[hnd[h].ev].processed
  BY <1>0
<1>4. CASE UNCHANGED history
  <2>1. OneEffectPerEvent'
    BY <1>0, <1>4 DEF SettleInv, OneEffectPerEvent
  <2> QED
    BY <1>1, <1>2, <1>4, <2>1 DEF SettleInv
<1>5. CASE \E x \in TransitionRow : x.ev = hnd[h].ev /\ history' = Append(history, x)
  <2> PICK x \in TransitionRow : x.ev = hnd[h].ev /\ history' = Append(history, x)
    BY <1>5
  <2> DEFINE n == Len(history) + 1
  <2>1. /\ DOMAIN history' = DOMAIN history \cup {n} /\ n \notin DOMAIN history
        /\ history'[n] = x /\ \A i \in DOMAIN history : history'[i] = history[i]
    BY <1>0
  <2> HIDE DEF n
  <2>2. \A i \in DOMAIN history' :
           history'[i].ev # 0 => history'[i].ev \in DOMAIN outbox' /\ outbox'[history'[i].ev].processed
    BY <1>2, <1>3, <2>1
  <2>3. OneEffectPerEvent'
    BY <1>0, <1>2, <2>1 DEF SettleInv, OneEffectPerEvent
  <2> QED
    BY <1>1, <2>2, <2>3 DEF SettleInv
<1> QED
  BY <1>4, <1>5

\* A writer's rows are new, and its move is nobody's effect.
LEMMA SettleWriter ==
    ASSUME CoreInv, SettleInv, OutboxExtends, UNCHANGED hnd,
           \A e \in DOMAIN outbox : outbox'[e] = outbox[e],
           UNCHANGED history \/ \E x \in TransitionRow : x.ev = 0 /\ history' = Append(history, x)
    PROVE  SettleInv'
<1>0. history \in Seq(TransitionRow)
  BY DEF CoreInv, TypeOK
<1>1. CASE UNCHANGED history
  BY <1>1, SettleQuiet
<1>2. CASE \E x \in TransitionRow : x.ev = 0 /\ history' = Append(history, x)
  <2> PICK x \in TransitionRow : x.ev = 0 /\ history' = Append(history, x)
    BY <1>2
  <2> DEFINE n == Len(history) + 1
  <2>1. /\ DOMAIN history' = DOMAIN history \cup {n} /\ n \notin DOMAIN history
        /\ history'[n].ev = 0 /\ \A i \in DOMAIN history : history'[i] = history[i]
    BY <1>0
  <2> HIDE DEF n
  <2>2. \A i \in DOMAIN history' :
           history'[i].ev # 0 => history'[i].ev \in DOMAIN outbox' /\ outbox'[history'[i].ev].processed
    BY <2>1 DEF SettleInv, OutboxExtends
  <2>3. OneEffectPerEvent'
    BY <2>1 DEF SettleInv, OneEffectPerEvent
  <2>4. \A h \in Handlers : hnd'[h].pc \in ClaimPcs => ~outbox'[hnd'[h].ev].processed
    BY ClaimIsBusy DEF SettleInv, CoreInv, RefInv
  <2> QED
    BY <2>2, <2>3, <2>4 DEF SettleInv
<1> QED
  BY <1>1, <1>2

-------------------------------------------------------------------------------
(* One lemma per group of actions *)

\* A database fault uses up a fault, not a drop.
LEMMA FaultKeepsDrops ==
    ASSUME env \in Allowance, UNCHANGED env \/ DbFault PROVE env'.drops = env.drops
  BY DEF DbFault, Allowance

\* A handler touches neither the lock nor the phase of its process.
LEMMA HandlerKeepsLock ==
    ASSUME CoreInv, LockInv, UNCHANGED procVars, UNCHANGED env \/ DbFault PROVE LockInv'
  BY FaultKeepsDrops DEF CoreInv, TypeOK, LockInv, procVars

\* A handler returns without a mark.
LEMMA SafeReturn ==
    ASSUME SafeInv, NEW h \in Handlers, Busy(h), Return(h), UNCHANGED <<dbVars, procVars>>,
           UNCHANGED env \/ DbFault
    PROVE  LockInv' /\ FlightInv' /\ SettleInv'
<1>1. LockInv'
  BY HandlerKeepsLock DEF SafeInv
<1>2. FlightInv'
  BY FlightReturn DEF SafeInv, procVars
<1>3. /\ hnd'[h] = IdleHandler /\ \A g \in Handlers : g # h => hnd'[g] = hnd[g]
  BY ReturnStep DEF SafeInv, CoreInv
<1>4. hnd'[h].pc \notin ClaimPcs
  BY <1>3 DEF IdleHandler, ClaimPcs, OpenPcs
<1>5. SettleInv'
  BY <1>3, <1>4, SettleQuiet, OutboxSame DEF SafeInv, CoreInv, dbVars
<1> QED
  BY <1>1, <1>2, <1>5

\* A handler moves on without a mark; it claims its event only if that is unprocessed.
LEMMA SafeMove ==
    ASSUME SafeInv, NEW h \in Handlers, Busy(h), hnd'[h].ev = hnd[h].ev,
           \A g \in Handlers : g # h => hnd'[g] = hnd[g],
           hnd'[h].pc \in ClaimPcs => hnd[h].pc \in ClaimPcs \/ ~outbox[hnd[h].ev].processed,
           UNCHANGED <<outbox, history, procVars, inFlight>>, UNCHANGED env \/ DbFault
    PROVE  LockInv' /\ FlightInv' /\ SettleInv'
<1>1. LockInv'
  BY HandlerKeepsLock DEF SafeInv
<1>2. FlightInv'
  BY FlightMove DEF SafeInv, procVars
<1>3. hnd[h].ev \in DOMAIN outbox
  BY DEF SafeInv, CoreInv, RefInv
<1>4. SettleInv'
  BY <1>3, SettleQuiet, OutboxSame DEF SafeInv, CoreInv
<1> QED
  BY <1>1, <1>2, <1>4

\* The transaction of a successful run marks its event and appends its effect.
LEMMA SafeSucceed ==
    ASSUME NoLockLoss, SafeInv, NEW h \in Handlers, hnd[h].pc \in ClaimPcs, Succeed(h),
           hnd'[h].pc \notin ClaimPcs, \A g \in Handlers : g # h => hnd'[g] = hnd[g]
    PROVE  SettleInv'
<1> DEFINE e == hnd[h].ev
           x == TransitionOf(e, hnd[h].inst, outbox[e].ticket, ColumnsOf(e)[1], ColumnsOf(e)[2])
<1>1. Busy(h) /\ CoreInv
  BY ClaimIsBusy DEF SafeInv
<1>2. x.ev = e
  BY DEF TransitionOf
<1>3. history' = Append(history, x)
  BY DEF Succeed, ColumnsOf
<1>4. x \in TransitionRow
  <2>1. /\ e \in DOMAIN outbox /\ outbox \in Seq(EventRow) /\ hnd[h] \in HandlerRow
        /\ outbox[e] \in EventRow
    BY <1>1 DEF CoreInv, RefInv, TypeOK
  <2>2. outbox[e].ticket \in Tickets /\ e \in Nat /\ hnd[h].inst \in Nat
    BY <2>1 DEF EventRow, HandlerRow
  <2> QED
    BY <2>2, ColumnsOfTransition DEF ColumnsOf, TransitionOf, TransitionRow
<1> HIDE DEF x
<1>5. /\ DOMAIN outbox \subseteq DOMAIN outbox'
      /\ \A f \in DOMAIN outbox : outbox'[f].processed = (outbox[f].processed \/ f = e)
  BY <1>1, SucceedOutbox
<1> QED
  BY <1>2, <1>3, <1>4, <1>5, SettleMark

\* The terminal transaction of a failed run marks its event.
LEMMA SafeFail ==
    ASSUME NoLockLoss, SafeInv, NEW h \in Handlers, hnd[h].pc \in ClaimPcs,
           outbox' = MarkEventProcessed(outbox, hnd[h].ev), UNCHANGED history,
           hnd'[h].pc \notin ClaimPcs, \A g \in Handlers : g # h => hnd'[g] = hnd[g]
    PROVE  SettleInv'
<1>1. outbox \in Seq(EventRow)
  BY DEF SafeInv, CoreInv, TypeOK
<1>2. /\ DOMAIN outbox \subseteq DOMAIN outbox'
      /\ \A f \in DOMAIN outbox : outbox'[f].processed = (outbox[f].processed \/ f = hnd[h].ev)
  BY <1>1, MarkRows, MarkExtends DEF SafeInv, CoreInv
<1> QED
  BY <1>2, SettleMark

\* The steps of a handler.
LEMMA HandlerSafe ==
    ASSUME NoLockLoss, SafeInv, NEW h \in Handlers, HandlerStep(h) \/ FirePause(h)
    PROVE  LockInv' /\ FlightInv' /\ SettleInv'
<1>0. /\ CoreInv /\ TypeOK /\ LockInv /\ FlightInv /\ hnd \in [Handlers -> HandlerRow]
      /\ "idle" \notin ClaimPcs /\ "tail" \notin ClaimPcs /\ "finfail" \notin ClaimPcs
      /\ IdleHandler.pc = "idle"
  BY DEF SafeInv, CoreInv, TypeOK, ClaimPcs, OpenPcs, IdleHandler
<1> USE <1>0
<1>a. ASSUME Fault(h[1]) PROVE UNCHANGED env \/ DbFault
  BY <1>a DEF Fault
<1>1. CASE GateDefer(h)
  BY <1>1, SafeReturn DEF GateDefer, Busy
<1>2. CASE ScreenDefer(h)
  BY <1>2, SafeReturn DEF ScreenDefer, Busy
<1>3. CASE SessionTail(h)
  BY <1>3, SafeReturn DEF SessionTail, Busy
<1>4. CASE WriteTerminalLost(h)
  BY <1>4, SafeReturn DEF WriteTerminalLost, Busy
<1>5. CASE InsertAbort(h)
  BY <1>5, <1>a, SafeReturn DEF InsertAbort, Busy
<1>6. CASE SetupFailLost(h)
  BY <1>6, <1>a, SafeReturn DEF SetupFailLost, Busy
<1>7. CASE ScreenPass(h)
  <2>1. Goto(h, "insert") /\ Busy(h) /\ (hnd[h].pc \in ClaimPcs \/ "insert" \notin ClaimPcs)
    BY <1>7 DEF ScreenPass, Busy, ClaimPcs, OpenPcs
  <2> QED
    BY <1>7, <2>1, GotoStep, SafeMove DEF ScreenPass, Pcs, dbVars
<1>8. CASE SessionStart(h)
  <2>1. Goto(h, "running") /\ Busy(h) /\ (hnd[h].pc \in ClaimPcs \/ "running" \notin ClaimPcs)
    BY <1>8 DEF SessionStart, Busy, ClaimPcs, OpenPcs
  <2> QED
    BY <1>8, <2>1, GotoStep, SafeMove DEF SessionStart, Pcs, dbVars
<1>9. CASE FinalizeOK(h)
  <2>1. Goto(h, "palace") /\ Busy(h) /\ (hnd[h].pc \in ClaimPcs \/ "palace" \notin ClaimPcs)
    BY <1>9 DEF FinalizeOK, Busy, ClaimPcs, OpenPcs
  <2> QED
    BY <1>9, <2>1, GotoStep, SafeMove DEF FinalizeOK, Pcs, dbVars
<1>10. CASE FinalizeFault(h)
  <2>1. Goto(h, "finfail") /\ Busy(h) /\ (hnd[h].pc \in ClaimPcs \/ "finfail" \notin ClaimPcs)
    BY <1>10 DEF FinalizeFault, Busy, ClaimPcs, OpenPcs
  <2> QED
    BY <1>10, <2>1, GotoStep, SafeMove DEF FinalizeFault, Pcs, dbVars
<1>11. CASE AddDrawer(h)
  <2>1. Goto(h, "tx") /\ Busy(h) /\ (hnd[h].pc \in ClaimPcs \/ "tx" \notin ClaimPcs)
    BY <1>11 DEF AddDrawer, Busy, ClaimPcs, OpenPcs
  <2> QED
    BY <1>11, <2>1, GotoStep, SafeMove DEF AddDrawer, Pcs, dbVars
<1>12. CASE WriteFinalizeFailure(h)
  <2>1. Goto(h, "tail") /\ Busy(h) /\ (hnd[h].pc \in ClaimPcs \/ "tail" \notin ClaimPcs)
    BY <1>12 DEF WriteFinalizeFailure, Busy, ClaimPcs, OpenPcs
  <2> QED
    BY <1>12, <2>1, GotoStep, SafeMove DEF WriteFinalizeFailure, Pcs, dbVars
<1>13. CASE GatePass(h)
  <2>1. Busy(h) /\ ~outbox[hnd[h].ev].processed
    BY <1>13 DEF GatePass, GateOpen, Busy
  <2> QED
    BY <1>13, <2>1, GateStep, SafeMove DEF GatePass, dbVars
<1>14. CASE \E exit \in Statuses : SessionEnd(h, exit)
  <2> PICK exit \in Statuses : SessionEnd(h, exit)
    BY <1>14
  <2> DEFINE r == [hnd[h] EXCEPT !.pc = "closing", !.exit = exit]
  <2>1. /\ hnd[h] \in HandlerRow /\ hnd' = [hnd EXCEPT ![h] = r]
        /\ Busy(h) /\ hnd[h].pc \in ClaimPcs
    BY DEF SessionEnd, Busy, ClaimPcs, OpenPcs
  <2>2. r \in HandlerRow /\ r.ev = hnd[h].ev
    BY <2>1 DEF HandlerRow, Pcs
  <2> HIDE DEF r
  <2> QED
    BY <2>1, <2>2, HandlerSet, SafeMove DEF SessionEnd, dbVars
<1>15. CASE InsertRunningInstance(h)
  <2> DEFINE r == [hnd[h] EXCEPT !.pc = "setup", !.inst = Len(instances) + 1]
  <2>1. /\ hnd[h] \in HandlerRow /\ hnd' = [hnd EXCEPT ![h] = r]
        /\ Busy(h) /\ hnd[h].pc \in ClaimPcs
        /\ instances \in Seq(InstanceRow)
    BY <1>15 DEF InsertRunningInstance, Busy, ClaimPcs, TypeOK
  <2>2. Len(instances) + 1 \in Nat
    BY <2>1
  <2>3. r \in HandlerRow /\ r.ev = hnd[h].ev
    BY <2>1, <2>2 DEF HandlerRow, Pcs
  <2> HIDE DEF r
  <2> QED
    BY <1>15, <2>1, <2>3, HandlerSet, SafeMove DEF InsertRunningInstance
<1>16. CASE SetupFail(h)
  <2>1. Busy(h) /\ Return(h) /\ hnd[h].pc \in ClaimPcs
    BY <1>16 DEF SetupFail, Busy, ClaimPcs, OpenPcs
  <2>2. LockInv' /\ FlightInv'
    BY <1>16, <2>1, HandlerKeepsLock, FlightReturn DEF SetupFail, procVars
  <2>3. SettleInv'
    BY <1>16, <2>1, ReturnStep, SafeFail DEF SetupFail
  <2> QED
    BY <2>2, <2>3
<1>17. CASE WriteTerminal(h)
  <2>1. Busy(h) /\ Return(h) /\ hnd[h].pc \in ClaimPcs
    BY <1>17 DEF WriteTerminal, Busy, ClaimPcs, OpenPcs
  <2>2. LockInv' /\ FlightInv'
    BY <1>17, <2>1, HandlerKeepsLock, FlightReturn DEF WriteTerminal, procVars
  <2>3. CASE hnd[h].exit = "succeeded"
    <3>1. Succeed(h)
      BY <1>17, <2>3 DEF WriteTerminal
    <3> QED
      BY <2>1, <2>2, <3>1, ReturnStep, SafeSucceed
  <2>4. CASE hnd[h].exit # "succeeded"
    <3>1. outbox' = MarkEventProcessed(outbox, hnd[h].ev) /\ UNCHANGED history
      BY <1>17, <2>4 DEF WriteTerminal
    <3> QED
      BY <2>1, <2>2, <3>1, ReturnStep, SafeFail
  <2> QED
    BY <2>3, <2>4
<1>18. CASE CommitFinalize(h)
  <2>1. Goto(h, "tail") /\ Busy(h) /\ Succeed(h) /\ hnd[h].pc \in ClaimPcs
    BY <1>18 DEF CommitFinalize, Busy, ClaimPcs, OpenPcs
  <2>2. /\ hnd'[h].pc = "tail" /\ hnd'[h].ev = hnd[h].ev
        /\ \A g \in Handlers : g # h => hnd'[g] = hnd[g]
    BY <2>1, GotoStep DEF Pcs
  <2>3. LockInv' /\ FlightInv'
    BY <1>18, <2>1, <2>2, HandlerKeepsLock, FlightMove DEF CommitFinalize, procVars
  <2>4. SettleInv'
    BY <2>1, <2>2, SafeSucceed
  <2> QED
    BY <2>3, <2>4
<1>19. CASE CommitUnknown(h)
  <2>1. Goto(h, "finfail") /\ Busy(h) /\ Succeed(h) /\ hnd[h].pc \in ClaimPcs
    BY <1>19 DEF CommitUnknown, Busy, ClaimPcs, OpenPcs
  <2>2. /\ hnd'[h].pc = "finfail" /\ hnd'[h].ev = hnd[h].ev
        /\ \A g \in Handlers : g # h => hnd'[g] = hnd[g]
    BY <2>1, GotoStep DEF Pcs
  <2>3. LockInv' /\ FlightInv'
    BY <1>19, <2>1, <2>2, HandlerKeepsLock, FlightMove DEF CommitUnknown, procVars
  <2>4. SettleInv'
    BY <2>1, <2>2, SafeSucceed
  <2> QED
    BY <2>3, <2>4
<1>20. CASE FirePause(h)
  <2>1. UNCHANGED <<outbox, history, procVars, inFlight, hnd, env>>
    BY <1>20 DEF FirePause
  <2>2. LockInv' /\ FlightInv'
    BY <2>1, HandlerKeepsLock, FlightSame DEF procVars
  <2>3. SettleInv'
    BY <2>1, SettleQuiet, OutboxSame DEF SafeInv
  <2> QED
    BY <2>2, <2>3
<1> QED
  BY <1>1, <1>2, <1>3, <1>4, <1>5, <1>6, <1>7, <1>8, <1>9, <1>10, <1>11,
     <1>12, <1>13, <1>14, <1>15, <1>16, <1>17, <1>18, <1>19, <1>20
     DEF HandlerStep

\* Dispatch claims nothing by itself.
LEMMA DispatchPc ==
    ASSUME TypeOK, NEW s \in Supervisors, NEW l \in Loops, NEW e, Dispatch(s, l, e)
    PROVE  \A h \in Handlers : hnd'[h].pc \in ClaimPcs => hnd'[h] = hnd[h]
<1>1. CASE UNCHANGED hnd
  BY <1>1
<1>2. CASE ~(UNCHANGED hnd)
  <2> DEFINE r == [IdleHandler EXCEPT !.pc = "gate", !.ev = e]
  <2>1. hnd' = [hnd EXCEPT ![<<s, l>>] = r] /\ hnd \in [Handlers -> HandlerRow]
    BY <1>2 DEF Dispatch, TypeOK
  <2>2. r.pc = "gate" /\ "gate" \notin ClaimPcs
    BY DEF IdleHandler, ClaimPcs, OpenPcs
  <2> HIDE DEF r
  <2> QED
    BY <2>1, <2>2
<1> QED
  BY <1>1, <1>2

\* The steps of a process and what disturbs it.
LEMMA SupervisorSafe ==
    ASSUME SafeInv, NEW s \in Supervisors, SupervisorStep(s) \/ Disturbance(s)
    PROVE  LockInv' /\ FlightInv' /\ SettleInv'
<1>0. /\ CoreInv /\ TypeOK /\ LockInv /\ FlightInv /\ SettleInv
      /\ env \in Allowance /\ phase \in [Supervisors -> Phases]
      /\ "idle" \notin ClaimPcs /\ "gate" \notin ClaimPcs
  BY DEF SafeInv, CoreInv, TypeOK, ClaimPcs, OpenPcs
<1> USE <1>0
<1>a. ASSUME UNCHANGED <<outbox, history, hnd>> PROVE SettleInv'
  BY <1>a, SettleQuiet, OutboxSame
<1>1. CASE connectAndLock(s)
  <2>1. LockInv'
    BY <1>1, ConstantsAssumption DEF connectAndLock, LockInv, procVars
  <2>2. FlightInv'
    BY <1>1, FlightSame DEF connectAndLock, procVars
  <2>3. SettleInv'
    BY <1>1, <1>a DEF connectAndLock, dbVars
  <2> QED
    BY <2>1, <2>2, <2>3
<1>2. CASE RecoverStaleRunning(s)
  <2>1. LockInv'
    BY <1>2 DEF RecoverStaleRunning, LockInv, procVars
  <2>2. FlightInv'
    BY <1>2, FlightSame DEF RecoverStaleRunning, procVars
  <2>3. SettleInv'
    BY <1>2, <1>a DEF RecoverStaleRunning, dbVars
  <2> QED
    BY <2>1, <2>2, <2>3
<1>3. CASE BeginListen(s)
  <2>1. LockInv'
    BY <1>3 DEF BeginListen, LockInv, procVars
  <2>2. FlightInv'
    BY <1>3, FlightSame DEF BeginListen, procVars
  <2>3. SettleInv'
    BY <1>3, <1>a DEF BeginListen, dbVars
  <2> QED
    BY <2>1, <2>2, <2>3
<1>4. CASE NoticeDrop(s)
  <2>1. LockInv'
    BY <1>4 DEF NoticeDrop, LockInv, procVars
  <2>2. FlightInv'
    BY <1>4, FlightSame DEF NoticeDrop, procVars
  <2>3. SettleInv'
    BY <1>4, <1>a DEF NoticeDrop, dbVars
  <2> QED
    BY <2>1, <2>2, <2>3
<1>5. CASE Redial(s)
  <2>1. LockInv'
    BY <1>5 DEF Redial, LockInv, procVars
  <2>2. FlightInv'
    BY <1>5, FlightSame DEF Redial, procVars
  <2>3. SettleInv'
    BY <1>5, <1>a DEF Redial, dbVars
  <2> QED
    BY <2>1, <2>2, <2>3
<1>6. CASE PollSelect(s)
  <2>1. LockInv'
    BY <1>6 DEF PollSelect, LockInv, procVars
  <2>2. FlightInv'
    BY <1>6, FlightSame DEF PollSelect, procVars
  <2>3. SettleInv'
    BY <1>6, <1>a DEF PollSelect, dbVars
  <2> QED
    BY <2>1, <2>2, <2>3
<1>7. CASE ConnDrop(s)
  <2>1. LockInv'
    BY <1>7 DEF ConnDrop, LockInv
  <2>2. FlightInv'
    BY <1>7, FlightSame DEF ConnDrop
  <2>3. SettleInv'
    BY <1>7, <1>a DEF ConnDrop, dbVars
  <2> QED
    BY <2>1, <2>2, <2>3
<1>8. CASE Sigterm(s)
  <2>1. env'.drops = env.drops
    BY <1>8 DEF Sigterm, Allowance
  <2>2. LockInv'
    BY <1>8, <2>1 DEF Sigterm, LockInv
  <2>3. FlightInv'
    BY <1>8, FlightSame DEF Sigterm
  <2>4. SettleInv'
    BY <1>8, <1>a DEF Sigterm, dbVars
  <2> QED
    BY <2>2, <2>3, <2>4
<1>13. CASE Reload(s)
  <2> PICK active \in SUBSET Roles : CacheReload(s, active)
    BY <1>13 DEF Reload
  <2>1. env'.drops = env.drops
    BY DEF CacheReload, Allowance
  <2>2. LockInv'
    BY <2>1 DEF CacheReload, LockInv
  <2>3. FlightInv'
    BY FlightSame DEF CacheReload
  <2>4. SettleInv'
    BY <1>a DEF CacheReload, dbVars
  <2> QED
    BY <2>2, <2>3, <2>4
<1>9. CASE Exit(s)
  <2>1. Gone(s) /\ UNCHANGED dbVars /\ env'.drops = env.drops /\ phase[s] # "down"
    BY <1>9 DEF Exit, Allowance
  <2>2. LockInv'
    BY <2>1 DEF Gone, LockInv
  <2>3. FlightInv'
    BY <2>1, FlightGone
  <2>4. \A h \in Handlers : hnd'[h].pc \in ClaimPcs => hnd'[h] = hnd[h]
    BY <2>1, GoneStep DEF IdleHandler
  <2>5. SettleInv'
    BY <2>1, <2>4, SettleQuiet, OutboxSame DEF dbVars
  <2> QED
    BY <2>2, <2>3, <2>5
<1>10. CASE Crash(s)
  <2>1. Gone(s) /\ UNCHANGED dbVars /\ env'.drops = env.drops /\ phase[s] # "down"
    BY <1>10 DEF Crash, Allowance
  <2>2. LockInv'
    BY <2>1 DEF Gone, LockInv
  <2>3. FlightInv'
    BY <2>1, FlightGone
  <2>4. \A h \in Handlers : hnd'[h].pc \in ClaimPcs => hnd'[h] = hnd[h]
    BY <2>1, GoneStep DEF IdleHandler
  <2>5. SettleInv'
    BY <2>1, <2>4, SettleQuiet, OutboxSame DEF dbVars
  <2> QED
    BY <2>2, <2>3, <2>5
<1>11. CASE ListenOne(s)
  <2> DEFINE e == Min(notes[s])
  <2>1. Dispatch(s, "listen", e) /\ UNCHANGED <<dbVars, procVars, env>> /\ phase[s] # "down"
    BY <1>11 DEF ListenOne
  <2>2. e \in Nat
    <3>1. notes[s] \in SUBSET Nat /\ notes[s] # {}
      BY <1>11 DEF ListenOne, TypeOK
    <3> QED
      BY <3>1, MinIn
  <2> HIDE DEF e
  <2>3. LockInv'
    BY <2>1 DEF LockInv, procVars
  <2>4. FlightInv'
    BY <2>1, <2>2, FlightDispatch DEF Loops, procVars
  <2>5. \A h \in Handlers : hnd'[h].pc \in ClaimPcs => hnd'[h] = hnd[h]
    BY <2>1, DispatchPc DEF Loops
  <2>6. SettleInv'
    BY <2>1, <2>5, SettleQuiet, OutboxSame DEF dbVars
  <2> QED
    BY <2>3, <2>4, <2>6
<1>12. CASE PollOne(s)
  <2> DEFINE e == Min(batch[s])
  <2>1. Dispatch(s, "poll", e) /\ UNCHANGED <<dbVars, procVars, env>> /\ phase[s] # "down"
    BY <1>12 DEF PollOne
  <2>2. e \in Nat
    <3>1. batch[s] \in SUBSET Nat /\ batch[s] # {}
      BY <1>12 DEF PollOne, TypeOK
    <3> QED
      BY <3>1, MinIn
  <2> HIDE DEF e
  <2>3. LockInv'
    BY <2>1 DEF LockInv, procVars
  <2>4. FlightInv'
    BY <2>1, <2>2, FlightDispatch DEF Loops, procVars
  <2>5. \A h \in Handlers : hnd'[h].pc \in ClaimPcs => hnd'[h] = hnd[h]
    BY <2>1, DispatchPc DEF Loops
  <2>6. SettleInv'
    BY <2>1, <2>5, SettleQuiet, OutboxSame DEF dbVars
  <2> QED
    BY <2>3, <2>4, <2>6
<1> QED
  BY <1>1, <1>2, <1>3, <1>4, <1>5, <1>6, <1>7, <1>8, <1>9, <1>10, <1>11,
     <1>12, <1>13
     DEF SupervisorStep, Disturbance

\* The dashboard, agents and connectors.
LEMMA WriterSafe ==
    ASSUME SafeInv, Writers
    PROVE  LockInv' /\ FlightInv' /\ SettleInv'
<1>0. /\ CoreInv /\ TypeOK /\ LockInv /\ FlightInv /\ SettleInv /\ env \in Allowance
  BY DEF SafeInv, CoreInv, TypeOK
<1> USE <1>0
<1>1. ASSUME NEW t \in Tickets, NEW col \in {"todo", "in_dev"}, NEW dashboard \in BOOLEAN,
             CreateTicket(t, col, dashboard)
      PROVE  LockInv' /\ FlightInv' /\ SettleInv'
  <2>1. env'.drops = env.drops /\ UNCHANGED <<phase, lock, hnd, inFlight, history>>
    BY <1>1 DEF CreateTicket, Allowance, procVars
  <2>2. /\ CreatedRow(t, col) \in EventRow
        /\ MutationRow(t, <<"mutation", "mutation">>) \in EventRow
    <3>1. /\ col \in Columns /\ <<"created", col>> \in Channels
          /\ <<"mutation", "mutation">> \in Channels
      BY DEF Columns, Channels
    <3> QED
      BY <3>1, RowType DEF CreatedRow, MutationRow
  <2>3. OutboxExtends /\ \A e \in DOMAIN outbox : outbox'[e] = outbox[e]
    BY <1>1, <2>2, AppendExtends DEF CreateTicket
  <2> QED
    BY <2>1, <2>3, FlightSame, SettleWriter DEF LockInv
<1>2. ASSUME NEW t \in Tickets, NEW from \in Columns, NEW to \in Columns, moveTicket(t, from, to)
      PROVE  LockInv' /\ FlightInv' /\ SettleInv'
  <2>1. env'.drops = env.drops /\ UNCHANGED <<phase, lock, hnd, inFlight>>
    BY <1>2 DEF moveTicket, Allowance, procVars
  <2>2. TransitionedRow(t, from, to) \in EventRow /\ MutationRow(t, <<from, to>>) \in EventRow
    <3>1. <<from, to>> \in Channels
      BY DEF Channels
    <3> QED
      BY <3>1, RowType DEF TransitionedRow, MutationRow
  <2>3. OutboxExtends /\ \A e \in DOMAIN outbox : outbox'[e] = outbox[e]
    BY <1>2, <2>2, AppendExtends DEF moveTicket
  <2>4. \E x \in TransitionRow : x.ev = 0 /\ history' = Append(history, x)
    <3>1. /\ TransitionOf(0, 0, t, from, to) \in TransitionRow
          /\ TransitionOf(0, 0, t, from, to).ev = 0
      BY DEF TransitionOf, TransitionRow
    <3> QED
      BY <1>2, <3>1 DEF moveTicket
  <2> QED
    BY <2>1, <2>3, <2>4, FlightSame, SettleWriter DEF LockInv
<1> QED
  BY <1>1, <1>2 DEF Writers

-------------------------------------------------------------------------------
\* The invariant holds at first.
LEMMA SafeInvInit == Init => SafeInv
<1> SUFFICES ASSUME Init PROVE SafeInv
  OBVIOUS
<1>1. \A h \in Handlers : hnd[h].pc = "idle"
  BY DEF Init, IdleHandler
<1>2. LockInv
  BY DEF Init, LockInv
<1>3. FlightInv
  BY <1>1 DEF FlightInv, Busy
<1>4. SettleInv
  <2>1. \A h \in Handlers : hnd[h].pc \notin ClaimPcs
    BY <1>1 DEF ClaimPcs, OpenPcs
  <2>2. DOMAIN history = {}
    BY DEF Init
  <2> QED
    BY <2>1, <2>2 DEF SettleInv, OneEffectPerEvent
<1> QED
  BY <1>2, <1>3, <1>4, CoreInvInit DEF SafeInv

\* Every step keeps it, as long as the lock is not lost.
LEMMA SafeInvStep ==
    ASSUME NoLockLoss PROVE SafeInv /\ [Next]_vars => SafeInv'
<1> SUFFICES ASSUME SafeInv, [Next]_vars PROVE LockInv' /\ FlightInv' /\ SettleInv'
  BY CoreInvStep DEF SafeInv
<1>1. CASE Writers
  BY <1>1, WriterSafe
<1>2. CASE \E s \in Supervisors : SupervisorStep(s) \/ Disturbance(s)
  BY <1>2, SupervisorSafe
<1>3. CASE \E h \in Handlers : HandlerStep(h) \/ FirePause(h)
  BY <1>3, HandlerSafe
<1>4. CASE PauseElapses \/ SpendAges \/ UNCHANGED vars
  <2>1. UNCHANGED <<outbox, history, hnd, inFlight, phase, lock, env>>
    BY <1>4 DEF PauseElapses, SpendAges, vars, dbVars, procVars
  <2> QED
    BY <2>1, FlightSame, SettleQuiet, OutboxSame DEF SafeInv, CoreInv, LockInv
<1> QED
  BY <1>1, <1>2, <1>3, <1>4 DEF Next

\* The three parts hold throughout: lock, in-flight table, marks.
THEOREM SafeInvHolds == ASSUME NoLockLoss PROVE Spec => []SafeInv
<1>1. SafeInv /\ [Next]_vars => SafeInv'
  BY SafeInvStep
<1> QED
  BY <1>1, SafeInvInit, PTL DEF Spec

\* connectAndLock admits one process at a time, through crashes, SIGTERMs and
\* restarts, as long as the connection that carries the lock is not lost.
THEOREM OneSupervisorHolds == ASSUME NoLockLoss PROVE Spec => []OneSupervisor
<1>1. SafeInv => OneSupervisor
  BY LockAdmitsOne DEF SafeInv
<1> QED
  BY <1>1, SafeInvHolds, PTL

\* No two handlers work on the same event, although LISTEN and the poll deliver it
\* independently of each other.
THEOREM OneHandlerPerEventHolds == ASSUME NoLockLoss PROVE Spec => []OneHandlerPerEvent
<1>1. SafeInv => OneHandlerPerEvent
  BY FlightSeparates DEF SafeInv
<1> QED
  BY <1>1, SafeInvHolds, PTL

\* A handler on its way to a terminal write has an unprocessed event.
THEOREM ProcessedMeansSettledHolds == ASSUME NoLockLoss PROVE Spec => []ProcessedMeansSettled
<1>1. SafeInv => ProcessedMeansSettled
  BY DEF SafeInv, SettleInv, ProcessedMeansSettled, ClaimPcs
<1> QED
  BY <1>1, SafeInvHolds, PTL

\* However often an event is delivered, retried after a fault or re-run after a
\* crash, it moves its ticket at most once.
THEOREM OneEffectPerEventHolds == ASSUME NoLockLoss PROVE Spec => []OneEffectPerEvent
<1>1. SafeInv => OneEffectPerEvent
  BY DEF SafeInv, SettleInv
<1> QED
  BY <1>1, SafeInvHolds, PTL

-------------------------------------------------------------------------------
(***************************************************************************)
(* The refinement.  What the supervisors do to event_outbox and            *)
(* ticket_transitions implements WorkOutbox: rows are emitted, and each is *)
(* settled at most once, in the step that gives it its effect or discards  *)
(* it.                                                                     *)
(***************************************************************************)

\* The refinement mapping, by name.
Settled == {e \in DOMAIN outbox : outbox[e].processed}
Effects == [i \in DOMAIN history |-> history[i].ev]

-------------------------------------------------------------------------------
(* The mapping under the steps of the tables *)

\* The effects are a sequence of row numbers.
LEMMA EffectsType ==
    ASSUME history \in Seq(TransitionRow)
    PROVE  Effects \in Seq(Nat) /\ Len(Effects) = Len(history)
<1>1. ASSUME NEW i \in 1 .. Len(history) PROVE history[i].ev \in Nat
  <2>1. history[i] \in TransitionRow
    OBVIOUS
  <2> QED
    BY <2>1 DEF TransitionRow
<1>2. Effects = [i \in 1 .. Len(history) |-> history[i].ev]
  BY DEF Effects
<1>3. Len(history) \in Nat
  OBVIOUS
<1> QED
  BY <1>1, <1>2, <1>3

\* One more transition is one more effect.
LEMMA EffectsAppend ==
    ASSUME history \in Seq(TransitionRow), NEW x \in TransitionRow,
           history' = Append(history, x)
    PROVE  Effects' = Append(Effects, x.ev)
<1> DEFINE n == Len(history)
<1>1. /\ n \in Nat /\ history' \in Seq(TransitionRow) /\ Len(history') = n + 1
      /\ history'[n + 1] = x /\ \A i \in 1 .. n : history'[i] = history[i]
  OBVIOUS
<1>2. Effects' = [i \in 1 .. n + 1 |-> history'[i].ev]
  BY <1>1 DEF Effects
<1>3. Effects = [i \in 1 .. n |-> history[i].ev] /\ Effects \in Seq(Nat) /\ Len(Effects) = n
  BY EffectsType DEF Effects
<1>4. x.ev \in Nat
  BY DEF TransitionRow
<1> HIDE DEF n
<1>5. /\ Append(Effects, x.ev) \in Seq(Nat)
      /\ DOMAIN Append(Effects, x.ev) = 1 .. n + 1
      /\ Append(Effects, x.ev)[n + 1] = x.ev
      /\ \A i \in 1 .. n : Append(Effects, x.ev)[i] = history[i].ev
  BY <1>1, <1>3, <1>4
<1>6. \A i \in 1 .. n + 1 : Append(Effects, x.ev)[i] = history'[i].ev
  BY <1>1, <1>5
<1>7. Append(Effects, x.ev) = [i \in 1 .. n + 1 |-> Append(Effects, x.ev)[i]]
  <2>1. \A q \in Seq(Nat) : q = [i \in DOMAIN q |-> q[i]]
    OBVIOUS
  <2> QED
    BY <1>5, <2>1
<1> QED
  BY <1>2, <1>6, <1>7

\* A marked row joins the settled ones; a row appended is not settled.
LEMMA SettledMark ==
    ASSUME NEW e \in DOMAIN outbox, NEW new, new \cap DOMAIN outbox = {},
           DOMAIN outbox' = DOMAIN outbox \cup new,
           \A f \in new : outbox'[f].processed = FALSE,
           \A f \in DOMAIN outbox : outbox'[f].processed = (outbox[f].processed \/ f = e)
    PROVE  Settled' = Settled \cup {e}
  BY DEF Settled

\* Rows that are only appended leave the settled ones alone.
LEMMA SettledSame ==
    ASSUME NEW new, new \cap DOMAIN outbox = {}, DOMAIN outbox' = DOMAIN outbox \cup new,
           \A f \in new : outbox'[f].processed = FALSE,
           \A f \in DOMAIN outbox : outbox'[f] = outbox[f]
    PROVE  Settled' = Settled
  BY DEF Settled

-------------------------------------------------------------------------------
(* Steps of the tables are steps of the outbox *)

\* The transaction of a successful run is one Apply.
LEMMA SucceedApplies ==
    ASSUME SafeInv, NEW h \in Handlers, hnd[h].pc \in ClaimPcs, Succeed(h)
    PROVE  Outbox!Next
<1> DEFINE e == hnd[h].ev
           x == TransitionOf(e, hnd[h].inst, outbox[e].ticket, ColumnsOf(e)[1], ColumnsOf(e)[2])
<1>1. /\ CoreInv /\ Busy(h) /\ outbox \in Seq(EventRow) /\ history \in Seq(TransitionRow)
      /\ e \in DOMAIN outbox /\ ~outbox[e].processed
  BY ClaimIsBusy DEF SafeInv, CoreInv, TypeOK, RefInv, SettleInv
<1>2. /\ Len(outbox') = Len(outbox) + 1
      /\ DOMAIN outbox' = DOMAIN outbox \cup {Len(outbox) + 1}
      /\ outbox'[Len(outbox) + 1].processed = FALSE
      /\ \A f \in DOMAIN outbox : outbox'[f].processed = (outbox[f].processed \/ f = e)
  BY <1>1, SucceedOutbox
<1>3. /\ e \in 1 .. Len(outbox) /\ e \notin Settled
      /\ {Len(outbox) + 1} \cap DOMAIN outbox = {}
  BY <1>1 DEF Settled
<1>4. Settled' = Settled \cup {e}
  <2>1. PICK new : new = {Len(outbox) + 1}
    OBVIOUS
  <2>2. /\ new \cap DOMAIN outbox = {} /\ DOMAIN outbox' = DOMAIN outbox \cup new
        /\ \A f \in new : outbox'[f].processed = FALSE
    BY ONLY <1>2, <1>3, <2>1
  <2> QED
    BY ONLY <1>1, <1>2, <2>2, SettledMark
<1>5. history' = Append(history, x) /\ x.ev = e
  BY DEF Succeed, ColumnsOf, TransitionOf
<1>6. x \in TransitionRow
  <2>1. outbox[e] \in EventRow /\ hnd[h] \in HandlerRow
    BY <1>1 DEF CoreInv, TypeOK
  <2>2. outbox[e].ticket \in Tickets /\ e \in Nat /\ hnd[h].inst \in Nat
    BY <1>1, <2>1 DEF EventRow, HandlerRow
  <2> QED
    BY <2>2, ColumnsOfTransition DEF ColumnsOf, TransitionOf, TransitionRow
<1> HIDE DEF x
<1>7. Effects' = Append(Effects, e)
  BY <1>1, <1>5, <1>6, EffectsAppend
<1>8. PICK f \in 1 .. Len(outbox) : f = e
  BY <1>3
<1>9. Outbox!Apply(f)
  BY <1>2, <1>3, <1>4, <1>7, <1>8 DEF Outbox!Apply, Settled, Effects
<1> QED
  BY <1>9 DEF Outbox!Next

\* The terminal transaction of any other run is one Discard.
LEMMA MarkDiscards ==
    ASSUME SafeInv, NEW h \in Handlers, hnd[h].pc \in ClaimPcs,
           outbox' = MarkEventProcessed(outbox, hnd[h].ev), UNCHANGED history
    PROVE  Outbox!Next
<1> DEFINE e == hnd[h].ev
<1>1. /\ CoreInv /\ TypeOK /\ outbox \in Seq(EventRow)
      /\ e \in DOMAIN outbox /\ ~outbox[e].processed
  BY ClaimIsBusy DEF SafeInv, CoreInv, TypeOK, RefInv, SettleInv
<1>2. /\ Len(outbox') = Len(outbox) /\ DOMAIN outbox' = DOMAIN outbox
      /\ \A f \in DOMAIN outbox : outbox'[f].processed = (outbox[f].processed \/ f = e)
  BY <1>1, MarkRows, MarkExtends
<1>3. e \in 1 .. Len(outbox) /\ e \notin Settled
  BY <1>1 DEF Settled
<1>4. Settled' = Settled \cup {e}
  BY <1>1, <1>2 DEF Settled
<1>5. PICK f \in 1 .. Len(outbox) : f = e
  BY <1>3
<1>6. Outbox!Discard(f)
  BY <1>2, <1>3, <1>4, <1>5 DEF Outbox!Discard, Settled, Effects
<1> QED
  BY <1>6 DEF Outbox!Next

\* One or two rows that are written and not marked.
LEMMA RowsEmitted ==
    ASSUME outbox \in Seq(EventRow), NEW a \in EventRow, NEW b \in EventRow,
           a.processed = FALSE, b.processed = FALSE,
           outbox' = Append(outbox, a) \/ outbox' = Append(Append(outbox, a), b)
    PROVE  Len(outbox') \in {Len(outbox) + 1, Len(outbox) + 2} /\ Settled' = Settled
<1> DEFINE n == Len(outbox)
<1>1. n \in Nat /\ DOMAIN outbox = 1 .. n
  OBVIOUS
<1>2. CASE outbox' = Append(outbox, a)
  <2>1. /\ Len(outbox') = n + 1 /\ DOMAIN outbox' = (1 .. n) \cup {n + 1}
        /\ outbox'[n + 1] = a /\ \A f \in 1 .. n : outbox'[f] = outbox[f]
    BY <1>1, <1>2
  <2>2. {n + 1} \cap (1 .. n) = {}
    BY <1>1
  <2> QED
    BY <1>1, <2>1, <2>2, SettledSame
<1>3. CASE outbox' = Append(Append(outbox, a), b)
  <2>1. /\ Len(outbox') = n + 2 /\ DOMAIN outbox' = (1 .. n) \cup {n + 1, n + 2}
        /\ outbox'[n + 1] = a /\ outbox'[n + 2] = b
        /\ \A f \in 1 .. n : outbox'[f] = outbox[f]
    BY <1>1, <1>3
  <2>2. {n + 1, n + 2} \cap (1 .. n) = {}
    BY <1>1
  <2> QED
    BY <1>1, <2>1, <2>2, SettledSame
<1> QED
  BY <1>2, <1>3

\* What a writer does is one Emit.
LEMMA WriterEmits ==
    ASSUME SafeInv, Writers
    PROVE  Outbox!Next
<1>0. outbox \in Seq(EventRow) /\ history \in Seq(TransitionRow)
  BY DEF SafeInv, CoreInv, TypeOK
<1>1. ASSUME NEW t \in Tickets, NEW col \in {"todo", "in_dev"}, NEW dashboard \in BOOLEAN,
             CreateTicket(t, col, dashboard)
      PROVE  Outbox!Emit
  <2>1. /\ CreatedRow(t, col) \in EventRow /\ CreatedRow(t, col).processed = FALSE
        /\ MutationRow(t, <<"mutation", "mutation">>) \in EventRow
        /\ MutationRow(t, <<"mutation", "mutation">>).processed = FALSE
    <3>1. /\ col \in Columns /\ <<"created", col>> \in Channels
          /\ <<"mutation", "mutation">> \in Channels
      BY DEF Columns, Channels
    <3>2. /\ CreatedRow(t, col) \in EventRow
          /\ MutationRow(t, <<"mutation", "mutation">>) \in EventRow
      BY <3>1, RowType DEF CreatedRow, MutationRow
    <3> QED
      BY <3>2 DEF CreatedRow, MutationRow, Row
  <2>2. /\ Len(outbox') \in {Len(outbox) + 1, Len(outbox) + 2} /\ Settled' = Settled
    BY <1>0, <1>1, <2>1, RowsEmitted DEF CreateTicket
  <2>3. Effects' = Effects
    BY <1>1 DEF CreateTicket, Effects
  <2> QED
    BY <2>2, <2>3 DEF Outbox!Emit, Settled, Effects
<1>2. ASSUME NEW t \in Tickets, NEW from \in Columns, NEW to \in Columns, moveTicket(t, from, to)
      PROVE  Outbox!Emit
  <2>1. /\ TransitionedRow(t, from, to) \in EventRow /\ MutationRow(t, <<from, to>>) \in EventRow
        /\ TransitionedRow(t, from, to).processed = FALSE
        /\ MutationRow(t, <<from, to>>).processed = FALSE
    <3>1. <<from, to>> \in Channels
      BY DEF Channels
    <3>2. TransitionedRow(t, from, to) \in EventRow /\ MutationRow(t, <<from, to>>) \in EventRow
      BY <3>1, RowType DEF TransitionedRow, MutationRow
    <3> QED
      BY <3>2 DEF TransitionedRow, MutationRow, Row
  <2>2. /\ Len(outbox') \in {Len(outbox) + 1, Len(outbox) + 2} /\ Settled' = Settled
    BY <1>0, <1>2, <2>1, RowsEmitted DEF moveTicket
  <2>3. Effects' = Append(Effects, 0)
    <3>1. /\ TransitionOf(0, 0, t, from, to) \in TransitionRow
          /\ TransitionOf(0, 0, t, from, to).ev = 0
      BY DEF TransitionOf, TransitionRow
    <3>2. history' = Append(history, TransitionOf(0, 0, t, from, to))
      BY <1>2 DEF moveTicket
    <3> QED
      BY <1>0, <3>1, <3>2, EffectsAppend
  <2> QED
    BY <2>2, <2>3 DEF Outbox!Emit, Settled, Effects
<1> QED
  BY <1>1, <1>2 DEF Writers, Outbox!Next

\* A handler applies its event, discards it, or leaves the outbox alone.
LEMMA HandlerRefines ==
    ASSUME SafeInv, NEW h \in Handlers, HandlerStep(h) \/ FirePause(h)
    PROVE  Outbox!Next \/ UNCHANGED <<outbox, history>>
<1>1. CASE SetupFail(h)
  BY <1>1, MarkDiscards DEF SetupFail, ClaimPcs, OpenPcs
<1>2. CASE WriteTerminal(h)
  <2>1. hnd[h].pc \in ClaimPcs
    BY <1>2 DEF WriteTerminal, ClaimPcs, OpenPcs
  <2>2. \/ Succeed(h)
        \/ outbox' = MarkEventProcessed(outbox, hnd[h].ev) /\ UNCHANGED history
    BY <1>2 DEF WriteTerminal
  <2> QED
    BY <2>1, <2>2, SucceedApplies, MarkDiscards
<1>3. CASE CommitFinalize(h) \/ CommitUnknown(h)
  BY <1>3, SucceedApplies DEF CommitFinalize, CommitUnknown, ClaimPcs, OpenPcs
<1>4. CASE \/ GateDefer(h) \/ GatePass(h) \/ ScreenDefer(h) \/ ScreenPass(h) \/ InsertAbort(h)
           \/ SetupFailLost(h) \/ SessionStart(h) \/ FinalizeOK(h)
           \/ (\E exit \in Statuses : SessionEnd(h, exit))
           \/ WriteTerminalLost(h) \/ FinalizeFault(h) \/ SessionTail(h)
  BY <1>4 DEF GateDefer, GatePass, ScreenDefer, ScreenPass, InsertAbort, SetupFailLost,
              SessionStart, FinalizeOK, SessionEnd, WriteTerminalLost, FinalizeFault,
              SessionTail, dbVars
<1>5. CASE InsertRunningInstance(h) \/ AddDrawer(h) \/ WriteFinalizeFailure(h) \/ FirePause(h)
  BY <1>5 DEF InsertRunningInstance, AddDrawer, WriteFinalizeFailure, FirePause
<1> QED
  BY <1>1, <1>2, <1>3, <1>4, <1>5 DEF HandlerStep

\* A process by itself leaves the outbox alone.
LEMMA SupervisorRefines ==
    ASSUME NEW s \in Supervisors, SupervisorStep(s) \/ Disturbance(s)
    PROVE  UNCHANGED <<outbox, history>>
  BY DEF SupervisorStep, Disturbance, connectAndLock, RecoverStaleRunning, BeginListen,
         NoticeDrop, Redial, Exit, ListenOne, PollSelect, PollOne, ConnDrop, Sigterm, Crash,
         Reload, CacheReload, dbVars

-------------------------------------------------------------------------------
\* The initial tables are an empty outbox.
LEMMA RefinesInit == Init => Outbox!Init
<1> SUFFICES ASSUME Init PROVE Outbox!Init
  OBVIOUS
<1>1. outbox = <<>> /\ history = <<>>
  BY DEF Init
<1>2. Len(outbox) = 0 /\ Settled = {} /\ Effects = <<>>
  BY <1>1 DEF Settled, Effects
<1> QED
  BY <1>2 DEF Outbox!Init, Settled, Effects

\* Every step is a step of the outbox or shows nothing of it.
LEMMA RefinesStep == SafeInv /\ [Next]_vars => [Outbox!Next]_(Outbox!vars)
<1> SUFFICES ASSUME SafeInv, [Next]_vars PROVE Outbox!Next \/ UNCHANGED Outbox!vars
  OBVIOUS
<1>0. ASSUME UNCHANGED <<outbox, history>> PROVE UNCHANGED Outbox!vars
  BY <1>0 DEF Outbox!vars
<1>1. CASE Writers
  BY <1>1, WriterEmits
<1>2. CASE \E s \in Supervisors : SupervisorStep(s) \/ Disturbance(s)
  BY <1>0, <1>2, SupervisorRefines
<1>3. CASE \E h \in Handlers : HandlerStep(h) \/ FirePause(h)
  BY <1>0, <1>3, HandlerRefines
<1>4. CASE PauseElapses \/ SpendAges \/ UNCHANGED vars
  BY <1>0, <1>4 DEF PauseElapses, SpendAges, vars, dbVars
<1> QED
  BY <1>1, <1>2, <1>3, <1>4 DEF Next

\* The supervisors implement the outbox they promise: an event is settled at most
\* once, and moves its ticket only in the transaction that settles it.
THEOREM ImplementsOutboxHolds == ASSUME NoLockLoss PROVE Spec => ImplementsOutbox
<1>1. Spec => []SafeInv
  BY SafeInvHolds
<1> QED
  BY <1>1, RefinesInit, RefinesStep, PTL DEF Spec, Outbox!Spec, ImplementsOutbox

===============================================================================
