----------------------------- MODULE FleetProofs -----------------------------
(***************************************************************************)
(* Who the agents are and where they run: the roster and its hires, the    *)
(* fleet of containers at boot, the skill installer and the sessions in a  *)
(* container.  For each of them an inductive invariant that the            *)
(* component's initial state satisfies and each of its steps keeps,        *)
(* whatever the number of agents, events, proposals, crashes and faults.   *)
(* OperationsProofs draws the conclusions.                                 *)
(***************************************************************************)
EXTENDS Roster, AgentFleet, SkillInstall, ContainerExec, FiniteSetTheorems, TLAPS

-----------------------------------------------------------------------------
(* Sessions in a container *)

Session == [pc : {"idle", "config", "exec", "stream", "inspect", "cleanup"},
            pipe : SUBSET {"result", "tail"}, wrote : BOOLEAN, seen : BOOLEAN,
            reading : BOOLEAN, committed : BOOLEAN, code : Codes, hung : BOOLEAN,
            late : BOOLEAN, torn : BOOLEAN, open : BOOLEAN, why : {"none", "bail", "shutdown"}]

\* What an event's session w says about the slot, the process and the event:
\* the result frame it wrote is on its way, was seen, or comes after a bail.
SessOK(e, w) ==
    /\ holder = e => w.pc # "idle" /\ ~w.open
    /\ w.pc # "idle" => holder = e \/ w.open
    /\ w.pc \in {"idle", "config", "exec"} =>
         e \notin claude /\ ~w.wrote /\ ~w.hung /\ ~w.committed /\ w.reading
    /\ w.pc \in {"inspect", "cleanup"} /\ e \in claude => w.late \/ w.torn
    /\ w.late => w.hung
    /\ w.committed => w.seen /\ ~w.reading /\ settled[e] = "completed"
    /\ ~w.reading => w.committed \/ w.why = "bail"
    /\ w.pc \in {"config", "exec", "stream", "inspect"} /\ ~w.committed => settled[e] = "none"
    /\ w.pc = "stream" /\ w.wrote => "result" \in w.pipe \/ w.seen \/ w.why = "bail" \/ w.torn
    /\ w.pc = "inspect" /\ w.wrote /\ ~w.late /\ ~w.torn => w.seen \/ w.why = "bail"
    /\ w.pc = "cleanup" /\ w.wrote /\ ~w.late /\ ~w.torn => settled[e] \notin {"no_result", "spawn_failed"}

SessAll ==
    /\ sess \in [ExecEvents -> Session] /\ claude \subseteq ExecEvents
    /\ \A e \in ExecEvents : SessOK(e, sess[e])

ExecCounts ==
    restarts \in Nat /\ execFaults \in 0..MaxExecFault

ExecRest ==
    /\ holder \in ExecEvents \union {Free}
    /\ boxUp \in BOOLEAN /\ strays \in BOOLEAN
    /\ settled \in [ExecEvents -> Reasons]

ExecInv == ExecRest /\ SessAll /\ ExecCounts

\* ExecInv implies what is checked of the sessions.
LEMMA ExecSafe == ExecInv => ExecTypeOK /\ SessionsAreCounted
<1> SUFFICES ASSUME ExecInv PROVE ExecTypeOK /\ SessionsAreCounted
  OBVIOUS
<1>2. ExecTypeOK
  BY DEF ExecInv, ExecRest, SessAll, ExecCounts, ExecTypeOK, Session
<1>3. OneSupervisedExec /\ ResultIsCounted
  BY DEF ExecInv, SessAll, SessOK, OneSupervisedExec, ResultIsCounted
<1> QED
  BY <1>2, <1>3 DEF SessionsAreCounted

\* The session that is not there.
LEMMA NoSessShape ==
    /\ NoSess \in Session /\ NoSess.pc = "idle" /\ ~NoSess.wrote /\ ~NoSess.hung /\ ~NoSess.committed
    /\ NoSess.reading /\ ~NoSess.late /\ ~NoSess.torn /\ ~NoSess.open
  BY DEF NoSess, Session, Codes

\* The container is up and nobody runs in it.
LEMMA ExecInvInit == ExecInit => ExecInv
<1> SUFFICES ASSUME ExecInit PROVE ExecInv
  OBVIOUS
<1>1. ExecRest
  BY DEF ExecInit, ExecRest, Reasons
<1>2. \A e \in ExecEvents : sess[e] = NoSess /\ holder # e /\ e \notin claude
  BY ExecAssumption DEF ExecInit
<1>3. SessAll
  BY <1>2, NoSessShape DEF ExecInit, SessAll, SessOK
<1>4. ExecCounts
  BY ExecAssumption DEF ExecInit, ExecCounts
<1> QED
  BY <1>1, <1>3, <1>4 DEF ExecInv

\* A step that changes one event's session and leaves the others' alone.
LEMMA OneSession ==
    ASSUME SessAll, NEW e \in ExecEvents, NEW w \in Session, sess' = [sess EXCEPT ![e] = w],
           claude' \subseteq ExecEvents, SessOK(e, w)',
           \A d \in ExecEvents : d # e => /\ holder' = d <=> holder = d
                                          /\ d \in claude' <=> d \in claude
                                          /\ settled'[d] = settled[d]
    PROVE  SessAll' /\ sess'[e] = w /\ \A d \in ExecEvents : d # e => sess'[d] = sess[d]
<1>1. sess' \in [ExecEvents -> Session] /\ sess'[e] = w /\ \A d \in ExecEvents : d # e => sess'[d] = sess[d]
  BY DEF SessAll
<1>2. ASSUME NEW d \in ExecEvents PROVE SessOK(d, sess[d])'
  <2>1. CASE d = e
    BY <1>1, <2>1 DEF SessOK
  <2>2. CASE d # e
    BY <1>1, <2>2 DEF SessAll, SessOK
  <2> QED
    BY <2>1, <2>2
<1> QED
  BY <1>1, <1>2 DEF SessAll

\* Taking the slot, or coming past the gate without it.
LEMMA ExecBegins == ASSUME ExecInv, NEW e \in ExecEvents, TryAcquire(e) \/ PassesOpen(e) PROVE ExecInv'
<1>1. PICK w : /\ sess' = [sess EXCEPT ![e] = w]
               /\ \/ w = [NoSess EXCEPT !.pc = "config"] /\ holder = Free /\ holder' = e
                  \/ w = [NoSess EXCEPT !.pc = "config", !.open = TRUE] /\ holder' = holder
  BY DEF TryAcquire, PassesOpen
<1>2. /\ w \in Session /\ w.pc = "config" /\ ~w.wrote /\ ~w.hung /\ ~w.committed /\ w.reading /\ ~w.late
      /\ IF w.open THEN holder' = holder ELSE holder = Free /\ holder' = e
  <2>1. CASE w = [NoSess EXCEPT !.pc = "config"] /\ holder = Free /\ holder' = e
    BY <2>1, NoSessShape DEF Session
  <2>2. CASE w = [NoSess EXCEPT !.pc = "config", !.open = TRUE] /\ holder' = holder
    BY <2>2, NoSessShape DEF Session
  <2> QED
    BY <1>1, <2>1, <2>2
<1>3. /\ settled[e] = "none" /\ sess[e].pc = "idle"
      /\ UNCHANGED <<claude, strays, restarts, boxUp, settled>> /\ execFaults' \in 0..MaxExecFault
  BY ExecAssumption DEF TryAcquire, PassesOpen, ExecFault, ExecInv, ExecCounts
<1>4. e \notin claude /\ holder # e /\ \A d \in ExecEvents : d # e => (holder' = d <=> holder = d)
  BY <1>2, <1>3, ExecAssumption DEF ExecInv, SessAll, SessOK
<1>5. SessOK(e, w)'
  BY <1>2, <1>3, <1>4 DEF SessOK
<1>6. SessAll'
  BY <1>1, <1>2, <1>3, <1>4, <1>5, OneSession DEF ExecInv, SessAll
<1>7. holder' \in ExecEvents \union {Free}
  BY <1>2 DEF ExecInv, ExecRest
<1> QED
  BY <1>3, <1>6, <1>7 DEF ExecInv, ExecRest, ExecCounts

\* The session ends: its slot is free, its process, if any, is left behind.
LEMMA SessionEnds ==
    ASSUME ExecInv, NEW e \in ExecEvents,
           sess' = [sess EXCEPT ![e] = NoSess], Release(e), claude' = claude \ {e},
           \A d \in ExecEvents : d # e => settled'[d] = settled[d]
    PROVE  SessAll' /\ holder' \in ExecEvents \union {Free}
<1>1. holder' # e /\ holder' \in ExecEvents \union {Free} /\ \A d \in ExecEvents : d # e => (holder' = d <=> holder = d)
  BY ExecAssumption DEF Release, ExecInv, ExecRest
<1>2. SessOK(e, NoSess)'
  BY <1>1, NoSessShape DEF SessOK
<1>3. claude' \subseteq ExecEvents
  BY DEF ExecInv, SessAll
<1>4. SessAll'
  BY <1>1, <1>2, <1>3, NoSessShape, OneSession DEF ExecInv
<1> QED
  BY <1>1, <1>4

\* Writing the MCP config comes before any claude of this session.
LEMMA ExecConfig == ASSUME ExecInv, NEW e \in ExecEvents, WriteContainerMCPConfig(e) PROVE ExecInv'
<1>1. /\ UNCHANGED <<claude, strays, restarts, boxUp>> /\ sess[e].pc = "config" /\ e \notin claude
      /\ sess[e] \in Session /\ execFaults' \in {execFaults, execFaults + 1} /\ execFaults' \in 0..MaxExecFault
  <2>1. UNCHANGED <<claude, strays, restarts, boxUp>> /\ sess[e].pc = "config"
    BY DEF WriteContainerMCPConfig
  <2>2. e \notin claude /\ sess[e] \in Session
    BY <2>1 DEF ExecInv, SessAll, SessOK
  <2>3. execFaults' = execFaults \/ (execFaults' = execFaults + 1 /\ execFaults < MaxExecFault)
    BY DEF WriteContainerMCPConfig, ExecFault
  <2>4. execFaults \in 0..MaxExecFault
    BY DEF ExecInv, ExecCounts
  <2> QED
    BY <2>1, <2>2, <2>3, <2>4, ExecAssumption
<1>2. CASE Goes(e, "exec") /\ UNCHANGED <<holder, settled, execFaults>>
  <2>1. PICK w : w = [sess[e] EXCEPT !.pc = "exec"]
    OBVIOUS
  <2>2. /\ w \in Session /\ w.pc = "exec" /\ w.wrote = sess[e].wrote /\ w.hung = sess[e].hung
        /\ w.committed = sess[e].committed /\ w.reading = sess[e].reading /\ w.late = sess[e].late /\ w.torn = sess[e].torn /\ w.open = sess[e].open
    BY <1>1, <2>1 DEF Session
  <2>3. sess' = [sess EXCEPT ![e] = w]
    BY <1>2, <2>1 DEF Goes
  <2>4. SessOK(e, w)'
    BY <1>1, <1>2, <2>2 DEF ExecInv, SessAll, SessOK
  <2>5. SessAll' /\ \A d \in ExecEvents : d # e => sess'[d] = sess[d]
    BY <1>1, <1>2, <2>2, <2>3, <2>4, OneSession DEF ExecInv, SessAll
  <2>6. ExecCounts'
    BY <1>1, <1>2, <2>5 DEF ExecInv, SessAll, ExecCounts
  <2> QED
    BY <1>1, <1>2, <2>5, <2>6 DEF ExecInv, ExecRest
<1>3. CASE \E retryable \in BOOLEAN : WriteContainerFail(e, retryable)
  <2>1. sess' = [sess EXCEPT ![e] = NoSess] /\ Release(e) /\ claude' = claude \ {e}
        /\ settled' \in [ExecEvents -> Reasons] /\ \A d \in ExecEvents : d # e => settled'[d] = settled[d]
    BY <1>1, <1>3 DEF WriteContainerFail, ExecInv, ExecRest, Reasons
  <2>2. SessAll' /\ holder' \in ExecEvents \union {Free}
    BY <1>1, <2>1, SessionEnds
  <2>3. ExecCounts'
    BY <1>1, <2>2 DEF ExecInv, SessAll, ExecCounts
  <2> QED
    BY <1>1, <2>1, <2>2, <2>3 DEF ExecInv, ExecRest
<1> QED
  BY <1>2, <1>3 DEF WriteContainerMCPConfig

\* A session starts its own claude and no other's.
LEMMA ExecRuns == ASSUME ExecInv, NEW e \in ExecEvents, ExecClaude(e) PROVE ExecInv'
<1>1. UNCHANGED <<restarts, boxUp>> /\ sess[e].pc = "exec" /\ e \notin claude /\ sess[e] \in Session
  BY DEF ExecClaude, ExecInv, SessAll, SessOK
<1>2. CASE ExecStarts(e) /\ Goes(e, "stream") /\ UNCHANGED <<holder, settled>>
  <2>1. PICK w : w = [sess[e] EXCEPT !.pc = "stream"]
    OBVIOUS
  <2>2. /\ w \in Session /\ w.pc = "stream" /\ w.wrote = sess[e].wrote /\ w.hung = sess[e].hung
        /\ w.committed = sess[e].committed /\ w.late = sess[e].late /\ w.torn = sess[e].torn /\ w.open = sess[e].open /\ w.reading = sess[e].reading
    BY <1>1, <2>1 DEF Session
  <2>3. sess' = [sess EXCEPT ![e] = w] /\ claude' = claude \union {e} /\ UNCHANGED <<strays, execFaults>>
    BY <1>2, <2>1 DEF Goes, ExecStarts
  <2>4. SessOK(e, w)'
    BY <1>1, <1>2, <2>2 DEF ExecInv, SessAll, SessOK
  <2>5. SessAll' /\ sess'[e] = w /\ \A d \in ExecEvents : d # e => sess'[d] = sess[d]
    BY <1>1, <1>2, <2>2, <2>3, <2>4, OneSession DEF ExecInv, SessAll
  <2>7. ExecCounts'
    BY <1>1, <2>3 DEF ExecInv, ExecCounts
  <2> QED
    BY <1>1, <1>2, <2>3, <2>5, <2>7 DEF ExecInv, ExecRest
<1>3. CASE ExecErrs /\ WriteContainerFail(e, TRUE)
  <2>1. sess' = [sess EXCEPT ![e] = NoSess] /\ Release(e) /\ claude' = claude \ {e}
        /\ settled' \in [ExecEvents -> Reasons] /\ \A d \in ExecEvents : d # e => settled'[d] = settled[d]
    BY <1>1, <1>3 DEF WriteContainerFail, ExecErrs, ExecInv, ExecRest, Reasons
  <2>2. SessAll' /\ holder' \in ExecEvents \union {Free}
    BY <1>1, <2>1, SessionEnds
  <2>3. \/ UNCHANGED <<strays, execFaults>>
        \/ execFaults' = execFaults + 1 /\ execFaults < MaxExecFault /\ strays' \in {strays, TRUE}
    BY <1>3 DEF ExecErrs, ExecFault
  <2>4. ExecCounts'
    <3>1. restarts \in Nat /\ execFaults \in 0..MaxExecFault
      BY DEF ExecInv, ExecCounts
    <3>2. restarts' = restarts
      BY <1>1
    <3>3. execFaults' = execFaults \/ (execFaults' = execFaults + 1 /\ execFaults < MaxExecFault)
      BY <2>3
    <3>4. execFaults' \in 0..MaxExecFault
      BY <3>1, <3>3, ExecAssumption
    <3> QED
      BY <3>1, <3>2, <3>4 DEF ExecCounts
  <2> QED
    BY <1>1, <2>1, <2>2, <2>3, <2>4 DEF ExecInv, ExecRest
<1> QED
  BY <1>2, <1>3 DEF ExecClaude

\* A step inside a session: the slot, the container and the processes stay.
LEMMA InSession ==
    ASSUME ExecInv, NEW e \in ExecEvents, NEW w \in Session, sess' = [sess EXCEPT ![e] = w], SessOK(e, w)',
           UNCHANGED <<holder, claude, boxUp, strays, restarts, execFaults>>,
           settled' \in [ExecEvents -> Reasons], \A d \in ExecEvents : d # e => settled'[d] = settled[d]
    PROVE  ExecInv'
<1>1. SessAll' /\ sess'[e] = w /\ \A d \in ExecEvents : d # e => sess'[d] = sess[d]
  BY OneSession DEF ExecInv, SessAll
<1>2. ExecCounts'
  BY <1>1 DEF ExecInv, SessAll, ExecCounts
<1> QED
  BY <1>1, <1>2 DEF ExecInv, ExecRest

\* Writing, reading the stream and committing leave the container alone.
LEMMA ExecWrites ==
    ASSUME ExecInv, NEW e \in ExecEvents, ClaudeWrites(e) \/ DemuxRawStream(e) \/ CommitAndLeave(e) PROVE ExecInv'
<1>1. /\ UNCHANGED <<holder, claude, boxUp, strays, restarts, execFaults>>
      /\ sess[e] \in Session /\ SessOK(e, sess[e]) /\ settled \in [ExecEvents -> Reasons]
  BY DEF ClaudeWrites, DemuxRawStream, CommitAndLeave, ExecInv, SessAll, ExecRest
<1>2. CASE ClaudeWrites(e)
  <2>1. PICK w : /\ sess' = [sess EXCEPT ![e] = w]
                 /\ \/ w = [sess[e] EXCEPT !.wrote = TRUE, !.pipe = IF sess[e].torn THEN @ ELSE @ \union {"result"}]
                    \/ sess[e].wrote /\ w = [sess[e] EXCEPT !.pipe = @ \union {"tail"}]
    BY <1>2 DEF ClaudeWrites
  <2>2. /\ w \in Session /\ w.pc = sess[e].pc /\ w.seen = sess[e].seen /\ w.reading = sess[e].reading
        /\ w.committed = sess[e].committed /\ w.hung = sess[e].hung /\ w.late = sess[e].late /\ w.torn = sess[e].torn /\ w.open = sess[e].open /\ w.why = sess[e].why
        /\ \/ "result" \in w.pipe \/ w.torn
           \/ (w.wrote <=> sess[e].wrote) /\ sess[e].pipe \subseteq w.pipe
    <3>1. CASE w = [sess[e] EXCEPT !.wrote = TRUE, !.pipe = IF sess[e].torn THEN @ ELSE @ \union {"result"}]
      BY <1>1, <3>1 DEF Session
    <3>2. CASE sess[e].wrote /\ w = [sess[e] EXCEPT !.pipe = @ \union {"tail"}]
      BY <1>1, <3>2 DEF Session
    <3> QED
      BY <2>1, <3>1, <3>2
  <2>3. e \in claude /\ ~sess[e].hung /\ UNCHANGED settled
    BY <1>2 DEF ClaudeWrites
  <2>4. sess[e].pc = "stream" \/ (sess[e].pc \in {"inspect", "cleanup"} /\ sess[e].torn)
    BY <1>1, <2>3 DEF SessOK, Session
  <2>5. SessOK(e, w)'
    BY <1>1, <2>2, <2>3, <2>4 DEF SessOK
  <2> QED
    BY <1>1, <2>1, <2>2, <2>3, <2>5, InSession
<1>3. CASE DemuxRawStream(e)
  <2>1. PICK f \in {"result", "tail"} :
          /\ "result" \in sess[e].pipe => f = "result"
          /\ sess' = [sess EXCEPT ![e].pipe = @ \ {f}, ![e].seen = @ \/ (f = "result" /\ sess[e].reading)]
    BY <1>3 DEF DemuxRawStream
  <2>2. PICK w : /\ sess' = [sess EXCEPT ![e] = w]
                 /\ w = [sess[e] EXCEPT !.pipe = @ \ {f}, !.seen = @ \/ (f = "result" /\ sess[e].reading)]
    BY <2>1
  <2>3. /\ w \in Session /\ w.pc = sess[e].pc /\ w.reading = sess[e].reading /\ w.wrote = sess[e].wrote
        /\ w.committed = sess[e].committed /\ w.hung = sess[e].hung /\ w.late = sess[e].late /\ w.torn = sess[e].torn /\ w.open = sess[e].open /\ w.why = sess[e].why
        /\ (w.seen <=> sess[e].seen \/ (f = "result" /\ sess[e].reading))
        /\ w.pipe = sess[e].pipe \ {f}
    BY <1>1, <2>2 DEF Session
  <2>4. sess[e].pc = "stream" /\ UNCHANGED settled
    BY <1>3 DEF DemuxRawStream
  <2>5. SessOK(e, w)'
    BY <1>1, <2>1, <2>3, <2>4 DEF SessOK
  <2> QED
    BY <1>1, <2>2, <2>3, <2>4, <2>5, InSession
<1>4. CASE CommitAndLeave(e)
  <2>1. PICK w : sess' = [sess EXCEPT ![e] = w] /\ w = [sess[e] EXCEPT !.reading = FALSE, !.committed = TRUE]
    BY <1>4 DEF CommitAndLeave
  <2>2. /\ w \in Session /\ w.pc = sess[e].pc /\ ~w.reading /\ w.wrote = sess[e].wrote /\ w.pipe = sess[e].pipe
        /\ w.committed /\ w.hung = sess[e].hung /\ w.late = sess[e].late /\ w.torn = sess[e].torn /\ w.open = sess[e].open /\ w.why = sess[e].why /\ w.seen = sess[e].seen
    BY <1>1, <2>1 DEF Session
  <2>3. sess[e].pc = "stream" /\ sess[e].seen /\ settled' = [settled EXCEPT ![e] = "completed"]
    BY <1>4 DEF CommitAndLeave
  <2>4. settled'[e] = "completed" /\ settled' \in [ExecEvents -> Reasons]
        /\ \A d \in ExecEvents : d # e => settled'[d] = settled[d]
    BY <1>1, <2>3 DEF Reasons
  <2>5. SessOK(e, w)'
    BY <1>1, <2>2, <2>3, <2>4 DEF SessOK
  <2> QED
    BY <1>1, <2>1, <2>2, <2>4, <2>5, InSession
<1> QED
  BY <1>2, <1>3, <1>4

\* Claude ends or hangs, or the deadline cuts the stream of a hung one.
LEMMA ExecExits == ASSUME ExecInv, NEW e \in ExecEvents, ClaudeExits(e) PROVE ExecInv'
<1>1. /\ UNCHANGED <<holder, strays, restarts, boxUp, settled, execFaults>> /\ claude' = claude \ {e}
      /\ e \in claude /\ sess[e] \in Session /\ SessOK(e, sess[e])
  BY DEF ClaudeExits, ExecInv, SessAll
<1>2. PICK c \in {"ok", "budget", "wrapper"} : sess' = [sess EXCEPT ![e].code = c]
  BY DEF ClaudeExits
<1>3. PICK w : sess' = [sess EXCEPT ![e] = w] /\ w = [sess[e] EXCEPT !.code = c]
  BY <1>2
<1>4. /\ w \in Session /\ w.pc = sess[e].pc /\ w.reading = sess[e].reading /\ w.wrote = sess[e].wrote /\ w.seen = sess[e].seen
      /\ w.committed = sess[e].committed /\ w.hung = sess[e].hung /\ w.late = sess[e].late /\ w.torn = sess[e].torn /\ w.open = sess[e].open /\ w.why = sess[e].why
      /\ w.pipe = sess[e].pipe
  BY <1>1, <1>3 DEF Session, Codes
<1>5. SessOK(e, w)'
  BY <1>1, <1>4 DEF SessOK
<1>6. SessAll' /\ \A d \in ExecEvents : d # e => sess'[d] = sess[d]
  BY <1>1, <1>3, <1>4, <1>5, OneSession DEF ExecInv, SessAll
<1>7. ExecCounts'
  BY <1>1, <1>6 DEF ExecInv, SessAll, ExecCounts
<1> QED
  BY <1>1, <1>6, <1>7 DEF ExecInv, ExecRest

\* A claude that hangs is still its session's.
LEMMA ExecHangs == ASSUME ExecInv, NEW e \in ExecEvents, ClaudeHangs(e) PROVE ExecInv'
<1>1. /\ UNCHANGED <<holder, claude, strays, restarts, boxUp, settled>> /\ execFaults' = execFaults + 1
      /\ execFaults < MaxExecFault /\ e \in claude /\ sess[e] \in Session /\ SessOK(e, sess[e])
  BY DEF ClaudeHangs, ExecFault, ExecInv, SessAll
<1>2. PICK w : sess' = [sess EXCEPT ![e] = w] /\ w = [sess[e] EXCEPT !.hung = TRUE]
  BY DEF ClaudeHangs
<1>3. /\ w \in Session /\ w.pc = sess[e].pc /\ w.reading = sess[e].reading /\ w.wrote = sess[e].wrote /\ w.seen = sess[e].seen
      /\ w.committed = sess[e].committed /\ w.hung /\ w.late = sess[e].late /\ w.torn = sess[e].torn /\ w.open = sess[e].open /\ w.why = sess[e].why
      /\ w.pipe = sess[e].pipe
  BY <1>1, <1>2 DEF Session
<1>4. SessOK(e, w)'
  BY <1>1, <1>3 DEF SessOK
<1>5. SessAll' 
  BY <1>1, <1>2, <1>3, <1>4, OneSession DEF ExecInv, SessAll
<1>6. ExecCounts'
  BY <1>1, ExecAssumption DEF ExecInv, ExecCounts
<1> QED
  BY <1>1, <1>5, <1>6 DEF ExecInv, ExecRest

\* A torn stream ends what can be read, not the process.
LEMMA ExecTears == ASSUME ExecInv, NEW e \in ExecEvents, StreamTears(e) PROVE ExecInv'
<1>1. /\ UNCHANGED <<holder, claude, strays, restarts, boxUp, settled>> /\ execFaults' = execFaults + 1
      /\ execFaults < MaxExecFault /\ sess[e].pc = "stream" /\ sess[e] \in Session /\ SessOK(e, sess[e])
  BY DEF StreamTears, ExecFault, ExecInv, SessAll
<1>2. PICK w : sess' = [sess EXCEPT ![e] = w] /\ w = [sess[e] EXCEPT !.torn = TRUE, !.pipe = {}]
  BY DEF StreamTears
<1>3. /\ w \in Session /\ w.pc = sess[e].pc /\ w.reading = sess[e].reading /\ w.wrote = sess[e].wrote /\ w.seen = sess[e].seen
      /\ w.committed = sess[e].committed /\ w.hung = sess[e].hung /\ w.late = sess[e].late /\ w.why = sess[e].why
      /\ w.torn /\ w.open = sess[e].open
  BY <1>1, <1>2 DEF Session
<1>4. SessOK(e, w)'
  BY <1>1, <1>3 DEF SessOK
<1>5. SessAll'
  BY <1>1, <1>2, <1>3, <1>4, OneSession DEF ExecInv, SessAll
<1>6. ExecCounts'
  BY <1>1, ExecAssumption DEF ExecInv, ExecCounts
<1> QED
  BY <1>1, <1>5, <1>6 DEF ExecInv, ExecRest

\* The deadline orders a restart of the container its own claude is in.
LEMMA ExecDeadline == ASSUME ExecInv, NEW e \in ExecEvents, WatchExecDeadline(e) PROVE ExecInv'
<1>1. /\ UNCHANGED <<holder, claude, strays, boxUp, settled, execFaults>> /\ restarts' = restarts + 1
      /\ e \in claude /\ sess[e].hung /\ ~sess[e].late /\ sess[e].pc = "stream"
      /\ sess[e] \in Session /\ SessOK(e, sess[e])
  BY DEF WatchExecDeadline, ExecInv, SessAll, SessOK
<1>2. PICK w : sess' = [sess EXCEPT ![e] = w] /\ w = [sess[e] EXCEPT !.late = TRUE]
  BY DEF WatchExecDeadline
<1>3. /\ w \in Session /\ w.pc = sess[e].pc /\ w.reading = sess[e].reading /\ w.wrote = sess[e].wrote /\ w.seen = sess[e].seen
      /\ w.committed = sess[e].committed /\ w.hung = sess[e].hung /\ w.late /\ w.torn = sess[e].torn /\ w.open = sess[e].open /\ w.why = sess[e].why
      /\ w.pipe = sess[e].pipe
  BY <1>1, <1>2 DEF Session
<1>4. SessOK(e, w)'
  BY <1>1, <1>3 DEF SessOK
<1>5. SessAll' /\ sess'[e] = w /\ \A d \in ExecEvents : d # e => sess'[d] = sess[d]
  BY <1>1, <1>2, <1>3, <1>4, OneSession DEF ExecInv, SessAll
<1>6. ExecCounts'
  BY <1>1, <1>3, <1>5, ExecAssumption DEF ExecInv, SessAll, ExecCounts
<1> QED
  BY <1>1, <1>5, <1>6 DEF ExecInv, ExecRest

\* Every process in the container dies: the sessions only learn an exit code.
LEMMA AllKilled ==
    ASSUME SessAll, claude' = {}, sess' = Killed(sess), UNCHANGED <<holder, settled>> PROVE SessAll'
<1>1. ASSUME NEW d \in ExecEvents PROVE sess'[d] \in Session /\ SessOK(d, sess[d])'
  <2>1. sess[d] \in Session /\ SessOK(d, sess[d])
    BY DEF SessAll
  <2>2. PICK w : w = sess'[d]
    OBVIOUS
  <2>3. w = sess[d] \/ w = [sess[d] EXCEPT !.code = "killed"]
    BY <2>2 DEF Killed
  <2>4. /\ w \in Session /\ w.pc = sess[d].pc /\ w.reading = sess[d].reading /\ w.wrote = sess[d].wrote /\ w.seen = sess[d].seen
        /\ w.committed = sess[d].committed /\ w.hung = sess[d].hung /\ w.late = sess[d].late /\ w.torn = sess[d].torn /\ w.open = sess[d].open /\ w.why = sess[d].why
        /\ w.pipe = sess[d].pipe
    BY <2>1, <2>3 DEF Session, Codes
  <2> QED
    BY <2>1, <2>2, <2>4 DEF SessOK
<1>2. sess' \in [ExecEvents -> Session]
  BY <1>1 DEF Killed
<1> QED
  BY <1>1, <1>2 DEF SessAll

\* A restart or a dead container ends every claude; a reboot leaves one behind as a stray.
LEMMA ExecDies ==
    ASSUME ExecInv, DeadlineRestart \/ BoxDies \/ SupervisorReboots PROVE ExecInv'
<1>1. CASE DeadlineRestart
  <2>1. UNCHANGED <<holder, settled>> /\ restarts > 0 /\ restarts' = restarts - 1
    BY <1>1 DEF DeadlineRestart
  <2>2. CASE KillAll /\ sess' = Killed(sess) /\ UNCHANGED execFaults
    <3>1. claude' = {} /\ strays' = FALSE /\ boxUp' = TRUE
      BY <2>2 DEF KillAll
    <3>2. SessAll'
      BY <2>1, <2>2, <3>1, AllKilled DEF ExecInv
    <3>3. ExecCounts'
      BY <2>1, <2>2, <3>1 DEF ExecInv, ExecCounts
    <3> QED
      BY <2>1, <3>1, <3>2, <3>3 DEF ExecInv, ExecRest
  <2>3. CASE ExecFault /\ UNCHANGED <<sess, claude, strays, boxUp>>
    <3>1. SessAll'
      BY <2>1, <2>3 DEF ExecInv, SessAll, SessOK
    <3>2. execFaults' = execFaults + 1 /\ execFaults < MaxExecFault
      BY <2>3 DEF ExecFault
    <3>3. ExecCounts'
      BY <2>1, <2>3, <3>2, ExecAssumption DEF ExecInv, ExecCounts
    <3> QED
      BY <2>1, <2>3, <3>1, <3>3 DEF ExecInv, ExecRest
  <2> QED
    BY <1>1, <2>2, <2>3 DEF DeadlineRestart
<1>2. CASE BoxDies
  <2>1. /\ UNCHANGED <<holder, restarts, settled>> /\ claude' = {} /\ strays' = FALSE /\ boxUp' = FALSE
        /\ sess' = Killed(sess) /\ execFaults' = execFaults + 1 /\ execFaults < MaxExecFault
    BY <1>2 DEF BoxDies, ExecFault
  <2>2. SessAll'
    BY <2>1, AllKilled DEF ExecInv
  <2>3. ExecCounts'
    BY <2>1, ExecAssumption DEF ExecInv, ExecCounts
  <2> QED
    BY <2>1, <2>2, <2>3 DEF ExecInv, ExecRest
<1>3. CASE SupervisorReboots
  <2>1. /\ holder' = Free /\ sess' = [e \in ExecEvents |-> NoSess] /\ strays' \in BOOLEAN
        /\ claude' = {} /\ restarts' = 0 /\ boxUp' = TRUE /\ UNCHANGED settled
        /\ execFaults' = execFaults + 1 /\ execFaults < MaxExecFault
    BY <1>3 DEF SupervisorReboots, ExecFault
  <2>2. SessAll'
    <3>1. \A e \in ExecEvents : sess'[e] = NoSess /\ holder' # e
      BY <2>1, ExecAssumption
    <3> QED
      BY <2>1, <3>1, NoSessShape DEF SessAll, SessOK
  <2>3. ExecCounts'
    BY <2>1, ExecAssumption DEF ExecInv, ExecCounts
  <2> QED
    BY <2>1, <2>2, <2>3 DEF ExecInv, ExecRest
<1> QED
  BY <1>1, <1>2, <1>3

\* A bail or the shutdown ladder: the session is told, then the container is
\* restarted or not.
LEMMA ExecTerminates ==
    ASSUME ExecInv, NEW e \in ExecEvents, NEW why \in {"bail", "shutdown"}, Terminate(e, why) PROVE ExecInv'
<1>1. /\ UNCHANGED <<holder, restarts, settled>> /\ execFaults' = execFaults + 1 /\ execFaults < MaxExecFault
      /\ sess[e].pc = "stream" /\ sess[e].why = "none" /\ (why = "bail" => sess[e].reading)
      /\ sess[e] \in Session /\ SessOK(e, sess[e])
  BY DEF Terminate, ExecFault, ExecInv, SessAll
<1>2. PICK w : w = [sess[e] EXCEPT !.why = why, !.reading = @ /\ why # "bail"]
  OBVIOUS
<1>3. PICK told : /\ told = [sess EXCEPT ![e] = w]
                  /\ \/ KillAll /\ sess' = Killed(told)
                     \/ sess' = told /\ UNCHANGED <<claude, strays, boxUp>>
  BY <1>2 DEF Terminate
<1>4. /\ w \in Session /\ w.pc = sess[e].pc /\ (w.reading <=> sess[e].reading /\ why # "bail") /\ w.wrote = sess[e].wrote /\ w.seen = sess[e].seen
      /\ w.committed = sess[e].committed /\ w.hung = sess[e].hung /\ w.late = sess[e].late /\ w.torn = sess[e].torn /\ w.open = sess[e].open /\ w.why = why
      /\ w.pipe = sess[e].pipe
  BY <1>1, <1>2 DEF Session
<1>5. /\ told \in [ExecEvents -> Session] /\ told[e] = w
      /\ \A d \in ExecEvents : d # e => told[d] = sess[d]
  BY <1>3, <1>4 DEF ExecInv, SessAll
<1>6. \A d \in ExecEvents : SessOK(d, told[d])
  <2>1. SessOK(e, w)
    BY <1>1, <1>4 DEF SessOK
  <2> QED
    BY <1>5, <2>1 DEF ExecInv, SessAll
<1>7. CASE KillAll /\ sess' = Killed(told)
  <2>1. claude' = {} /\ strays' = FALSE /\ boxUp' = TRUE
    BY <1>7 DEF KillAll
  <2>2. SessAll'
    <3>1. ASSUME NEW d \in ExecEvents PROVE sess'[d] \in Session /\ SessOK(d, sess[d])'
      <4>1. told[d] \in Session /\ SessOK(d, told[d])
        BY <1>5, <1>6
      <4>2. PICK v : v = sess'[d]
        OBVIOUS
      <4>3. v = told[d] \/ v = [told[d] EXCEPT !.code = "killed"]
        BY <1>7, <4>2 DEF Killed
      <4>4. /\ v \in Session /\ v.pc = told[d].pc /\ v.reading = told[d].reading /\ v.wrote = told[d].wrote /\ v.seen = told[d].seen
            /\ v.committed = told[d].committed /\ v.hung = told[d].hung /\ v.late = told[d].late /\ v.torn = told[d].torn /\ v.open = told[d].open /\ v.why = told[d].why
            /\ v.pipe = told[d].pipe
        BY <4>1, <4>3 DEF Session, Codes
      <4> QED
        BY <1>1, <2>1, <4>1, <4>2, <4>4 DEF SessOK
    <3>2. sess' \in [ExecEvents -> Session]
      BY <1>7, <3>1 DEF Killed
    <3> QED
      BY <2>1, <3>1, <3>2 DEF SessAll
  <2>3. ExecCounts'
    BY <1>1, <2>1, ExecAssumption DEF ExecInv, ExecCounts
  <2> QED
    BY <1>1, <2>1, <2>2, <2>3 DEF ExecInv, ExecRest
<1>8. CASE sess' = told /\ UNCHANGED <<claude, strays, boxUp>>
  <2>1. SessAll'
    BY <1>1, <1>5, <1>6, <1>8 DEF ExecInv, SessAll, SessOK
  <2>2. ExecCounts'
    BY <1>1, <1>4, <1>5, <1>8, ExecAssumption DEF ExecInv, SessAll, ExecCounts
  <2> QED
    BY <1>1, <1>8, <2>1, <2>2 DEF ExecInv, ExecRest
<1> QED
  BY <1>3, <1>7, <1>8

\* The end of a session: end of file, the exit code and the cleanup.
LEMMA ExecFinishes ==
    ASSUME ExecInv, NEW e \in ExecEvents, StreamEnds(e) \/ InspectContainerExit(e) \/ CleanupContainerMCPConfig(e)
    PROVE  ExecInv'
<1>1. sess[e] \in Session /\ SessOK(e, sess[e]) /\ settled \in [ExecEvents -> Reasons]
  BY DEF ExecInv, SessAll, ExecRest
<1>2. CASE StreamEnds(e)
  <2>1. PICK w : sess' = [sess EXCEPT ![e] = w] /\ w = [sess[e] EXCEPT !.pc = "inspect"]
    BY <1>2 DEF StreamEnds, Goes
  <2>2. /\ w \in Session /\ w.pc = "inspect" /\ w.reading = sess[e].reading /\ w.wrote = sess[e].wrote /\ w.seen = sess[e].seen
        /\ w.committed = sess[e].committed /\ w.hung = sess[e].hung /\ w.late = sess[e].late /\ w.torn = sess[e].torn /\ w.open = sess[e].open /\ w.why = sess[e].why
    BY <1>1, <2>1 DEF Session
  <2>3. /\ UNCHANGED <<holder, claude, strays, restarts, boxUp, settled, execFaults>>
        /\ sess[e].pc = "stream" /\ (e \notin claude \/ sess[e].late \/ sess[e].torn) /\ (sess[e].pipe = {} \/ sess[e].late)
    BY <1>2 DEF StreamEnds, Drained
  <2>4. SessOK(e, w)'
    BY <1>1, <2>2, <2>3 DEF SessOK
  <2> QED
    BY <1>1, <2>1, <2>2, <2>3, <2>4, InSession
<1>3. CASE InspectContainerExit(e)
  <2>1. PICK w : sess' = [sess EXCEPT ![e] = w] /\ w = [sess[e] EXCEPT !.pc = "cleanup"]
    BY <1>3 DEF InspectContainerExit, Goes
  <2>2. /\ w \in Session /\ w.pc = "cleanup" /\ w.reading = sess[e].reading /\ w.wrote = sess[e].wrote /\ w.seen = sess[e].seen
        /\ w.committed = sess[e].committed /\ w.hung = sess[e].hung /\ w.late = sess[e].late /\ w.torn = sess[e].torn /\ w.open = sess[e].open /\ w.why = sess[e].why
    BY <1>1, <2>1 DEF Session
  <2>3. PICK code : WriteTerminal(e, code)
    BY <1>3 DEF InspectContainerExit
  <2>4. /\ UNCHANGED <<holder, claude, strays, restarts, boxUp>> /\ sess[e].pc = "inspect"
        /\ execFaults' = execFaults \/ (execFaults' = execFaults + 1 /\ execFaults < MaxExecFault)
    BY <1>3 DEF InspectContainerExit, ExecFault
  <2>5. ExitReasonOf(e, code) \in Reasons
        /\ (sess[e].seen \/ sess[e].why = "bail" => ExitReasonOf(e, code) \notin {"no_result", "spawn_failed"})
    BY DEF ExitReasonOf, Reasons
  <2>6. /\ settled'[e] = IF sess[e].committed THEN settled[e] ELSE ExitReasonOf(e, code)
        /\ settled' \in [ExecEvents -> Reasons] /\ \A d \in ExecEvents : d # e => settled'[d] = settled[d]
    BY <1>1, <2>3, <2>5 DEF WriteTerminal
  <2>7. SessOK(e, w)'
    BY <1>1, <2>2, <2>4, <2>5, <2>6 DEF SessOK
  <2>8. SessAll' /\ sess'[e] = w /\ \A d \in ExecEvents : d # e => sess'[d] = sess[d]
    BY <2>1, <2>2, <2>4, <2>6, <2>7, OneSession DEF ExecInv, SessAll
  <2>9. ExecCounts'
    BY <2>2, <2>4, <2>8, ExecAssumption DEF ExecInv, SessAll, ExecCounts
  <2> QED
    BY <2>4, <2>6, <2>8, <2>9 DEF ExecInv, ExecRest
<1>4. CASE CleanupContainerMCPConfig(e)
  <2>1. /\ UNCHANGED <<restarts, boxUp, settled, execFaults>> /\ sess[e].pc = "cleanup"
        /\ Release(e) /\ sess' = [sess EXCEPT ![e] = NoSess] /\ claude' = claude \ {e}
        /\ strays' \in BOOLEAN
    BY <1>4 DEF CleanupContainerMCPConfig
  <2>2. SessAll' /\ holder' \in ExecEvents \union {Free}
    BY <2>1, SessionEnds
  <2>4. ExecCounts'
    BY <2>1 DEF ExecInv, ExecCounts
  <2> QED
    BY <2>1, <2>2, <2>4 DEF ExecInv, ExecRest
<1> QED
  BY <1>2, <1>3, <1>4

\* Every step in the container keeps ExecInv.
LEMMA ExecInvStep == ExecInv /\ [ExecNext]_execVars => ExecInv'
<1> SUFFICES ASSUME ExecInv, [ExecNext]_execVars PROVE ExecInv'
  OBVIOUS
<1>1. CASE ExecNext
  BY <1>1, ExecBegins, ExecConfig, ExecRuns, ExecWrites, ExecExits, ExecHangs, ExecTears, ExecDeadline, ExecDies,
     ExecTerminates, ExecFinishes DEF ExecNext, ExecStep
<1>2. CASE UNCHANGED execVars
  BY <1>2 DEF execVars, ExecInv, ExecRest, SessAll, SessOK, ExecCounts
<1> QED
  BY <1>1, <1>2

\* No step rewrites an outcome: only a session without a commit writes one,
\* and its event has none yet.
LEMMA OutcomeKept ==
    ExecInv /\ [ExecNext]_execVars => \A e \in ExecEvents : settled[e] # "none" => settled'[e] = settled[e]
<1> SUFFICES ASSUME ExecInv, [ExecNext]_execVars, NEW e \in ExecEvents, settled[e] # "none"
             PROVE  settled'[e] = settled[e]
  OBVIOUS
<1>1. /\ settled \in [ExecEvents -> Reasons]
      /\ sess[e].pc \in {"config", "exec", "stream", "inspect"} => sess[e].committed /\ ~sess[e].reading
      /\ sess[e].pc \notin {"config", "exec"}
  BY DEF ExecInv, ExecRest, SessAll, SessOK
<1>2. CASE \E d \in ExecEvents : WriteContainerMCPConfig(d) \/ ExecClaude(d)
  BY <1>1, <1>2 DEF WriteContainerMCPConfig, ExecClaude, WriteContainerFail, ExecErrs
<1>3. CASE \E d \in ExecEvents : CommitAndLeave(d)
  BY <1>1, <1>3 DEF CommitAndLeave
<1>4. CASE \E d \in ExecEvents : InspectContainerExit(d)
  BY <1>1, <1>4 DEF InspectContainerExit, WriteTerminal
<1>5. CASE UNCHANGED settled
  BY <1>5
<1>6. UNCHANGED execVars => UNCHANGED settled
  BY DEF execVars
<1>7. ASSUME NEW d \in ExecEvents,
             \/ TryAcquire(d) \/ PassesOpen(d) \/ StreamTears(d) \/ DemuxRawStream(d) \/ WatchExecDeadline(d) \/ StreamEnds(d)
             \/ CleanupContainerMCPConfig(d) \/ ClaudeWrites(d) \/ ClaudeExits(d) \/ ClaudeHangs(d)
             \/ \E why \in {"bail", "shutdown"} : Terminate(d, why)
      PROVE  UNCHANGED settled
  BY <1>7 DEF TryAcquire, PassesOpen, StreamTears, DemuxRawStream, WatchExecDeadline, StreamEnds, CleanupContainerMCPConfig,
              ClaudeWrites, ClaudeExits, ClaudeHangs, Terminate
<1>8. DeadlineRestart \/ BoxDies \/ SupervisorReboots => UNCHANGED settled
  BY DEF DeadlineRestart, BoxDies, SupervisorReboots
<1> QED
  BY <1>2, <1>3, <1>4, <1>5, <1>6, <1>7, <1>8 DEF ExecNext, ExecStep

-----------------------------------------------------------------------------
(* The skill installer *)

StepNames == {"download", "verify_digest", "extract", "mount", "container_create", "container_start"}
JournalRow == {NoStepRow} \union [step : StepNames, outcome : {"success", "failed"}]
Done(s) == [step |-> s, outcome |-> "success"]

InstallPcs == StepNames \union {"extracting", "mounted", "created", "started", "report", "lost"}

\* Where the install in progress stands: what it verified, extracted, mounted
\* and created so far, and the journal row it wrote last.
WorkInv ==
    working # NotWorking =>
        LET p == working.on
            past == working.pc
        IN  /\ p \in Installs /\ past \in InstallPcs
            /\ working = [on |-> p, pc |-> past, body |-> working.body]
            /\ past \notin {"download", "report", "lost"} => latest = p
            /\ past = "verify_digest" => lastRow[p] = Done("download") /\ working.body \in Bodies
            /\ past \in {"extract", "extracting"} =>
                 working.body = p /\ p \in verified /\ lastRow[p] = Done("verify_digest")
            /\ past = "mount" => tmpDir = p /\ p \in verified /\ lastRow[p] = Done("extract")
            /\ past \in {"mounted", "container_create", "created", "container_start", "started"} => skillDir = p
            /\ past \in {"created", "container_start", "started"} => skillBox # "none"
            /\ past = "mounted" => lastRow[p] = Done("extract")
            /\ past \in {"container_create", "created"} => lastRow[p] = Done("mount")
            /\ past \in {"container_start", "started"} => lastRow[p] = Done("container_create")
            /\ past = "started" => skillBox = "running"

\* What the last row of the last proposal that downloaded stands for.
JournalInv ==
    latest \in Installs /\ lastRow[latest].outcome = "success" =>
        /\ lastRow[latest].step = "extract" => latest \in {tmpDir, skillDir}
        /\ lastRow[latest].step \in {"mount", "container_create", "container_start"} => skillDir = latest
        /\ lastRow[latest].step \in {"container_create", "container_start"} => skillBox # "none"
        /\ lastRow[latest].step = "container_start" => skillBox = "running"

InstallRest ==
    /\ installStatus \in [Installs -> {"install_in_progress", "installed", "install_failed"}]
    /\ lastRow \in [Installs -> JournalRow]
    /\ verified \subseteq Installs
    /\ latest \in Installs \union {"none"}
    /\ served \in [Installs -> Bodies]
    /\ tmpDir \in Bodies \union {"none", "partial"} /\ skillDir \in Bodies \union {"none", "partial", "remains"}
    /\ skillBox \in {"none", "created", "running"}
    /\ installFaults \in 0..MaxInstallFault

\* What is mounted, and when half of it may be gone.
MountedWhole == skillDir \in {"none", "remains"} \union verified
Torn == skillDir = "remains" => working.pc = "mount" \/ installFaults > 0

InstallCore == InstallRest /\ WorkInv /\ JournalInv /\ MountedWhole
InstallInv == InstallCore /\ Torn

\* The steps are numbered in their order.
LEMMA StepOrder ==
    /\ StepIndex("download") = 1 /\ StepIndex("verify_digest") = 2 /\ StepIndex("extract") = 3
    /\ StepIndex("mount") = 4 /\ StepIndex("container_create") = 5 /\ StepIndex("container_start") = 6
    /\ {AllSteps[i] : i \in 1..6} = StepNames
<1>1. /\ AllSteps[1] = "download" /\ AllSteps[2] = "verify_digest" /\ AllSteps[3] = "extract"
      /\ AllSteps[4] = "mount" /\ AllSteps[5] = "container_create" /\ AllSteps[6] = "container_start"
  BY DEF AllSteps
<1>2. 1..6 = {1, 2, 3, 4, 5, 6}
  OBVIOUS
<1>3. {AllSteps[i] : i \in 1..6} = StepNames
  BY <1>1, <1>2 DEF StepNames
<1>4. ASSUME NEW k \in 1..6, \A i \in 1..6 : AllSteps[i] = AllSteps[k] => i = k PROVE StepIndex(AllSteps[k]) = k
  BY <1>4 DEF StepIndex
<1>5. \A i, k \in 1..6 : AllSteps[i] = AllSteps[k] => i = k
  BY <1>1, <1>2
<1>6. \A k \in 1..6 : StepIndex(AllSteps[k]) = k
  BY <1>4, <1>5
<1> QED
  BY <1>1, <1>2, <1>3, <1>6

\* InstallInv implies what is checked of the installer.
LEMMA InstallSafe == InstallInv => InstallTypeOK /\ InstallIsSound
<1> SUFFICES ASSUME InstallInv PROVE InstallTypeOK /\ InstallIsSound
  OBVIOUS
<1>0. InstallCore /\ Torn
  BY DEF InstallInv
<1>1. InstallTypeOK
  <2>1. \A p \in Installs : lastRow[p] = NoStepRow
                            \/ lastRow[p] \in [step : {AllSteps[i] : i \in 1..6}, outcome : {"success", "failed"}]
    BY <1>0, StepOrder DEF InstallCore, InstallRest, JournalRow
  <2>2. working.on \in Installs \union {"none"}
    BY <1>0 DEF InstallCore, WorkInv, NotWorking
  <2> QED
    BY <1>0, <2>1, <2>2 DEF InstallCore, InstallRest, InstallTypeOK
<1>2. JournalIsBacked
  <2> SUFFICES ASSUME NEW p \in Installs, latest = p, lastRow[p].outcome = "success"
               PROVE  /\ lastRow[p].step = "extract" => p \in {tmpDir, skillDir}
                      /\ StepIndex(lastRow[p].step) >= StepIndex("mount") => skillDir = p
                      /\ StepIndex(lastRow[p].step) >= StepIndex("container_create") => skillBox # "none"
                      /\ StepIndex(lastRow[p].step) >= StepIndex("container_start") => skillBox = "running"
    BY DEF JournalIsBacked
  <2>1. lastRow[p].step \in StepNames
    BY <1>0 DEF InstallCore, InstallRest, JournalRow, NoStepRow
  <2> QED
    BY <1>0, <2>1, StepOrder DEF InstallCore, JournalInv, StepNames
<1> QED
  BY <1>0, <1>1, <1>2 DEF InstallCore, InstallIsSound, MountedIsVerified, MountedWhole, Torn

\* Nothing is downloaded, mounted or journalled yet.
LEMMA InstallCoreInit == InstallInit => InstallCore
<1> SUFFICES ASSUME InstallInit PROVE InstallCore
  OBVIOUS
<1>1. InstallRest
  BY InstallAssumption DEF InstallInit, InstallRest, JournalRow, Bodies
<1>2. WorkInv /\ MountedWhole
  BY DEF InstallInit, WorkInv, MountedWhole
<1>3. JournalInv
  BY DEF InstallInit, JournalInv, NoStepRow
<1> QED
  BY <1>1, <1>2, <1>3 DEF InstallCore

\* The install in progress, field by field.
LEMMA InstallWorking ==
    ASSUME InstallCore, NEW p \in Installs, working.on = p, working.pc # "idle"
    PROVE  /\ working # NotWorking
           /\ working = [on |-> p, pc |-> working.pc, body |-> working.body]
           /\ \A x : [working EXCEPT !.pc = x] = [on |-> p, pc |-> x, body |-> working.body]
           /\ \A x : [working EXCEPT !.pc = x].pc = x /\ [working EXCEPT !.pc = x].on = p
                     /\ [working EXCEPT !.pc = x].body = working.body
           /\ \A x, b : [working EXCEPT !.pc = x, !.body = b] = [on |-> p, pc |-> x, body |-> b]
<1>1. working # NotWorking
  BY DEF NotWorking
<1>2. working = [on |-> p, pc |-> working.pc, body |-> working.body]
  BY <1>1 DEF InstallCore, WorkInv
<1>3. PICK v, b : working = [on |-> p, pc |-> v, body |-> b]
  BY <1>2
<1>4. \A x, y : [working EXCEPT !.pc = x, !.body = y] = [on |-> p, pc |-> x, body |-> y]
  <2> SUFFICES ASSUME NEW x, NEW y
               PROVE  [working EXCEPT !.pc = x, !.body = y] = [on |-> p, pc |-> x, body |-> y]
    OBVIOUS
  <2>1. [working EXCEPT !.pc = x] = [on |-> p, pc |-> x, body |-> b]
    BY <1>3
  <2>2. [working EXCEPT !.pc = x, !.body = y] = [[working EXCEPT !.pc = x] EXCEPT !.body = y]
    BY <1>3
  <2>3. [[on |-> p, pc |-> x, body |-> b] EXCEPT !.body = y] = [on |-> p, pc |-> x, body |-> y]
    OBVIOUS
  <2> QED
    BY <2>1, <2>2, <2>3, Zenon
<1>5. \A x : [working EXCEPT !.pc = x] = [on |-> p, pc |-> x, body |-> working.body]
  BY <1>3
<1>6. \A x : [working EXCEPT !.pc = x].pc = x /\ [working EXCEPT !.pc = x].on = p
             /\ [working EXCEPT !.pc = x].body = working.body
  BY <1>3
<1> QED
  BY <1>1, <1>2, <1>4, <1>5, <1>6

\* A row written to the journal of one proposal.
LEMMA InstallRow ==
    ASSUME InstallCore, NEW p \in Installs, NEW s \in StepNames, NEW o \in {"success", "failed"}, Record(p, s, o)
    PROVE  /\ lastRow' \in [Installs -> JournalRow]
           /\ lastRow'[p] = [step |-> s, outcome |-> o]
           /\ lastRow'[p].step = s /\ lastRow'[p].outcome = o
           /\ \A q \in Installs \ {p} : lastRow'[q] = lastRow[q]
<1>1. [step |-> s, outcome |-> o] \in JournalRow
  BY DEF JournalRow
<1>2. lastRow \in [Installs -> JournalRow] /\ lastRow' = [lastRow EXCEPT ![p] = [step |-> s, outcome |-> o]]
  BY DEF InstallCore, InstallRest, Record
<1>3. lastRow'[p] = [step |-> s, outcome |-> o]
  BY <1>2
<1> QED
  BY <1>1, <1>2, <1>3

\* A failed row breaks nothing: the install only reports.
LEMMA InstallGivesUp ==
    ASSUME InstallCore, NEW p \in Installs, working.on = p, working.pc \in StepNames, RecordFailed(p),
           UNCHANGED <<installStatus, verified, latest, served, tmpDir, skillDir, skillBox>>,
           installFaults' \in 0..MaxInstallFault
    PROVE  InstallCore'
<1>1. working.pc # "idle"
  BY DEF StepNames
<1>2. working' = [on |-> p, pc |-> "report", body |-> working.body]
  BY <1>1, InstallWorking DEF RecordFailed
<1>3. /\ lastRow' \in [Installs -> JournalRow]
      /\ lastRow'[p].outcome = "failed"
      /\ \A q \in Installs \ {p} : lastRow'[q] = lastRow[q]
  BY InstallRow DEF RecordFailed
<1>4. InstallRest'
  BY <1>3 DEF InstallCore, InstallRest
<1>5. WorkInv'
  BY <1>2 DEF WorkInv, InstallPcs
<1>6. JournalInv'
  BY <1>3 DEF InstallCore, JournalInv
<1>7. MountedWhole'
  BY DEF InstallCore, MountedWhole
<1> QED
  BY <1>4, <1>5, <1>6, <1>7 DEF InstallCore

\* A resume, a crash and the caller's mark leave the journal and the disk.
LEMMA InstallRestarts ==
    ASSUME InstallCore, NEW p \in Installs,
           \/ working' = NotWorking
           \/ working' = working
           \/ working' = [on |-> p, pc |-> "download", body |-> "none"],
           installStatus' \in [Installs -> {"install_in_progress", "installed", "install_failed"}],
           installFaults' \in 0..MaxInstallFault,
           UNCHANGED <<lastRow, verified, latest, served, tmpDir, skillDir, skillBox>>
    PROVE  InstallCore'
<1>1. InstallRest' /\ JournalInv' /\ MountedWhole'
  BY DEF InstallCore, InstallRest, JournalInv, MountedWhole
<1>2. WorkInv'
  <2>1. CASE working' = NotWorking
    BY <2>1 DEF WorkInv, NotWorking
  <2>2. CASE working' = working
    BY <2>2 DEF InstallCore, WorkInv, NotWorking
  <2>3. CASE working' = [on |-> p, pc |-> "download", body |-> "none"]
    BY <2>3 DEF WorkInv, InstallPcs, StepNames
  <2> QED
    BY <2>1, <2>2, <2>3
<1> QED
  BY <1>1, <1>2 DEF InstallCore

\* Faults of the installer stay within their bound.
LEMMA InstallFaultBound == InstallCore /\ InstallFault => installFaults' \in 0..MaxInstallFault
BY InstallAssumption DEF InstallCore, InstallRest, InstallFault

\* Resume reads the journal and starts over, or only moves the status.
LEMMA InstallResume == ASSUME InstallCore, NEW p \in Installs, Resume(p) PROVE InstallCore'
<1>1. installFaults' \in 0..MaxInstallFault
  BY InstallFaultBound DEF Resume, InstallCore, InstallRest
<1>2. /\ working' = working \/ working' = [on |-> p, pc |-> "download", body |-> "none"]
      /\ lastRow' = lastRow
      /\ \/ installStatus' = installStatus
         \/ installStatus' = [installStatus EXCEPT ![p] = "installed"]
         \/ installStatus' = [installStatus EXCEPT ![p] = "install_failed"]
  BY DEF Resume, Install, ResumeFromNextStep
<1>3. installStatus' \in [Installs -> {"install_in_progress", "installed", "install_failed"}]
  BY <1>2 DEF InstallCore, InstallRest
<1>4. UNCHANGED <<verified, latest, served, tmpDir, skillDir, skillBox>>
  BY DEF Resume
<1> QED
  BY <1>1, <1>2, <1>3, <1>4, InstallRestarts

\* The download is journalled for the proposal that is now the latest.
LEMMA InstallDownload == ASSUME InstallCore, NEW p \in Installs, StepDownload(p) PROVE InstallCore'
<1>1. \A x, b : [working EXCEPT !.pc = x, !.body = b] = [on |-> p, pc |-> x, body |-> b]
  BY InstallWorking DEF StepDownload, At
<1>2. working' = [on |-> p, pc |-> "verify_digest", body |-> served[p]] /\ served[p] \in Bodies
  BY <1>1 DEF StepDownload, InstallCore, InstallRest
<1>3. /\ lastRow' \in [Installs -> JournalRow]
      /\ lastRow'[p] = Done("download") /\ lastRow'[p].step = "download"
  BY InstallRow DEF StepDownload, StepNames, Done
<1>4. InstallRest' /\ MountedWhole'
  BY <1>3 DEF StepDownload, InstallCore, InstallRest, MountedWhole
<1>5. WorkInv'
  <2>1. working'.on = p /\ working'.pc = "verify_digest" /\ working'.body \in Bodies
    BY <1>2
  <2>2. latest' = p
    BY DEF StepDownload
  <2> QED
    BY <1>2, <1>3, <2>1, <2>2 DEF WorkInv, InstallPcs, StepNames
<1>6. JournalInv'
  BY <1>3 DEF StepDownload, JournalInv
<1> QED
  BY <1>4, <1>5, <1>6 DEF InstallCore

\* Only a body with the proposal's digest is journalled as verified.
LEMMA InstallVerify == ASSUME InstallCore, NEW p \in Installs, StepVerifyDigest(p) PROVE InstallCore'
<1>1. CASE working.body = p
  <2>1. working' = [on |-> p, pc |-> "extract", body |-> p] /\ latest = p
    <3>1. working # NotWorking /\ working' = [on |-> p, pc |-> "extract", body |-> working.body]
      BY <1>1, InstallWorking DEF StepVerifyDigest, At, Then
    <3> QED
      BY <1>1, <3>1 DEF StepVerifyDigest, At, InstallCore, WorkInv
  <2>2. /\ lastRow' \in [Installs -> JournalRow]
        /\ lastRow'[p] = Done("verify_digest") /\ lastRow'[p].step = "verify_digest"
    BY <1>1, InstallRow DEF StepVerifyDigest, StepNames, Done
  <2>3. InstallRest' /\ MountedWhole'
    BY <1>1, <2>2 DEF StepVerifyDigest, InstallCore, InstallRest, MountedWhole
  <2>4. WorkInv'
    BY <1>1, <2>1, <2>2 DEF StepVerifyDigest, WorkInv, InstallPcs, StepNames
  <2>5. JournalInv'
    BY <2>1, <2>2 DEF StepVerifyDigest, JournalInv
  <2> QED
    BY <2>3, <2>4, <2>5 DEF InstallCore
<1>2. CASE working.body # p
  <2>1. /\ working.on = p /\ working.pc \in StepNames /\ RecordFailed(p)
        /\ UNCHANGED <<installStatus, verified, latest, served, tmpDir, skillDir, skillBox>>
        /\ installFaults' \in 0..MaxInstallFault
    BY <1>2 DEF StepVerifyDigest, At, StepNames, InstallCore, InstallRest
  <2> QED
    BY <2>1, InstallGivesUp
<1> QED
  BY <1>1, <1>2

\* Extraction fills .tmp with the verified body before it is journalled.
LEMMA InstallExtract ==
    ASSUME InstallCore, NEW p \in Installs, StepExtract(p) \/ SafeExtractTarGz(p) PROVE InstallCore'
<1>1. /\ working # NotWorking /\ working.pc \in {"extract", "extracting"}
      /\ \A x : [working EXCEPT !.pc = x] = [on |-> p, pc |-> x, body |-> working.body]
  BY InstallWorking DEF StepExtract, SafeExtractTarGz, At
<1>2. latest = p /\ working.body = p /\ p \in verified /\ lastRow[p] = Done("verify_digest") /\ p \in Bodies
  BY <1>1 DEF InstallCore, WorkInv, StepExtract, SafeExtractTarGz, At, Bodies
<1>3. CASE StepExtract(p)
  <2>1. working' = [on |-> p, pc |-> "extracting", body |-> p]
    BY <1>1, <1>2, <1>3 DEF StepExtract, Then
  <2>2. InstallRest' /\ MountedWhole'
    BY <1>3 DEF StepExtract, InstallCore, InstallRest, MountedWhole
  <2>3. WorkInv'
    BY <1>2, <1>3, <2>1 DEF StepExtract, WorkInv, InstallPcs
  <2>4. lastRow[p].step = "verify_digest"
    BY <1>2 DEF Done
  <2>5. JournalInv'
    BY <1>2, <1>3, <2>4 DEF StepExtract, JournalInv
  <2> QED
    BY <2>2, <2>3, <2>5 DEF InstallCore
<1>4. CASE SafeExtractTarGz(p)
  <2>1. working' = [on |-> p, pc |-> "mount", body |-> p]
    BY <1>1, <1>2, <1>4 DEF SafeExtractTarGz, Then
  <2>2. /\ lastRow' \in [Installs -> JournalRow]
        /\ lastRow'[p] = Done("extract") /\ lastRow'[p].step = "extract"
    BY <1>4, InstallRow DEF SafeExtractTarGz, StepNames, Done
  <2>3. InstallRest' /\ MountedWhole'
    BY <1>2, <1>4, <2>2 DEF SafeExtractTarGz, InstallCore, InstallRest, MountedWhole
  <2>4. WorkInv'
    BY <1>2, <1>4, <2>1, <2>2 DEF SafeExtractTarGz, WorkInv, InstallPcs, StepNames
  <2>5. JournalInv'
    BY <1>2, <1>4, <2>2 DEF SafeExtractTarGz, JournalInv
  <2> QED
    BY <2>3, <2>4, <2>5 DEF InstallCore
<1> QED
  BY <1>3, <1>4

\* A step that fails, or whose row is lost, ends the install without a success
\* row; what a lost extraction wipes was never journalled.
LEMMA InstallErrors ==
    ASSUME InstallCore, NEW p \in Installs, ExtractFails(p) \/ StepFails(p) \/ RecordStepFails(p) PROVE InstallCore'
<1>0. working.on = p /\ working.pc # "idle" /\ installFaults' \in 0..MaxInstallFault
  <2>1. working.on = p /\ installFaults' \in 0..MaxInstallFault
    BY InstallFaultBound DEF ExtractFails, StepFails, RecordStepFails, At
  <2>2. working # NotWorking
    BY <2>1, InstallAssumption DEF NotWorking
  <2> QED
    BY <2>1, <2>2 DEF InstallCore, WorkInv, InstallPcs, StepNames
<1>1. working # NotWorking /\ \A x : [working EXCEPT !.pc = x] = [on |-> p, pc |-> x, body |-> working.body]
  BY <1>0, InstallWorking
<1>2. ASSUME working.pc = "extracting" PROVE latest = p /\ lastRow[p].step = "verify_digest"
  BY <1>0, <1>1, <1>2 DEF InstallCore, WorkInv, Done
<1>3. CASE ExtractFails(p)
  <2>1. working' = [on |-> p, pc |-> "report", body |-> working.body]
    BY <1>1, <1>3 DEF ExtractFails, Then
  <2>2. lastRow' \in [Installs -> JournalRow] /\ lastRow'[p].outcome = "failed"
    BY <1>3, InstallRow DEF ExtractFails, StepNames
  <2>3. InstallRest' /\ MountedWhole'
    BY <1>0, <1>3, <2>2 DEF ExtractFails, InstallCore, InstallRest, MountedWhole
  <2>4. WorkInv'
    BY <2>1 DEF WorkInv, InstallPcs
  <2>5. latest' = p
    BY <1>2, <1>3 DEF ExtractFails, At
  <2>6. JournalInv'
    BY <2>2, <2>5 DEF JournalInv
  <2> QED
    BY <2>3, <2>4, <2>6 DEF InstallCore
<1>4. CASE StepFails(p)
  <2>1. /\ working.on = p /\ working.pc \in StepNames /\ RecordFailed(p)
        /\ UNCHANGED <<installStatus, verified, latest, served, tmpDir, skillDir, skillBox>>
    BY <1>4 DEF StepFails, StepNames
  <2> QED
    BY <1>0, <2>1, InstallGivesUp
<1>5. CASE RecordStepFails(p)
  <2>1. working' = [on |-> p, pc |-> "lost", body |-> working.body]
    BY <1>1, <1>5 DEF RecordStepFails, Then
  <2>2. InstallRest' /\ MountedWhole'
    BY <1>0, <1>5 DEF RecordStepFails, InstallCore, InstallRest, MountedWhole
  <2>3. WorkInv'
    BY <2>1 DEF WorkInv, InstallPcs
  <2>4. JournalInv'
    BY <1>2, <1>5 DEF RecordStepFails, InstallCore, JournalInv
  <2> QED
    BY <2>2, <2>3, <2>4 DEF InstallCore
<1> QED
  BY <1>3, <1>4, <1>5

\* While the old version is removed what is left of it is mounted, then nothing,
\* and after the rename the verified body.
LEMMA InstallMount == ASSUME InstallCore, NEW p \in Installs, StepMount(p) PROVE InstallCore'
<1>0. working.on = p /\ working.pc \in {"mount", "mounted"}
  BY DEF StepMount, At
<1>1. /\ working # NotWorking
      /\ working = [on |-> p, pc |-> working.pc, body |-> working.body]
      /\ \A x : [working EXCEPT !.pc = x] = [on |-> p, pc |-> x, body |-> working.body]
  BY <1>0, InstallWorking
<1>2. /\ latest = p /\ lastRow[p] = Done("extract") /\ lastRow[p].step = "extract"
      /\ working.pc = "mount" => tmpDir = p /\ p \in verified
      /\ working.pc = "mounted" => skillDir = p
  BY <1>0, <1>1 DEF InstallCore, WorkInv, Done
<1>3. CASE At(p, "mount") /\ skillDir' \in {"none", "remains"} /\ UNCHANGED <<tmpDir, working, lastRow>>
  <2>1. InstallRest' /\ MountedWhole'
    BY <1>3 DEF StepMount, InstallCore, InstallRest, MountedWhole
  <2>2. WorkInv'
    <3>1. working.pc = "mount" /\ UNCHANGED <<working, latest, verified, lastRow, tmpDir>>
      BY <1>3 DEF At, StepMount
    <3> QED
      BY <1>0, <1>1, <1>2, <3>1 DEF WorkInv, InstallPcs, StepNames
  <2>3. JournalInv'
    BY <1>2, <1>3 DEF StepMount, JournalInv, At
  <2> QED
    BY <2>1, <2>2, <2>3 DEF InstallCore
<1>4. CASE At(p, "mount") /\ skillDir' = tmpDir /\ tmpDir' = "none" /\ Then("mounted") /\ UNCHANGED lastRow
  <2>1. InstallRest' /\ MountedWhole'
    BY <1>2, <1>4 DEF StepMount, InstallCore, InstallRest, MountedWhole, At
  <2>2. working' = [on |-> p, pc |-> "mounted", body |-> working.body] /\ skillDir' = p
    BY <1>1, <1>2, <1>4 DEF Then, At
  <2>3. WorkInv'
    BY <1>2, <1>4, <2>2 DEF StepMount, WorkInv, InstallPcs
  <2>4. JournalInv'
    BY <1>2, <1>4, <2>2 DEF StepMount, JournalInv
  <2> QED
    BY <2>1, <2>3, <2>4 DEF InstallCore
<1>5. CASE At(p, "mounted") /\ Record(p, "mount", "success") /\ Then("container_create") /\ UNCHANGED <<tmpDir, skillDir>>
  <2>1. lastRow' \in [Installs -> JournalRow] /\ lastRow'[p] = Done("mount") /\ lastRow'[p].step = "mount"
    BY <1>5, InstallRow DEF StepNames, Done
  <2>2. InstallRest' /\ MountedWhole'
    BY <1>5, <2>1 DEF StepMount, InstallCore, InstallRest, MountedWhole
  <2>3. working' = [on |-> p, pc |-> "container_create", body |-> working.body] /\ skillDir' = p
    BY <1>1, <1>2, <1>5 DEF Then, At
  <2>4. WorkInv'
    BY <1>2, <1>5, <2>1, <2>3 DEF StepMount, WorkInv, InstallPcs, StepNames
  <2>5. JournalInv'
    BY <1>2, <1>5, <2>1, <2>3 DEF StepMount, JournalInv
  <2> QED
    BY <2>2, <2>4, <2>5 DEF InstallCore
<1> QED
  BY <1>3, <1>4, <1>5 DEF StepMount

\* The container is created, then journalled; a second one is refused.
LEMMA InstallCreate == ASSUME InstallCore, NEW p \in Installs, StepContainerCreate(p) PROVE InstallCore'
<1>0. working.on = p /\ working.pc \in {"container_create", "created"}
  BY DEF StepContainerCreate, At
<1>1. working # NotWorking /\ \A x : [working EXCEPT !.pc = x] = [on |-> p, pc |-> x, body |-> working.body]
  BY <1>0, InstallWorking
<1>2. /\ latest = p /\ skillDir = p /\ lastRow[p] = Done("mount") /\ lastRow[p].step = "mount"
      /\ working.pc = "created" => skillBox # "none"
  BY <1>0, <1>1 DEF InstallCore, WorkInv, Done
<1>3. CASE At(p, "container_create") /\ skillBox = "none" /\ skillBox' = "created" /\ Then("created") /\ UNCHANGED lastRow
  <2>1. InstallRest' /\ MountedWhole'
    BY <1>3 DEF StepContainerCreate, InstallCore, InstallRest, MountedWhole
  <2>2. working' = [on |-> p, pc |-> "created", body |-> working.body]
    BY <1>1, <1>3 DEF Then
  <2>3. WorkInv'
    BY <1>2, <1>3, <2>2 DEF StepContainerCreate, WorkInv, InstallPcs
  <2>4. JournalInv'
    BY <1>2, <1>3 DEF StepContainerCreate, JournalInv
  <2> QED
    BY <2>1, <2>3, <2>4 DEF InstallCore
<1>4. CASE At(p, "container_create") /\ RecordFailed(p) /\ UNCHANGED skillBox
  <2>1. /\ working.on = p /\ working.pc \in StepNames /\ RecordFailed(p)
        /\ UNCHANGED <<installStatus, verified, latest, served, tmpDir, skillDir, skillBox>>
        /\ installFaults' \in 0..MaxInstallFault
    BY <1>4 DEF StepContainerCreate, At, StepNames, InstallCore, InstallRest
  <2> QED
    BY <2>1, InstallGivesUp
<1>5. CASE At(p, "created") /\ Record(p, "container_create", "success") /\ Then("container_start") /\ UNCHANGED skillBox
  <2>1. /\ lastRow' \in [Installs -> JournalRow]
        /\ lastRow'[p] = Done("container_create") /\ lastRow'[p].step = "container_create"
    BY <1>5, InstallRow DEF StepNames, Done
  <2>2. InstallRest' /\ MountedWhole'
    BY <1>5, <2>1 DEF StepContainerCreate, InstallCore, InstallRest, MountedWhole
  <2>3. working' = [on |-> p, pc |-> "container_start", body |-> working.body] /\ skillBox # "none"
    BY <1>1, <1>2, <1>5 DEF Then, At
  <2>4. WorkInv'
    BY <1>2, <1>5, <2>1, <2>3 DEF StepContainerCreate, WorkInv, InstallPcs, StepNames
  <2>5. JournalInv'
    BY <1>2, <1>5, <2>1, <2>3 DEF StepContainerCreate, JournalInv
  <2> QED
    BY <2>2, <2>4, <2>5 DEF InstallCore
<1> QED
  BY <1>3, <1>4, <1>5 DEF StepContainerCreate

\* The container runs before its start is journalled.
LEMMA InstallStart == ASSUME InstallCore, NEW p \in Installs, StepContainerStart(p) PROVE InstallCore'
<1>0. working.on = p /\ working.pc \in {"container_start", "started"}
  BY DEF StepContainerStart, At
<1>1. working # NotWorking /\ \A x : [working EXCEPT !.pc = x] = [on |-> p, pc |-> x, body |-> working.body]
  BY <1>0, InstallWorking
<1>2. /\ latest = p /\ skillDir = p /\ skillBox # "none"
      /\ lastRow[p] = Done("container_create") /\ lastRow[p].step = "container_create"
      /\ working.pc = "started" => skillBox = "running"
  BY <1>0, <1>1 DEF InstallCore, WorkInv, Done
<1>3. CASE At(p, "container_start") /\ skillBox' = "running" /\ Then("started") /\ UNCHANGED lastRow
  <2>1. InstallRest' /\ MountedWhole'
    BY <1>3 DEF StepContainerStart, InstallCore, InstallRest, MountedWhole
  <2>2. working' = [on |-> p, pc |-> "started", body |-> working.body]
    BY <1>1, <1>3 DEF Then
  <2>3. WorkInv'
    BY <1>2, <1>3, <2>2 DEF StepContainerStart, WorkInv, InstallPcs
  <2>4. JournalInv'
    BY <1>2, <1>3 DEF StepContainerStart, JournalInv
  <2> QED
    BY <2>1, <2>3, <2>4 DEF InstallCore
<1>4. CASE At(p, "started") /\ Record(p, "container_start", "success") /\ Then("report") /\ UNCHANGED skillBox
  <2>1. /\ lastRow' \in [Installs -> JournalRow]
        /\ lastRow'[p] = Done("container_start") /\ lastRow'[p].step = "container_start"
    BY <1>4, InstallRow DEF StepNames, Done
  <2>2. InstallRest' /\ MountedWhole'
    BY <1>4, <2>1 DEF StepContainerStart, InstallCore, InstallRest, MountedWhole
  <2>3. working' = [on |-> p, pc |-> "report", body |-> working.body] /\ skillBox = "running"
    BY <1>1, <1>2, <1>4 DEF Then, At
  <2>4. WorkInv'
    BY <2>3 DEF WorkInv, InstallPcs
  <2>5. JournalInv'
    BY <1>2, <1>4, <2>1, <2>3 DEF StepContainerStart, JournalInv
  <2> QED
    BY <2>2, <2>4, <2>5 DEF InstallCore
<1> QED
  BY <1>3, <1>4 DEF StepContainerStart

\* The caller's mark, a crash and a republished version.
LEMMA InstallOutside ==
    ASSUME InstallCore, NEW p \in Installs, CallerMarks(p) \/ Republished(p) \/ InstallerCrashes PROVE InstallCore'
<1>1. CASE CallerMarks(p)
  <2>1. /\ installStatus' \in [Installs -> {"install_in_progress", "installed", "install_failed"}]
        /\ installFaults' \in 0..MaxInstallFault
    BY <1>1 DEF CallerMarks, InstallCore, InstallRest
  <2> QED
    BY <1>1, <2>1, InstallRestarts DEF CallerMarks
<1>2. CASE Republished(p)
  <2>1. installFaults' \in 0..MaxInstallFault
    BY <1>2, InstallFaultBound DEF Republished
  <2>2. served' \in [Installs -> Bodies]
    BY <1>2 DEF Republished, InstallCore, InstallRest, Bodies
  <2>3. InstallRest' /\ JournalInv' /\ MountedWhole'
    BY <1>2, <2>1, <2>2 DEF Republished, InstallCore, InstallRest, JournalInv, MountedWhole
  <2>4. WorkInv'
    BY <1>2 DEF Republished, InstallCore, WorkInv, NotWorking
  <2> QED
    BY <2>3, <2>4 DEF InstallCore
<1>3. CASE InstallerCrashes
  <2>1. installFaults' \in 0..MaxInstallFault /\ installStatus' = installStatus
    BY <1>3, InstallFaultBound DEF InstallerCrashes
  <2> QED
    BY <1>3, <2>1, InstallRestarts DEF InstallerCrashes, InstallCore, InstallRest
<1> QED
  BY <1>1, <1>2, <1>3

\* Every step of the installer keeps InstallCore.
LEMMA InstallCoreStep == InstallCore /\ [InstallNext]_installVars => InstallCore'
<1> SUFFICES ASSUME InstallCore, [InstallNext]_installVars PROVE InstallCore'
  OBVIOUS
<1>1. CASE UNCHANGED installVars
  BY <1>1 DEF installVars, InstallCore, InstallRest, WorkInv, JournalInv, MountedWhole, NotWorking
<1>2. CASE InstallerCrashes
  <2>1. PICK p \in Installs : TRUE
    BY <1>2 DEF InstallerCrashes, InstallCore, WorkInv
  <2> QED
    BY <1>2, InstallOutside
<1>3. ASSUME NEW p \in Installs,
             \/ Resume(p) \/ StepDownload(p) \/ StepVerifyDigest(p) \/ StepExtract(p) \/ SafeExtractTarGz(p)
             \/ ExtractFails(p) \/ StepMount(p) \/ StepContainerCreate(p) \/ StepContainerStart(p)
             \/ StepFails(p) \/ RecordStepFails(p) \/ CallerMarks(p) \/ Republished(p)
      PROVE  InstallCore'
  BY <1>3, InstallResume, InstallDownload, InstallVerify, InstallExtract, InstallErrors, InstallMount,
     InstallCreate, InstallStart, InstallOutside
<1> QED
  BY <1>1, <1>2, <1>3 DEF InstallNext

\* A removal is under way only in the mount step, and only a fault leaves that
\* step with part of the old version still there.
LEMMA TornStays == ASSUME InstallCore, Torn, [InstallNext]_installVars PROVE Torn'
<1> SUFFICES ASSUME skillDir' = "remains", ~(installFaults' > 0) PROVE working'.pc = "mount"
  BY DEF Torn
<1>1. installFaults \in Nat /\ (installFaults' = installFaults \/ installFaults' = installFaults + 1)
  <2>1. installFaults \in Nat
    BY InstallAssumption DEF InstallCore, InstallRest
  <2>2. ASSUME NEW p \in Installs,
               \/ StepDownload(p) \/ StepVerifyDigest(p) \/ StepExtract(p) \/ SafeExtractTarGz(p) \/ StepMount(p)
               \/ StepContainerCreate(p) \/ StepContainerStart(p) \/ CallerMarks(p)
        PROVE  installFaults' = installFaults
    BY <2>2 DEF StepDownload, StepVerifyDigest, StepExtract, SafeExtractTarGz, StepMount, StepContainerCreate,
       StepContainerStart, CallerMarks
  <2>3. ASSUME NEW p \in Installs,
               ExtractFails(p) \/ StepFails(p) \/ RecordStepFails(p) \/ Republished(p) \/ InstallerCrashes
        PROVE  installFaults' = installFaults + 1
    BY <2>3 DEF ExtractFails, StepFails, RecordStepFails, Republished, InstallerCrashes, InstallFault
  <2>4. ASSUME NEW p \in Installs, Resume(p)
        PROVE  installFaults' = installFaults \/ installFaults' = installFaults + 1
    BY <2>4 DEF Resume, InstallFault
  <2>5. InstallerCrashes => installFaults' = installFaults + 1
    BY DEF InstallerCrashes, InstallFault
  <2>6. UNCHANGED installVars => installFaults' = installFaults
    BY DEF installVars
  <2> QED
    BY <2>1, <2>2, <2>3, <2>4, <2>5, <2>6 DEF InstallNext
<1>2. installFaults' = installFaults /\ ~(installFaults > 0)
  BY <1>1
<1>3. ~InstallFault
  BY <1>1, <1>2 DEF InstallFault
<1>4. CASE UNCHANGED installVars
  BY <1>2, <1>4 DEF Torn, installVars
<1>5. CASE \E p \in Installs : StepMount(p)
  <2> PICK p \in Installs : StepMount(p)
    BY <1>5
  <2>1. CASE At(p, "mount") /\ UNCHANGED working
    BY <2>1 DEF At
  <2>2. CASE At(p, "mount") /\ skillDir' = tmpDir
    <3>1. working # NotWorking
      BY <2>2 DEF At, NotWorking
    <3>2. tmpDir = p
      BY <2>2, <3>1 DEF At, InstallCore, WorkInv
    <3> QED
      BY <2>2, <3>2, InstallAssumption
  <2>3. CASE At(p, "mounted") /\ UNCHANGED skillDir
    <3>1. working.pc # "mount"
      BY <2>3 DEF At
    <3> QED
      BY <1>2, <2>3, <3>1 DEF Torn
  <2> QED
    BY <2>1, <2>2, <2>3 DEF StepMount
<1>6. ASSUME NEW p \in Installs,
             \/ Resume(p) \/ StepDownload(p) \/ StepVerifyDigest(p) \/ StepExtract(p) \/ SafeExtractTarGz(p)
             \/ StepContainerCreate(p) \/ StepContainerStart(p) \/ CallerMarks(p)
      PROVE  FALSE
  <2>1. UNCHANGED skillDir
    BY <1>6 DEF Resume, StepDownload, StepVerifyDigest, StepExtract, SafeExtractTarGz, StepContainerCreate,
       StepContainerStart, CallerMarks
  <2>2. working.pc # "mount"
    BY <1>6 DEF Resume, StepDownload, StepVerifyDigest, StepExtract, SafeExtractTarGz, StepContainerCreate,
       StepContainerStart, CallerMarks, At, NotWorking
  <2> QED
    BY <1>2, <2>1, <2>2 DEF Torn
<1>7. ASSUME NEW p \in Installs, ExtractFails(p) \/ StepFails(p) \/ RecordStepFails(p) \/ Republished(p) PROVE FALSE
  BY <1>3, <1>7 DEF ExtractFails, StepFails, RecordStepFails, Republished
<1>8. CASE InstallerCrashes
  BY <1>3, <1>8 DEF InstallerCrashes
<1> QED
  BY <1>4, <1>5, <1>6, <1>7, <1>8 DEF InstallNext

\* Nothing is mounted at first.
LEMMA InstallInvInit == InstallInit => InstallInv
  BY InstallCoreInit DEF InstallInit, InstallInv, Torn

\* Every step of the installer keeps the invariant.
LEMMA InstallInvStep == InstallInv /\ [InstallNext]_installVars => InstallInv'
  BY InstallCoreStep, TornStays DEF InstallInv

-----------------------------------------------------------------------------
(* The fleet of containers *)

Uids == {NoUid} \union UIDStart..UIDEnd
StaffRec == [hired : BOOLEAN, uid : Uids, image : 0..MaxDeploy]
BoxRec == [is : BOOLEAN, uid : Uids, image : 0..MaxDeploy, cfg : 0..MaxDeploy, up : BOOLEAN]
BootRec ==
    [pc : {"down", "migrate", "start", "record", "reconcile", "walk", "remove", "create", "run", "serve"},
     todo : SUBSET AgentNos, on : 0..NAgents, uid : Uids,
     report : [AgentNos -> {"unchanged", "created", "started"}]]

FleetTypes ==
    /\ staff \in [AgentNos -> StaffRec] /\ box \in [AgentNos -> BoxRec] /\ boot \in BootRec
    /\ boxLog \in [AgentNos -> AgentKinds] /\ intact \in BOOLEAN
    /\ deployed \in 0..MaxDeploy /\ fleetFaults \in 0..MaxFleetFault

\* The agents that have a uid are the first ones created, and their uids grow
\* in that order.
Seniority ==
    /\ \E k \in 0..NAgents : \A a \in AgentNos : (staff[a].uid # NoUid) <=> (a <= k)
    /\ \A a, b \in AgentNos : a < b /\ staff[b].uid # NoUid => staff[a].uid < staff[b].uid
    /\ \A a, b \in AgentNos : a < b /\ staff[b].hired => staff[a].hired

\* A container without a uid in its agent's row belongs to the agent that is
\* next in line, and its uid is above every recorded one.
BoxesFit ==
    /\ \A a, b \in AgentNos : a < b /\ box[b].is => staff[a].uid # NoUid /\ staff[a].uid < box[b].uid
    /\ \A a \in AgentNos : box[a].is /\ staff[a].uid # NoUid => box[a].uid = staff[a].uid
    /\ \A a \in AgentNos : box[a].up => box[a].is

RightShape(a) ==
    /\ box[a].is /\ box[a].uid = staff[a].uid
    /\ box[a].image = staff[a].image /\ box[a].cfg = deployed

\* Where the boot stands.
BootFits ==
    /\ boot.pc \in {"migrate", "start", "record"} => boot.todo = ListAgentsNotGrandfathered
    /\ boot.pc \in {"start", "record", "remove", "create", "run"} => boot.on \in boot.todo
    /\ boot.pc \in {"start", "record"} => box[boot.on].is /\ box[boot.on].uid = boot.uid /\ boot.uid # NoUid
    /\ boot.pc \in {"walk", "remove", "create", "run"} => boot.todo \subseteq ListAgentsForContainerReconcile
    /\ boot.pc = "remove" => ~ box[boot.on].up
    /\ boot.pc = "create" => ~ box[boot.on].is
    /\ boot.pc = "run" => RightShape(boot.on)
    /\ boot.pc \in {"down", "migrate", "start", "record", "reconcile"} => ~ intact
    /\ boot.pc = "serve" => boot.todo = {}

\* What a walk without a failure has passed is as configured.
WalkedAreRight ==
    boot.pc \in {"walk", "remove", "create", "run", "serve"} /\ intact =>
        \A a \in AgentNos \ boot.todo : staff[a].uid # NoUid => RightShape(a) /\ box[a].up

FleetInv == FleetTypes /\ Seniority /\ BoxesFit /\ BootFits /\ WalkedAreRight

\* FleetInv implies what is checked of the fleet.
LEMMA FleetSafe == FleetInv => FleetTypeOK /\ FleetIsSound
<1> SUFFICES ASSUME FleetInv PROVE FleetTypeOK /\ FleetIsSound
  OBVIOUS
<1>1. FleetTypeOK
  BY DEF FleetInv, FleetTypes, FleetTypeOK, StaffRec, BoxRec, BootRec, Uids
<1>2. UidsNeverShared
  <2>1. \A a, b \in AgentNos : a < b /\ box[a].is /\ box[b].is => box[a].uid < box[b].uid
    BY DEF FleetInv, BoxesFit
  <2>2. \A a \in AgentNos : box[a].uid \in Int
    BY FleetAssumption DEF FleetInv, FleetTypes, BoxRec, Uids, NoUid
  <2> QED
    BY <2>1, <2>2, FleetAssumption DEF UidsNeverShared, AgentNos
<1>3. BootConverges
  BY DEF FleetInv, BootFits, WalkedAreRight, RightShape, BootConverges
<1> QED
  BY <1>1, <1>2, <1>3 DEF FleetIsSound

\* A boot that is down, or at one of the points it starts over from.
LEMMA FleetDown ==
    ASSUME NEW x \in {"down", "migrate", "reconcile", "serve"}
    PROVE  /\ [Down EXCEPT !.pc = x] \in BootRec
           /\ [Down EXCEPT !.pc = x].pc = x /\ [Down EXCEPT !.pc = x].todo = {}
           /\ Down \in BootRec /\ Down.pc = "down" /\ Down.todo = {}
BY FleetAssumption DEF Down, BootRec, Uids

\* Nobody has a uid or a container yet.
LEMMA FleetInvInit == FleetInit => FleetInv
<1> SUFFICES ASSUME FleetInit PROVE FleetInv
  OBVIOUS
<1>1. FleetTypes
  <2>1. [a \in AgentNos |-> [hired |-> a <= Seeded, uid |-> NoUid, image |-> 0]] \in [AgentNos -> StaffRec]
    BY FleetAssumption DEF StaffRec, Uids
  <2>2. NoBox \in BoxRec
    BY FleetAssumption DEF NoBox, BoxRec, Uids
  <2>3. Down \in BootRec
    BY FleetDown
  <2>4. boxLog \in [AgentNos -> AgentKinds]
    BY DEF FleetInit, AgentKinds
  <2>5. deployed \in 0..MaxDeploy /\ fleetFaults \in 0..MaxFleetFault
    <3>1. deployed = 0 /\ fleetFaults = 0
      BY DEF FleetInit
    <3> QED
      BY <3>1, FleetAssumption
  <2>6. box \in [AgentNos -> BoxRec]
    BY <2>2 DEF FleetInit
  <2>7. intact \in BOOLEAN
    BY DEF FleetInit
  <2> QED
    BY <2>1, <2>3, <2>4, <2>5, <2>6, <2>7 DEF FleetInit, FleetTypes
<1>2. \A a \in AgentNos : staff[a].uid = NoUid /\ staff[a].hired = (a <= Seeded) /\ ~ box[a].is /\ ~ box[a].up
  BY DEF FleetInit, NoBox
<1>3. Seniority
  <2>1. \A a \in AgentNos : (staff[a].uid # NoUid) <=> (a <= 0)
    BY <1>2 DEF AgentNos
  <2>2. 0 \in 0..NAgents
    BY FleetAssumption
  <2>3. \A a, b \in AgentNos : a < b /\ staff[b].hired => staff[a].hired
    <3>1. \A a, b \in AgentNos : a < b /\ b <= Seeded => a <= Seeded
      BY FleetAssumption DEF AgentNos
    <3> QED
      BY <1>2, <3>1
  <2> QED
    BY <1>2, <2>1, <2>2, <2>3 DEF Seniority
<1>4. BoxesFit
  BY <1>2 DEF BoxesFit
<1>5. boot.pc = "down" /\ ~ intact
  BY FleetDown DEF FleetInit
<1>6. BootFits /\ WalkedAreRight
  BY <1>5 DEF BootFits, WalkedAreRight
<1> QED
  BY <1>1, <1>3, <1>4, <1>6 DEF FleetInv

\* Faults of the container fleet stay within their bound.
LEMMA FleetFaultBound == FleetInv /\ FleetFault => fleetFaults' \in 0..MaxFleetFault
BY FleetAssumption DEF FleetInv, FleetTypes, FleetFault

\* The next agent to grandfather, and a uid above every recorded one.
LEMMA FleetNextInLine ==
    ASSUME FleetInv, ListAgentsNotGrandfathered # {}
    PROVE  /\ FirstCreated(ListAgentsNotGrandfathered) \in ListAgentsNotGrandfathered
           /\ \A b \in AgentNos : b < FirstCreated(ListAgentsNotGrandfathered) => staff[b].uid # NoUid
           /\ \A b \in AgentNos : staff[b].uid < AllocateNextHostUID
           /\ AllocateNextHostUID >= UIDStart /\ AllocateNextHostUID \in Int
<1>1. PICK k \in 0..NAgents : \A a \in AgentNos : (staff[a].uid # NoUid) <=> (a <= k)
  BY DEF FleetInv, Seniority
<1>2. \A a \in AgentNos : staff[a].uid \in Int /\ (staff[a].uid # NoUid => staff[a].uid \in UIDStart..UIDEnd)
  BY FleetAssumption DEF FleetInv, FleetTypes, StaffRec, Uids, NoUid
<1>3. PICK c \in AgentNos : staff[c].hired /\ staff[c].uid = NoUid
  BY DEF ListAgentsNotGrandfathered
<1>4. k \in Int /\ c \in Int /\ k < c /\ k + 1 \in AgentNos
  BY <1>1, <1>3, FleetAssumption DEF AgentNos
<1>5. k + 1 \in ListAgentsNotGrandfathered
  <2>1. staff[k + 1].hired
    BY <1>3, <1>4 DEF FleetInv, Seniority, AgentNos
  <2>2. staff[k + 1].uid = NoUid
    BY <1>1, <1>4
  <2> QED
    BY <1>4, <2>1, <2>2 DEF ListAgentsNotGrandfathered
<1>6. \A b \in ListAgentsNotGrandfathered : b \in Int /\ k + 1 <= b
  BY <1>1, <1>4 DEF ListAgentsNotGrandfathered, AgentNos
<1>7. FirstCreated(ListAgentsNotGrandfathered) = k + 1
  <2>1. \E a \in ListAgentsNotGrandfathered : \A b \in ListAgentsNotGrandfathered : a <= b
    BY <1>5, <1>6
  <2>2. /\ FirstCreated(ListAgentsNotGrandfathered) \in ListAgentsNotGrandfathered
        /\ \A b \in ListAgentsNotGrandfathered : FirstCreated(ListAgentsNotGrandfathered) <= b
    BY <2>1 DEF FirstCreated
  <2> QED
    BY <1>4, <1>5, <1>6, <2>2
<1>8. CASE k = 0
  <2>1. \A b \in AgentNos : staff[b].uid = NoUid
    BY <1>1, <1>8 DEF AgentNos
  <2>2. UidsInUse = {}
    BY <2>1 DEF UidsInUse
  <2>3. AllocateNextHostUID = UIDStart
    BY <2>2 DEF AllocateNextHostUID
  <2> QED
    BY <1>1, <1>4, <1>5, <1>7, <2>1, <2>3, FleetAssumption DEF NoUid, AgentNos
<1>9. CASE k # 0
  <2>1. k \in AgentNos /\ staff[k].uid \in UidsInUse
    BY <1>1, <1>9 DEF UidsInUse, AgentNos
  <2>2. \A b \in AgentNos : staff[b].uid # NoUid => staff[b].uid <= staff[k].uid
    BY <1>1, <1>2, <2>1 DEF FleetInv, Seniority, AgentNos
  <2>3. \A v \in UidsInUse : v \in Int /\ v <= staff[k].uid
    BY <1>2, <2>2 DEF UidsInUse
  <2>4. (CHOOSE u \in UidsInUse : \A v \in UidsInUse : v <= u) = staff[k].uid
    BY <1>2, <2>1, <2>3
  <2>5. AllocateNextHostUID = 1 + staff[k].uid
    BY <2>1, <2>4 DEF AllocateNextHostUID
  <2>6. \A b \in AgentNos : staff[b].uid <= staff[k].uid
    BY <1>2, <2>1, <2>2, FleetAssumption DEF NoUid, FleetInv, FleetTypes, UidsInUse
  <2>7. staff[k].uid >= UIDStart /\ staff[k].uid \in Int
    BY <1>1, <1>2, <2>1, FleetAssumption
  <2> QED
    BY <1>1, <1>2, <1>4, <1>5, <1>7, <2>5, <2>6, <2>7, FleetAssumption DEF AgentNos
<1> QED
  BY <1>8, <1>9

\* A container stopped or started keeps its shape.
LEMMA BoxSwitched ==
    ASSUME NEW b \in BoxRec, NEW x \in BOOLEAN
    PROVE  /\ [b EXCEPT !.up = x] \in BoxRec
           /\ [b EXCEPT !.up = x].up = x /\ [b EXCEPT !.up = x].is = b.is
           /\ [b EXCEPT !.up = x].uid = b.uid /\ [b EXCEPT !.up = x].image = b.image
           /\ [b EXCEPT !.up = x].cfg = b.cfg
<1>1. [b EXCEPT !.up = x] \in BoxRec
  BY DEF BoxRec
<1>2. [b EXCEPT !.up = x].up = x /\ [b EXCEPT !.up = x].is = b.is
  BY DEF BoxRec
<1>3. [b EXCEPT !.up = x].uid = b.uid /\ [b EXCEPT !.up = x].image = b.image /\ [b EXCEPT !.up = x].cfg = b.cfg
  BY DEF BoxRec
<1> QED
  BY <1>1, <1>2, <1>3

\* The container a create request asks for.
LEMMA BoxCreated ==
    ASSUME deployed \in 0..MaxDeploy, NEW u \in Uids, NEW i \in 0..MaxDeploy
    PROVE  \E w \in BoxRec : /\ w = ShapeOf(u, i) /\ w.is /\ w.uid = u /\ w.image = i
                             /\ w.cfg = deployed /\ ~ w.up
<1>0. NoBox \in BoxRec
  BY FleetAssumption DEF NoBox, BoxRec, Uids
<1>1. PICK n \in BoxRec : n = NoBox
  BY <1>0
<1>2. PICK w : w = [n EXCEPT !.is = TRUE, !.uid = u, !.image = i, !.cfg = deployed]
  OBVIOUS
<1>3. w \in BoxRec
  BY <1>2 DEF BoxRec
<1>4. w.is /\ w.uid = u /\ w.image = i /\ w.cfg = deployed /\ w.up = n.up
  BY <1>2 DEF BoxRec
<1>5. ~ n.up
  BY <1>1 DEF NoBox
<1>6. w = ShapeOf(u, i)
  BY <1>1, <1>2 DEF ShapeOf
<1> QED
  BY <1>3, <1>4, <1>5, <1>6

\* The boot gives up what it was at, or ends: no container is touched.
LEMMA FleetResets ==
    ASSUME FleetInv, NEW x \in {"down", "reconcile", "serve"},
           boot' = [Down EXCEPT !.pc = x] \/ (x = "down" /\ boot' = Down),
           UNCHANGED <<staff, box, deployed, boxLog>>, intact' = FALSE,
           fleetFaults' \in 0..MaxFleetFault
    PROVE  FleetInv'
<1>1. boot' \in BootRec /\ boot'.pc = x /\ boot'.todo = {}
  BY FleetDown
<1>2. FleetTypes'
  BY <1>1 DEF FleetInv, FleetTypes
<1>3. Seniority' /\ BoxesFit'
  BY DEF FleetInv, Seniority, BoxesFit
<1>4. BootFits' /\ WalkedAreRight'
  BY <1>1 DEF BootFits, WalkedAreRight
<1> QED
  BY <1>2, <1>3, <1>4 DEF FleetInv

\* The boot begins with the agents that have no uid.
LEMMA FleetBoots == ASSUME FleetInv, BootStarts PROVE FleetInv'
<1>1. ListAgentsNotGrandfathered \in SUBSET AgentNos
  BY DEF ListAgentsNotGrandfathered
<1>2. boot' \in BootRec /\ boot'.pc = "migrate" /\ boot'.todo = ListAgentsNotGrandfathered
  <2>1. Down \in BootRec /\ boot' = [Down EXCEPT !.pc = "migrate", !.todo = ListAgentsNotGrandfathered]
    BY FleetDown DEF BootStarts
  <2>2. PICK d \in BootRec : d = Down
    BY <2>1
  <2>3. boot' = [d EXCEPT !.pc = "migrate", !.todo = ListAgentsNotGrandfathered]
    BY <2>1, <2>2
  <2> QED
    BY <1>1, <2>3 DEF BootRec
<1>3. FleetTypes'
  BY <1>2 DEF BootStarts, FleetInv, FleetTypes
<1>4. Seniority' /\ BoxesFit'
  BY DEF BootStarts, FleetInv, Seniority, BoxesFit
<1>5. BootFits' /\ WalkedAreRight'
  BY <1>2 DEF BootStarts, BootFits, WalkedAreRight, ListAgentsNotGrandfathered
<1> QED
  BY <1>3, <1>4, <1>5 DEF FleetInv

\* migrate7 ends, with or without an error.
LEMMA FleetMigrated ==
    ASSUME FleetInv, RunDone \/ GrandfatherFails \/ ReconcileListFails \/ SupervisorEnds PROVE FleetInv'
<1>1. fleetFaults' \in 0..MaxFleetFault
  BY FleetFaultBound DEF RunDone, GrandfatherFails, ReconcileListFails, SupervisorEnds, FleetInv, FleetTypes
<1>2. intact' = FALSE
  BY DEF RunDone, GrandfatherFails, ReconcileListFails, SupervisorEnds, FleetInv, BootFits, FleetTypes
<1>3. \E x \in {"down", "reconcile", "serve"} : boot' = [Down EXCEPT !.pc = x] \/ (x = "down" /\ boot' = Down)
  BY DEF RunDone, GrandfatherFails, ReconcileListFails, SupervisorEnds, RunStops
<1>4. UNCHANGED <<staff, box, deployed, boxLog>>
  BY DEF RunDone, GrandfatherFails, ReconcileListFails, SupervisorEnds
<1> QED
  BY <1>1, <1>2, <1>3, <1>4, FleetResets

\* A container is created only for the agent next in line, with a uid above
\* every recorded one; a container left behind stops the run instead.
LEMMA FleetGrandfathers == ASSUME FleetInv, GrandfatherCreates PROVE FleetInv'
<1> DEFINE first == FirstCreated(boot.todo)
<1>1. /\ boot.pc = "migrate" /\ boot.todo = ListAgentsNotGrandfathered /\ boot.todo # {} /\ ~ intact
      /\ UNCHANGED <<staff, deployed, boxLog, intact, fleetFaults>>
  BY DEF GrandfatherCreates, FleetInv, BootFits
<1>2. PICK u : u = AllocateNextHostUID
  OBVIOUS
<1>3. PICK a \in AgentNos : a = first /\ a \in boot.todo /\ staff[a].uid = NoUid
  BY <1>1, FleetNextInLine DEF ListAgentsNotGrandfathered
<1>4. /\ \A b \in AgentNos : b < a => staff[b].uid # NoUid
      /\ \A b \in AgentNos : staff[b].uid < u
      /\ u >= UIDStart /\ u \in Int
  BY <1>1, <1>2, <1>3, FleetNextInLine
<1>5. CASE u <= UIDEnd /\ CanCreate(a)
  <2>1. /\ box' = [box EXCEPT ![a] = ShapeOf(u, deployed)]
        /\ boot' = [boot EXCEPT !.pc = "start", !.on = a, !.uid = u]
    BY <1>2, <1>3, <1>5 DEF GrandfatherCreates
  <2>2. u \in Uids /\ u # NoUid
    BY <1>4, <1>5, FleetAssumption DEF Uids, NoUid
  <2>3. boot' \in BootRec /\ boot'.pc = "start" /\ boot'.on = a /\ boot'.uid = u /\ boot'.todo = boot.todo
    <3>1. boot \in BootRec /\ a \in 0..NAgents
      BY DEF FleetInv, FleetTypes, AgentNos
    <3> QED
      BY <2>1, <2>2, <3>1 DEF BootRec
  <2>4. PICK w \in BoxRec : w = ShapeOf(u, deployed) /\ w.is /\ w.uid = u /\ ~ w.up
    BY <2>2, BoxCreated DEF FleetInv, FleetTypes
  <2>5. box'[a] = w /\ \A b \in AgentNos \ {a} : box'[b] = box[b]
    BY <2>1, <2>4 DEF FleetInv, FleetTypes
  <2>6. FleetTypes'
    BY <1>1, <2>1, <2>3, <2>4 DEF FleetInv, FleetTypes
  <2>7. Seniority'
    BY <1>1 DEF FleetInv, Seniority
  <2>8. BoxesFit'
    BY <1>1, <1>3, <1>4, <2>4, <2>5 DEF FleetInv, BoxesFit
  <2>9. BootFits' /\ WalkedAreRight'
    BY <1>1, <1>3, <2>2, <2>3, <2>4, <2>5 DEF BootFits, WalkedAreRight, ListAgentsNotGrandfathered
  <2> QED
    BY <2>6, <2>7, <2>8, <2>9 DEF FleetInv
<1>6. CASE ~ (u <= UIDEnd /\ CanCreate(a))
  <2>1. boot' = [Down EXCEPT !.pc = "reconcile"] /\ UNCHANGED box
    BY <1>2, <1>3, <1>6 DEF GrandfatherCreates, RunStops
  <2>2. intact' = FALSE /\ fleetFaults' \in 0..MaxFleetFault
    BY <1>1 DEF FleetInv, FleetTypes
  <2> QED
    BY <1>1, <2>1, <2>2, FleetResets
<1> QED
  BY <1>5, <1>6

\* The started container runs, or the transaction writes its uid.
LEMMA FleetRecords == ASSUME FleetInv, GrandfatherStarts \/ GrandfatherCommits PROVE FleetInv'
<1>1. /\ boot.pc \in {"start", "record"} /\ boot.todo = ListAgentsNotGrandfathered /\ ~ intact
      /\ boot \in BootRec /\ boot.uid \in Uids
      /\ UNCHANGED <<deployed, intact, fleetFaults>>
  BY DEF GrandfatherStarts, GrandfatherCommits, FleetInv, FleetTypes, BootFits, BootRec
<1>2. PICK a \in AgentNos : a = boot.on /\ a \in boot.todo /\ staff[a].uid = NoUid
  BY <1>1 DEF FleetInv, BootFits, ListAgentsNotGrandfathered
<1>3. PICK u \in Uids : u = boot.uid /\ u # NoUid /\ box[a].uid = u /\ box[a].is
  BY <1>1, <1>2 DEF FleetInv, BootFits
<1>4. CASE GrandfatherStarts
  <2>1. boot' \in BootRec /\ boot'.pc = "record" /\ boot'.on = a /\ boot'.uid = u /\ boot'.todo = boot.todo
    BY <1>1, <1>2, <1>3, <1>4 DEF GrandfatherStarts, BootRec
  <2>2. PICK w \in BoxRec : w = [box[a] EXCEPT !.up = TRUE] /\ w.is = box[a].is /\ w.uid = box[a].uid
    BY BoxSwitched DEF FleetInv, FleetTypes
  <2>3. box' = [box EXCEPT ![a] = w] /\ UNCHANGED <<staff, boxLog>>
    BY <1>2, <1>4, <2>2 DEF GrandfatherStarts
  <2>4. box'[a] = w /\ \A b \in AgentNos \ {a} : box'[b] = box[b]
    BY <2>3 DEF FleetInv, FleetTypes
  <2>5. FleetTypes'
    BY <1>1, <2>1, <2>3 DEF FleetInv, FleetTypes
  <2>6. Seniority'
    BY <2>3 DEF FleetInv, Seniority
  <2>7. BoxesFit'
    BY <1>3, <2>2, <2>3, <2>4 DEF FleetInv, BoxesFit
  <2>8. BootFits' /\ WalkedAreRight'
    BY <1>1, <1>2, <1>3, <2>1, <2>2, <2>3, <2>4 DEF BootFits, WalkedAreRight, ListAgentsNotGrandfathered
  <2> QED
    BY <2>5, <2>6, <2>7, <2>8 DEF FleetInv
<1>5. CASE GrandfatherCommits
  <2>1. boot' \in BootRec /\ boot'.pc = "migrate" /\ boot'.todo = boot.todo \ {a}
    <3>1. 0 \in 0..NAgents /\ NoUid \in Uids /\ boot.todo \ {a} \in SUBSET AgentNos
      BY <1>1, FleetAssumption DEF Uids, BootRec
    <3> QED
      BY <1>1, <1>2, <1>5, <3>1 DEF GrandfatherCommits, BootRec
  <2>2. PICK s \in StaffRec : s = staff[a]
    BY DEF FleetInv, FleetTypes
  <2>3. deployed \in 0..MaxDeploy
    BY DEF FleetInv, FleetTypes
  <2>4. PICK v \in StaffRec : /\ v = [[s EXCEPT !.uid = u] EXCEPT !.image = deployed]
                               /\ v.uid = u /\ v.hired = s.hired
    <3>1. PICK t \in StaffRec : t = [s EXCEPT !.uid = u] /\ t.uid = u /\ t.hired = s.hired
      <4>1. [s EXCEPT !.uid = u] \in StaffRec
        BY DEF StaffRec
      <4>2. [s EXCEPT !.uid = u].uid = u /\ [s EXCEPT !.uid = u].hired = s.hired
        BY DEF StaffRec
      <4> QED
        BY <4>1, <4>2
    <3>2. PICK v \in StaffRec : v = [t EXCEPT !.image = deployed] /\ v.uid = t.uid /\ v.hired = t.hired
      <4>1. [t EXCEPT !.image = deployed] \in StaffRec
        BY <2>3 DEF StaffRec
      <4>2. [t EXCEPT !.image = deployed].uid = t.uid /\ [t EXCEPT !.image = deployed].hired = t.hired
        BY DEF StaffRec
      <4> QED
        BY <4>1, <4>2
    <3> QED
      BY <3>1, <3>2
  <2>5. v.uid = u /\ v.hired = staff[a].hired
    BY <2>2, <2>4
  <2>6. UNCHANGED box /\ boxLog' = [boxLog EXCEPT ![a] = "migrated"]
    BY <1>2, <1>5 DEF GrandfatherCommits
  <2>7. staff' \in [AgentNos -> StaffRec] /\ staff'[a] = v /\ \A b \in AgentNos \ {a} : staff'[b] = staff[b]
    <3>1. staff \in [AgentNos -> StaffRec] /\ staff' = [staff EXCEPT ![a].uid = u, ![a].image = deployed]
      BY <1>2, <1>3, <1>5 DEF GrandfatherCommits, FleetInv, FleetTypes
    <3>2. staff' = [[staff EXCEPT ![a].uid = u] EXCEPT ![a].image = deployed]
      BY <3>1
    <3>3. PICK t : t = [staff EXCEPT ![a].uid = u]
      OBVIOUS
    <3>4. t[a] = [staff[a] EXCEPT !.uid = u] /\ DOMAIN t = AgentNos /\ \A b \in AgentNos \ {a} : t[b] = staff[b]
      BY <3>1, <3>3
    <3>5. staff' = [t EXCEPT ![a].image = deployed]
      BY <3>2, <3>3
    <3>6. staff'[a] = v /\ \A b \in AgentNos \ {a} : staff'[b] = staff[b]
      BY <2>2, <2>4, <3>4, <3>5
    <3> QED
      BY <3>1, <3>6
  <2>8. FleetTypes'
    BY <1>1, <2>1, <2>6, <2>7 DEF FleetInv, FleetTypes, AgentKinds
  <2>9. \A b \in AgentNos : b < a => staff[b].uid # NoUid /\ staff[b].uid < u
    BY <1>3 DEF FleetInv, BoxesFit
  <2>10. \A b \in AgentNos : a < b => staff[b].uid = NoUid /\ ~ box[b].is
    <3>1. \A b \in AgentNos : a < b => ~ box[b].is
      BY <1>2 DEF FleetInv, BoxesFit
    <3>2. PICK k \in 0..NAgents : \A b \in AgentNos : (staff[b].uid # NoUid) <=> (b <= k)
      BY DEF FleetInv, Seniority
    <3>3. ~ (a <= k)
      BY <1>2, <3>2
    <3> QED
      BY <3>1, <3>2, <3>3, FleetAssumption DEF AgentNos
  <2>11. Seniority'
    <3>1. \A b \in AgentNos : (staff'[b].uid # NoUid) <=> (b <= a)
      <4> TAKE b \in AgentNos
      <4>1. CASE b = a
        BY <1>3, <2>5, <2>7, <4>1, FleetAssumption DEF AgentNos
      <4>2. CASE b < a
        BY <2>7, <2>9, <4>2, FleetAssumption DEF AgentNos
      <4>3. CASE a < b
        BY <2>7, <2>10, <4>3, FleetAssumption DEF AgentNos
      <4> QED
        BY <4>1, <4>2, <4>3, FleetAssumption DEF AgentNos
    <3>2. \A c, b \in AgentNos : c < b /\ staff'[b].uid # NoUid => staff'[c].uid < staff'[b].uid
      <4> SUFFICES ASSUME NEW c \in AgentNos, NEW b \in AgentNos, c < b, staff'[b].uid # NoUid
                   PROVE  staff'[c].uid < staff'[b].uid
        OBVIOUS
      <4>1. CASE b = a
        <5>1. c # a /\ staff'[b].uid = u /\ staff[c].uid < u
          BY <2>5, <2>7, <2>9, <4>1, FleetAssumption DEF AgentNos
        <5> QED
          BY <2>7, <5>1
      <4>2. CASE b # a
        <5>1. staff'[b] = staff[b] /\ ~ (a < b)
          BY <2>7, <2>10, <4>2
        <5>2. c # a
          BY <4>2, <5>1, FleetAssumption DEF AgentNos
        <5> QED
          BY <2>7, <5>1, <5>2 DEF FleetInv, Seniority
      <4> QED
        BY <4>1, <4>2
    <3>3. \A c, b \in AgentNos : c < b /\ staff'[b].hired => staff'[c].hired
      BY <2>5, <2>7 DEF FleetInv, Seniority
    <3>4. a \in 0..NAgents
      BY FleetAssumption DEF AgentNos
    <3> QED
      BY <3>1, <3>2, <3>3, <3>4 DEF Seniority
  <2>12. BoxesFit'
    <3>1. \A c, b \in AgentNos : c < b /\ box'[b].is => staff'[c].uid # NoUid /\ staff'[c].uid < box'[b].uid
      BY <1>2, <2>6, <2>7, <2>10 DEF FleetInv, BoxesFit
    <3>2. \A c \in AgentNos : box'[c].is /\ staff'[c].uid # NoUid => box'[c].uid = staff'[c].uid
      BY <1>3, <2>5, <2>6, <2>7 DEF FleetInv, BoxesFit
    <3> QED
      BY <2>6, <3>1, <3>2 DEF FleetInv, BoxesFit
  <2>13. BootFits' /\ WalkedAreRight'
    <3>1. boot'.todo = ListAgentsNotGrandfathered'
      <4>1. \A b \in AgentNos : b # a => staff'[b] = staff[b]
        BY <2>7
      <4>2. staff'[a].uid # NoUid
        BY <1>3, <2>5, <2>7
      <4>3. \A b \in AgentNos : b \in boot'.todo <=> staff'[b].hired /\ staff'[b].uid = NoUid
        BY <1>1, <2>1, <4>1, <4>2 DEF ListAgentsNotGrandfathered
      <4> QED
        BY <2>1, <4>3 DEF ListAgentsNotGrandfathered, BootRec
    <3> QED
      BY <1>1, <2>1, <3>1 DEF BootFits, WalkedAreRight
  <2> QED
    BY <2>8, <2>11, <2>12, <2>13 DEF FleetInv
<1> QED
  BY <1>4, <1>5

\* A container that is changed, removed or made again for an agent that has a
\* uid still fits the rows.
LEMMA FleetBoxChanges ==
    ASSUME FleetInv, NEW a \in AgentNos, NEW w \in BoxRec, box' = [box EXCEPT ![a] = w], staff' = staff,
           w.up => w.is,
           w.is => \/ staff[a].uid # NoUid /\ w.uid = staff[a].uid
                   \/ box[a].is /\ w.uid = box[a].uid
    PROVE  /\ box' \in [AgentNos -> BoxRec] /\ box'[a] = w
           /\ \A b \in AgentNos \ {a} : box'[b] = box[b]
           /\ Seniority' /\ BoxesFit'
<1>1. box' \in [AgentNos -> BoxRec] /\ box'[a] = w /\ \A b \in AgentNos \ {a} : box'[b] = box[b]
  BY DEF FleetInv, FleetTypes
<1>2. Seniority'
  BY DEF FleetInv, Seniority
<1>3. ASSUME NEW b \in AgentNos, b < a, w.is PROVE staff[b].uid # NoUid /\ staff[b].uid < w.uid
  <2>1. CASE staff[a].uid # NoUid /\ w.uid = staff[a].uid
    <3>1. staff[b].uid < w.uid
      BY <1>3, <2>1 DEF FleetInv, Seniority
    <3>2. PICK k \in 0..NAgents : \A c \in AgentNos : (staff[c].uid # NoUid) <=> (c <= k)
      BY DEF FleetInv, Seniority
    <3> QED
      BY <1>3, <2>1, <3>1, <3>2, FleetAssumption DEF AgentNos
  <2>2. CASE box[a].is /\ w.uid = box[a].uid
    BY <1>3, <2>2 DEF FleetInv, BoxesFit
  <2> QED
    BY <1>3, <2>1, <2>2
<1>4. \A c, b \in AgentNos : c < b /\ box'[b].is => staff'[c].uid # NoUid /\ staff'[c].uid < box'[b].uid
  BY <1>1, <1>3 DEF FleetInv, BoxesFit
<1>5. \A c \in AgentNos : box'[c].is /\ staff'[c].uid # NoUid => box'[c].uid = staff'[c].uid
  BY <1>1 DEF FleetInv, BoxesFit
<1>6. \A c \in AgentNos : box'[c].up => box'[c].is
  BY <1>1 DEF FleetInv, BoxesFit
<1> QED
  BY <1>1, <1>2, <1>4, <1>5, <1>6 DEF BoxesFit

\* The walk begins with every agent that has a uid and ends with none left.
LEMMA FleetWalks == ASSUME FleetInv, RunBootShapeReconcile \/ ReconcileReports PROVE FleetInv'
<1>1. Seniority' /\ BoxesFit'
  BY DEF RunBootShapeReconcile, ReconcileReports, FleetInv, Seniority, BoxesFit
<1>2. CASE RunBootShapeReconcile
  <2>1. ListAgentsForContainerReconcile \in SUBSET AgentNos
    BY DEF ListAgentsForContainerReconcile
  <2>2. boot' \in BootRec /\ boot'.pc = "walk" /\ boot'.todo = ListAgentsForContainerReconcile
    BY <1>2, <2>1 DEF RunBootShapeReconcile, FleetInv, FleetTypes, BootRec
  <2>3. FleetTypes'
    BY <1>2, <2>2 DEF RunBootShapeReconcile, FleetInv, FleetTypes
  <2>4. ListAgentsForContainerReconcile' = ListAgentsForContainerReconcile
    BY <1>2 DEF RunBootShapeReconcile, ListAgentsForContainerReconcile
  <2>5. BootFits'
    BY <2>2, <2>4 DEF BootFits
  <2>6. WalkedAreRight'
    BY <1>2, <2>2 DEF WalkedAreRight, ListAgentsForContainerReconcile, RunBootShapeReconcile
  <2> QED
    BY <1>1, <2>3, <2>5, <2>6 DEF FleetInv
<1>3. CASE ReconcileReports
  <2>1. boot' \in BootRec /\ boot'.pc = "serve" /\ boot'.todo = {}
    BY <1>3, FleetDown DEF ReconcileReports
  <2>2. boot.report \in [AgentNos -> {"unchanged", "created", "started"}] /\ boxLog \in [AgentNos -> AgentKinds]
    BY DEF FleetInv, FleetTypes, BootRec
  <2>3. boxLog' \in [AgentNos -> AgentKinds]
    BY <1>3, <2>2 DEF ReconcileReports, AgentKinds
  <2>4. FleetTypes'
    BY <1>3, <2>1, <2>3 DEF ReconcileReports, FleetInv, FleetTypes
  <2>5. BootFits'
    BY <2>1 DEF BootFits
  <2>6. WalkedAreRight'
    BY <1>3, <2>1 DEF ReconcileReports, FleetInv, WalkedAreRight, RightShape
  <2> QED
    BY <1>1, <2>4, <2>5, <2>6 DEF FleetInv
<1> QED
  BY <1>2, <1>3

\* Moving on to the next agent, when the one left behind is as configured or
\* the walk has met a failure.
LEMMA FleetMovesOn ==
    ASSUME FleetInv, NEW a \in AgentNos, boot.pc \in {"walk", "remove", "create", "run"}, a \in boot.todo,
           NEW kind \in {"unchanged", "created", "started"}, NextAgent(a, kind),
           UNCHANGED <<staff, deployed, boxLog>>, fleetFaults' \in 0..MaxFleetFault,
           box' \in [AgentNos -> BoxRec], Seniority', BoxesFit',
           \A b \in AgentNos \ {a} : box'[b] = box[b],
           intact' \in BOOLEAN, intact' => intact /\ RightShape(a)' /\ box'[a].up
    PROVE  FleetInv'
<1>1. boot \in BootRec /\ boot.report \in [AgentNos -> {"unchanged", "created", "started"}]
  BY DEF FleetInv, FleetTypes, BootRec
<1>2. PICK r \in [AgentNos -> {"unchanged", "created", "started"}] : r = [boot.report EXCEPT ![a] = kind]
  BY <1>1
<1>3. boot' = [boot EXCEPT !.pc = "walk", !.todo = boot.todo \ {a}, !.on = 0, !.report = r]
  BY <1>2 DEF NextAgent
<1>4. boot' \in BootRec /\ boot'.pc = "walk" /\ boot'.todo = boot.todo \ {a}
  <2>1. boot.todo \ {a} \in SUBSET AgentNos /\ 0 \in 0..NAgents
    BY <1>1, FleetAssumption DEF BootRec
  <2> QED
    BY <1>1, <1>3, <2>1 DEF BootRec
<1>5. FleetTypes'
  BY <1>4 DEF FleetInv, FleetTypes
<1>6. BootFits'
  BY <1>4 DEF FleetInv, BootFits, ListAgentsForContainerReconcile
<1>7. WalkedAreRight'
  <2> SUFFICES ASSUME intact', NEW b \in AgentNos, b \notin boot'.todo, staff'[b].uid # NoUid
               PROVE  RightShape(b)' /\ box'[b].up
    BY DEF WalkedAreRight
  <2>1. CASE b = a
    BY <2>1
  <2>2. CASE b # a
    BY <1>4, <2>2 DEF FleetInv, WalkedAreRight, RightShape
  <2> QED
    BY <2>1, <2>2
<1> QED
  BY <1>5, <1>6, <1>7 DEF FleetInv

\* An agent under way stays on the walk's list while its container is taken
\* down, made again or started.
LEMMA FleetStaysOn ==
    ASSUME FleetInv, NEW a \in AgentNos, boot.pc \in {"walk", "remove", "create", "run"}, a \in boot.todo,
           boot' \in BootRec, boot'.pc \in {"remove", "create", "run"}, boot'.on = a, boot'.todo = boot.todo,
           UNCHANGED <<staff, deployed, boxLog, intact, fleetFaults>>,
           box' \in [AgentNos -> BoxRec], Seniority', BoxesFit',
           \A b \in AgentNos \ {a} : box'[b] = box[b],
           boot'.pc = "remove" => ~ box'[a].up,
           boot'.pc = "create" => ~ box'[a].is,
           boot'.pc = "run" => RightShape(a)'
    PROVE  FleetInv'
<1>1. FleetTypes'
  BY DEF FleetInv, FleetTypes
<1>2. BootFits'
  BY DEF FleetInv, BootFits, ListAgentsForContainerReconcile
<1>3. WalkedAreRight'
  BY DEF FleetInv, WalkedAreRight, RightShape
<1> QED
  BY <1>1, <1>2, <1>3 DEF FleetInv

\* What reconcileShapeOne decides on what it inspects.
LEMMA FleetInspects == ASSUME FleetInv, NEW a \in AgentNos, ReconcileShapeOne(a) PROVE FleetInv'
<1>1. /\ boot.pc = "walk" /\ a \in boot.todo /\ staff[a].uid # NoUid /\ boot \in BootRec /\ box[a] \in BoxRec
      /\ UNCHANGED <<staff, deployed, boxLog, intact, fleetFaults>>
  BY DEF ReconcileShapeOne, FleetInv, FleetTypes, BootFits, ListAgentsForContainerReconcile
<1>2. ASSUME SameShape(box[a], DesiredShape(a)), box[a].is PROVE RightShape(a)
  BY <1>1, <1>2, BoxCreated DEF SameShape, DesiredShape, RightShape, FleetInv, FleetTypes, StaffRec
<1>3. ASSUME NEW x \in {"create", "remove", "run"}, NEW kind \in {"created", "started"},
             boot' = [boot EXCEPT !.pc = x, !.on = a, !.report[a] = kind]
      PROVE  boot' \in BootRec /\ boot'.pc = x /\ boot'.on = a /\ boot'.todo = boot.todo
  <2>1. PICK r \in [AgentNos -> {"unchanged", "created", "started"}] : r = [boot.report EXCEPT ![a] = kind]
    BY <1>1 DEF BootRec
  <2>2. boot' = [boot EXCEPT !.pc = x, !.on = a, !.report = r]
    BY <1>3, <2>1
  <2>3. a \in 0..NAgents
    BY DEF AgentNos
  <2> QED
    BY <1>1, <2>2, <2>3 DEF BootRec
<1>4. ASSUME UNCHANGED box PROVE box' \in [AgentNos -> BoxRec] /\ Seniority' /\ BoxesFit'
  BY <1>1, <1>4 DEF FleetInv, FleetTypes, Seniority, BoxesFit
<1>5. CASE ~ box[a].is /\ boot' = [boot EXCEPT !.pc = "create", !.on = a, !.report[a] = "created"] /\ UNCHANGED box
  <2>1. boot' \in BootRec /\ boot'.pc = "create" /\ boot'.on = a /\ boot'.todo = boot.todo
    BY <1>3, <1>5
  <2> QED
    BY <1>1, <1>4, <1>5, <2>1, FleetStaysOn
<1>6. CASE /\ box[a].is /\ boot' = [boot EXCEPT !.pc = "remove", !.on = a, !.report[a] = "created"]
           /\ box' = [box EXCEPT ![a].up = FALSE]
  <2>1. boot' \in BootRec /\ boot'.pc = "remove" /\ boot'.on = a /\ boot'.todo = boot.todo
    BY <1>3, <1>6
  <2>2. PICK w \in BoxRec : w = [box[a] EXCEPT !.up = FALSE] /\ w.is = box[a].is /\ w.uid = box[a].uid /\ ~ w.up
    BY <1>1, BoxSwitched
  <2>3. box' = [box EXCEPT ![a] = w]
    BY <1>6, <2>2
  <2>4. /\ box' \in [AgentNos -> BoxRec] /\ box'[a] = w
        /\ \A b \in AgentNos \ {a} : box'[b] = box[b]
        /\ Seniority' /\ BoxesFit'
    BY <1>1, <1>6, <2>2, <2>3, FleetBoxChanges
  <2> QED
    BY <1>1, <2>1, <2>2, <2>4, FleetStaysOn
<1>7. CASE /\ box[a].is /\ SameShape(box[a], DesiredShape(a))
           /\ boot' = [boot EXCEPT !.pc = "run", !.on = a, !.report[a] = "started"] /\ UNCHANGED box
  <2>1. boot' \in BootRec /\ boot'.pc = "run" /\ boot'.on = a /\ boot'.todo = boot.todo
    BY <1>3, <1>7
  <2>2. RightShape(a)'
    BY <1>1, <1>2, <1>7 DEF RightShape
  <2> QED
    BY <1>1, <1>4, <1>7, <2>1, <2>2, FleetStaysOn
<1>8. CASE /\ box[a].is /\ SameShape(box[a], DesiredShape(a)) /\ box[a].up
           /\ NextAgent(a, "unchanged") /\ UNCHANGED box
  <2>1. RightShape(a)' /\ box'[a].up
    BY <1>1, <1>2, <1>8 DEF RightShape
  <2>2. fleetFaults' \in 0..MaxFleetFault /\ intact' \in BOOLEAN
    BY <1>1 DEF FleetInv, FleetTypes
  <2> QED
    BY <1>1, <1>4, <1>8, <2>1, <2>2, FleetMovesOn
<1> QED
  BY <1>5, <1>6, <1>7, <1>8 DEF ReconcileShapeOne

\* The agent's container is removed, made as the row asks, and started.
LEMMA FleetReplaces == ASSUME FleetInv, ReconcileRemoves \/ ReconcileCreates \/ ReconcileStarts PROVE FleetInv'
<1>1. /\ boot.pc \in {"remove", "create", "run"} /\ boot \in BootRec
      /\ UNCHANGED <<staff, deployed, boxLog, intact, fleetFaults>>
  BY DEF ReconcileRemoves, ReconcileCreates, ReconcileStarts, FleetInv, FleetTypes
<1>2. PICK a \in AgentNos : a = boot.on /\ a \in boot.todo /\ staff[a].uid # NoUid /\ box[a] \in BoxRec
  BY <1>1 DEF FleetInv, FleetTypes, BootFits, ListAgentsForContainerReconcile
<1>3. ASSUME NEW x \in {"create", "run"}, boot' = [boot EXCEPT !.pc = x]
      PROVE  boot' \in BootRec /\ boot'.pc = x /\ boot'.on = a /\ boot'.todo = boot.todo
  BY <1>1, <1>2, <1>3 DEF BootRec
<1>4. CASE ReconcileRemoves
  <2>1. boot' \in BootRec /\ boot'.pc = "create" /\ boot'.on = a /\ boot'.todo = boot.todo
    BY <1>3, <1>4 DEF ReconcileRemoves
  <2>2. NoBox \in BoxRec
    BY FleetAssumption DEF NoBox, BoxRec, Uids
  <2>3. PICK w \in BoxRec : w = NoBox /\ ~ w.is /\ ~ w.up
    BY <2>2 DEF NoBox
  <2>4. box' = [box EXCEPT ![a] = w]
    BY <1>2, <1>4, <2>3 DEF ReconcileRemoves
  <2>5. /\ box' \in [AgentNos -> BoxRec] /\ box'[a] = w
        /\ \A b \in AgentNos \ {a} : box'[b] = box[b]
        /\ Seniority' /\ BoxesFit'
    BY <1>1, <2>3, <2>4, FleetBoxChanges
  <2> QED
    BY <1>1, <1>2, <2>1, <2>3, <2>5, FleetStaysOn
<1>5. CASE ReconcileCreates
  <2>1. boot' \in BootRec /\ boot'.pc = "run" /\ boot'.on = a /\ boot'.todo = boot.todo
    BY <1>3, <1>5 DEF ReconcileCreates
  <2>2. deployed \in 0..MaxDeploy /\ staff[a].uid \in Uids /\ staff[a].image \in 0..MaxDeploy
    BY DEF FleetInv, FleetTypes, StaffRec
  <2>3. PICK w \in BoxRec : /\ w = DesiredShape(a) /\ w.is /\ ~ w.up /\ w.uid = staff[a].uid
                            /\ w.image = staff[a].image /\ w.cfg = deployed
    BY <2>2, BoxCreated DEF DesiredShape
  <2>4. box' = [box EXCEPT ![a] = w]
    BY <1>2, <1>5, <2>3 DEF ReconcileCreates
  <2>5. /\ box' \in [AgentNos -> BoxRec] /\ box'[a] = w
        /\ \A b \in AgentNos \ {a} : box'[b] = box[b]
        /\ Seniority' /\ BoxesFit'
    BY <1>1, <1>2, <2>3, <2>4, FleetBoxChanges
  <2>6. RightShape(a)'
    BY <1>1, <2>3, <2>5 DEF RightShape
  <2> QED
    BY <1>1, <1>2, <2>1, <2>5, <2>6, FleetStaysOn
<1>6. CASE ReconcileStarts
  <2>1. RightShape(a) /\ boot.pc = "run"
    BY <1>2, <1>6 DEF ReconcileStarts, FleetInv, BootFits
  <2>2. PICK w \in BoxRec : /\ w = [box[a] EXCEPT !.up = TRUE] /\ w.up /\ w.is = box[a].is /\ w.uid = box[a].uid
                            /\ w.image = box[a].image /\ w.cfg = box[a].cfg
    BY <1>2, BoxSwitched
  <2>3. box' = [box EXCEPT ![a] = w]
    BY <1>2, <1>6, <2>2 DEF ReconcileStarts
  <2>4. /\ box' \in [AgentNos -> BoxRec] /\ box'[a] = w
        /\ \A b \in AgentNos \ {a} : box'[b] = box[b]
        /\ Seniority' /\ BoxesFit'
    BY <1>1, <2>1, <2>2, <2>3, FleetBoxChanges DEF RightShape
  <2>5. RightShape(a)' /\ box'[a].up
    BY <1>1, <2>1, <2>2, <2>4 DEF RightShape
  <2>6. PICK kind \in {"unchanged", "created", "started"} : kind = boot.report[a]
    BY <1>1 DEF BootRec
  <2>7. NextAgent(a, kind)
    BY <1>2, <1>6, <2>6 DEF ReconcileStarts
  <2>8. fleetFaults' \in 0..MaxFleetFault /\ intact' \in BOOLEAN
    BY <1>1 DEF FleetInv, FleetTypes
  <2> QED
    BY <1>1, <1>2, <2>4, <2>5, <2>7, <2>8, FleetMovesOn
<1> QED
  BY <1>4, <1>5, <1>6

\* A failed call: the walk goes on and no longer vouches for the fleet.
LEMMA FleetReconcileFails == ASSUME FleetInv, ReconcileFails PROVE FleetInv'
<1>1. /\ fleetFaults' \in 0..MaxFleetFault /\ intact' = FALSE /\ UNCHANGED <<staff, box, deployed, boxLog>>
      /\ boot.pc \in {"walk", "remove", "create", "run"}
  BY FleetFaultBound DEF ReconcileFails
<1>2. box' \in [AgentNos -> BoxRec] /\ Seniority' /\ BoxesFit'
  BY <1>1 DEF FleetInv, FleetTypes, Seniority, BoxesFit
<1>3. PICK a \in AgentNos : a \in boot.todo /\ NextAgent(a, "unchanged")
  BY DEF ReconcileFails, FleetInv, FleetTypes, BootFits, BootRec
<1> QED
  BY <1>1, <1>2, <1>3, FleetMovesOn

\* A hire, a container that stops, a deployment.
LEMMA FleetAround ==
    ASSUME FleetInv, NEW a \in AgentNos, HireAgent \/ ContainerStops(a) PROVE FleetInv'
<1>1. CASE HireAgent
  <2>1. PICK h \in AgentNos : /\ ~ staff[h].hired /\ \A b \in AgentNos : b < h => staff[b].hired
                              /\ staff' = [staff EXCEPT ![h].hired = TRUE]
    BY <1>1 DEF HireAgent
  <2>2. PICK v \in StaffRec : v = [staff[h] EXCEPT !.hired = TRUE] /\ v.hired /\ v.uid = staff[h].uid /\ v.image = staff[h].image
    <3>1. PICK s \in StaffRec : s = staff[h]
      BY DEF FleetInv, FleetTypes
    <3>2. [s EXCEPT !.hired = TRUE] \in StaffRec
      BY DEF StaffRec
    <3>3. [s EXCEPT !.hired = TRUE].hired /\ [s EXCEPT !.hired = TRUE].uid = s.uid /\ [s EXCEPT !.hired = TRUE].image = s.image
      BY DEF StaffRec
    <3> QED
      BY <3>1, <3>2, <3>3
  <2>3. staff' \in [AgentNos -> StaffRec] /\ staff'[h] = v /\ \A b \in AgentNos \ {h} : staff'[b] = staff[b]
    <3>1. staff \in [AgentNos -> StaffRec] /\ staff' = [staff EXCEPT ![h] = v]
      BY <2>1, <2>2 DEF FleetInv, FleetTypes
    <3> QED
      BY <3>1
  <2>4. \A b \in AgentNos : staff'[b].uid = staff[b].uid /\ staff'[b].image = staff[b].image
    BY <2>2, <2>3
  <2>5. FleetTypes'
    BY <1>1, <2>3 DEF HireAgent, FleetInv, FleetTypes
  <2>6. \A c, b \in AgentNos : c < b /\ staff'[b].hired => staff'[c].hired
    BY <2>1, <2>2, <2>3 DEF FleetInv, Seniority
  <2>7. Seniority'
    BY <2>4, <2>6 DEF FleetInv, Seniority
  <2>8. BoxesFit'
    BY <1>1, <2>4 DEF HireAgent, FleetInv, BoxesFit
  <2>9. BootFits' /\ WalkedAreRight'
    BY <1>1, <2>4 DEF HireAgent, FleetInv, BootFits, WalkedAreRight, RightShape
  <2> QED
    BY <2>5, <2>7, <2>8, <2>9 DEF FleetInv
<1>2. CASE ContainerStops(a)
  <2>1. fleetFaults' \in 0..MaxFleetFault /\ intact' = FALSE /\ UNCHANGED <<staff, boot, deployed, boxLog>>
    BY <1>2, FleetFaultBound DEF ContainerStops
  <2>2. PICK w \in BoxRec : /\ w = [box[a] EXCEPT !.up = FALSE] /\ ~ w.up /\ w.is = box[a].is /\ w.uid = box[a].uid
                            /\ w.image = box[a].image /\ w.cfg = box[a].cfg
    BY BoxSwitched DEF FleetInv, FleetTypes
  <2>3. box' = [box EXCEPT ![a] = w]
    BY <1>2, <2>2 DEF ContainerStops
  <2>4. /\ box' \in [AgentNos -> BoxRec] /\ box'[a] = w
        /\ \A b \in AgentNos \ {a} : box'[b] = box[b]
        /\ Seniority' /\ BoxesFit'
    BY <2>1, <2>2, <2>3, FleetBoxChanges
  <2>5. FleetTypes'
    BY <2>1, <2>4 DEF FleetInv, FleetTypes
  <2>6. /\ \A b \in AgentNos : box'[b].is = box[b].is /\ box'[b].uid = box[b].uid /\ (box'[b].up => box[b].up)
        /\ \A b \in AgentNos : box'[b].image = box[b].image /\ box'[b].cfg = box[b].cfg
    BY <2>2, <2>4
  <2>7. boot.pc \in {"start", "record", "remove", "create", "run"} => boot.on \in AgentNos
    BY DEF FleetInv, FleetTypes, BootFits, BootRec
  <2>8. BootFits' /\ WalkedAreRight'
    BY <2>1, <2>6, <2>7 DEF FleetInv, BootFits, WalkedAreRight, RightShape,
       ListAgentsNotGrandfathered, ListAgentsForContainerReconcile
  <2> QED
    BY <2>4, <2>5, <2>8 DEF FleetInv
<1> QED
  BY <1>1, <1>2

\* Every step of the fleet keeps FleetInv.
LEMMA FleetInvStep == FleetInv /\ [FleetNext]_fleetVars => FleetInv'
<1> SUFFICES ASSUME FleetInv, [FleetNext]_fleetVars PROVE FleetInv'
  OBVIOUS
<1>1. CASE UNCHANGED fleetVars
  BY <1>1 DEF fleetVars, FleetInv, FleetTypes, Seniority, BoxesFit, BootFits, WalkedAreRight, RightShape,
     ListAgentsNotGrandfathered, ListAgentsForContainerReconcile
<1>2. CASE Deploy
  <2>1. deployed' \in 0..MaxDeploy /\ UNCHANGED <<staff, box, boot, boxLog, intact, fleetFaults>> /\ boot.pc = "down"
    BY <1>2, FleetAssumption DEF Deploy, FleetInv, FleetTypes
  <2>2. FleetTypes' /\ Seniority' /\ BoxesFit'
    BY <2>1 DEF FleetInv, FleetTypes, Seniority, BoxesFit
  <2>3. BootFits' /\ WalkedAreRight'
    BY <2>1 DEF FleetInv, BootFits, WalkedAreRight
  <2> QED
    BY <2>2, <2>3 DEF FleetInv
<1>3. CASE HireAgent
  <2>1. PICK a \in AgentNos : TRUE
    BY <1>3 DEF HireAgent
  <2> QED
    BY <1>3, FleetAround
<1>4. CASE \E a \in AgentNos : ReconcileShapeOne(a) \/ ContainerStops(a)
  BY <1>4, FleetInspects, FleetAround
<1>5. CASE \/ BootStarts \/ RunDone \/ GrandfatherCreates \/ GrandfatherStarts \/ GrandfatherCommits
           \/ GrandfatherFails \/ RunBootShapeReconcile \/ ReconcileListFails
           \/ ReconcileRemoves \/ ReconcileCreates \/ ReconcileStarts \/ ReconcileFails \/ ReconcileReports
           \/ SupervisorEnds
  BY <1>5, FleetBoots, FleetMigrated, FleetGrandfathers, FleetRecords, FleetWalks, FleetReplaces, FleetReconcileFails
<1> QED
  BY <1>1, <1>2, <1>3, <1>4, <1>5 DEF FleetNext

\* No step but a fault touches a running container of the right shape.
LEMMA RightShapeKept ==
    FleetInv /\ FleetNext =>
        \A a \in AgentNos :
            /\ box[a].up /\ staff[a].uid # NoUid
            /\ box[a].uid = staff[a].uid /\ box[a].image = staff[a].image /\ box[a].cfg = deployed
            /\ fleetFaults' = fleetFaults
            => box'[a] = box[a]
<1> SUFFICES ASSUME FleetInv, FleetNext, NEW a \in AgentNos, box[a].up, staff[a].uid # NoUid,
                    box[a].uid = staff[a].uid, box[a].image = staff[a].image, box[a].cfg = deployed,
                    fleetFaults' = fleetFaults
             PROVE  box'[a] = box[a]
  OBVIOUS
<1>1. box \in [AgentNos -> BoxRec] /\ box[a] \in BoxRec /\ box[a].is /\ fleetFaults \in Int
  BY FleetAssumption DEF FleetInv, FleetTypes, BoxesFit
<1>2. SameShape(box[a], DesiredShape(a))
  BY BoxCreated DEF SameShape, DesiredShape, FleetInv, FleetTypes, StaffRec
<1>3. CASE GrandfatherCreates
  <2>1. CASE box' = [box EXCEPT ![FirstCreated(boot.todo)] = ShapeOf(AllocateNextHostUID, deployed)]
    <3>1. boot.todo = ListAgentsNotGrandfathered /\ ListAgentsNotGrandfathered # {}
      BY <1>3 DEF GrandfatherCreates, FleetInv, BootFits
    <3>2. FirstCreated(boot.todo) # a
      BY <3>1, FleetNextInLine DEF ListAgentsNotGrandfathered
    <3> QED
      BY <1>1, <2>1, <3>2
  <2> QED
    BY <1>3, <2>1 DEF GrandfatherCreates
<1>4. CASE GrandfatherStarts
  <2>1. boot.on # a
    BY <1>4 DEF GrandfatherStarts, FleetInv, BootFits, ListAgentsNotGrandfathered
  <2> QED
    BY <1>1, <1>4, <2>1 DEF GrandfatherStarts
<1>5. CASE ReconcileRemoves \/ ReconcileCreates
  <2>1. boot.on # a
    BY <1>1, <1>5 DEF ReconcileRemoves, ReconcileCreates, FleetInv, BootFits
  <2> QED
    BY <1>1, <1>5, <2>1 DEF ReconcileRemoves, ReconcileCreates
<1>6. CASE ReconcileStarts
  <2>1. CASE boot.on = a
    <3>1. [box[a] EXCEPT !.up = TRUE] = box[a]
      BY <1>1 DEF BoxRec
    <3>2. box'[a] = [box[a] EXCEPT !.up = TRUE]
      BY <1>1, <1>6, <2>1 DEF ReconcileStarts
    <3> QED
      BY <3>1, <3>2
  <2>2. CASE boot.on # a
    BY <1>1, <1>6, <2>2 DEF ReconcileStarts
  <2> QED
    BY <2>1, <2>2
<1>7. ASSUME NEW c \in AgentNos, ReconcileShapeOne(c) PROVE box'[a] = box[a]
  <2>1. box' = box \/ (box' = [box EXCEPT ![c].up = FALSE] /\ c # a)
    BY <1>2, <1>7 DEF ReconcileShapeOne
  <2> QED
    BY <1>1, <2>1
<1>8. ASSUME NEW c \in AgentNos, ContainerStops(c) PROVE FALSE
  BY <1>1, <1>8 DEF ContainerStops, FleetFault
<1>9. CASE \/ BootStarts \/ RunDone \/ GrandfatherCommits \/ GrandfatherFails \/ RunBootShapeReconcile
           \/ ReconcileListFails \/ ReconcileFails \/ ReconcileReports \/ HireAgent \/ SupervisorEnds \/ Deploy
  BY <1>9 DEF BootStarts, RunDone, GrandfatherCommits, GrandfatherFails, RunBootShapeReconcile,
     ReconcileListFails, ReconcileFails, ReconcileReports, HireAgent, SupervisorEnds, Deploy
<1> QED
  BY <1>3, <1>4, <1>5, <1>6, <1>7, <1>8, <1>9 DEF FleetNext

-----------------------------------------------------------------------------
(* Hiring, the agents row and the roster cache *)

ProposalRec ==
    [kind : {"none", "hire", "skill_change", "version_bump"},
     status : {"none", "pending", "install_in_progress", "rejected", "superseded"},
     supersededBy : Proposals \union {"none"}]
DecisionRec == [pc : {"read"}, verb : {"approve", "reject"}, on : Proposals]
EditRec == [field : ConfigFields, read : Agent]
SettingsRec == [open : {TRUE}, token : 0..(MaxChange + 1), seen : Agent]
ListenerRec == [conn : {"off", "on", "dead"}, pc : {"down", "wait", "reset", "swap"}, rows : Agent]

ProposalTypes ==
    /\ proposal \in [Proposals -> ProposalRec]
    /\ sawDecided \in [Proposals -> SUBSET Proposals]
    /\ decision \in [Operators -> DecisionRec \union {NoDecision}]

\* A proposal of a kind that was approved, and one of that kind that may still
\* be, did not overlap: the later one was made after the first was decided.
ProposalInv ==
    \A p, q \in Proposals :
        /\ p # q
        /\ proposal[p].kind = proposal[q].kind /\ proposal[p].kind # "hire"
        /\ proposal[p].status = "install_in_progress"
        /\ proposal[q].status \in {"pending", "install_in_progress"}
        => p \in sawDecided[q] \/ (proposal[q].status = "install_in_progress" /\ q \in sawDecided[p])

\* Every write of the row is counted, reads are of a row that is there, and a
\* form whose token is current shows the row as it is.
AgentRowInv ==
    /\ agentRow \in Agent /\ changes \in 0..MaxChange
    /\ version = changes + (IF AgentExists THEN 1 ELSE 0)
    /\ AgentExists \/ changes = 0
    /\ edit \in [Editors -> EditRec \union {NoEdit}]
    /\ \A e \in Editors : edit[e] # NoEdit => AgentExists
    /\ settings = NoSettings \/ (settings \in SettingsRec /\ AgentExists)
    /\ settings.open => settings.token <= version
    /\ settings.open /\ settings.token = version => settings.seen = agentRow

\* What the listener has still to hear is what the cache does not know.
CacheInv ==
    /\ roster \in Agent /\ routed \in BOOLEAN /\ missed \in BOOLEAN
    /\ listener \in ListenerRec
    /\ unheard \in Nat /\ unheard <= version
    /\ RosterIsFresh
    /\ listener.pc = "swap" /\ unheard = 0 /\ ~missed => listener.rows = ActiveRow

RosterInv ==
    ProposalTypes /\ ProposalInv /\ AgentRowInv /\ CacheInv /\ rosterFaults \in 0..MaxRosterFault

\* RosterInv implies what is checked of the roster.
LEMMA RosterSafe == RosterInv => RosterTypeOK /\ RosterIsSound
<1> SUFFICES ASSUME RosterInv PROVE RosterTypeOK /\ RosterIsSound
  OBVIOUS
<1>1. version \in 0..(MaxChange + 1) /\ unheard \in 0..(MaxChange + 1)
  BY RosterAssumption DEF RosterInv, AgentRowInv, CacheInv
<1>2. \A o \in Operators : decision[o] = NoDecision \/ decision[o].on \in Proposals
  BY DEF RosterInv, ProposalTypes, DecisionRec
<1>3. NoAgent \in Agent
  BY RosterAssumption DEF NoAgent, Agent
<1>4. \A e \in Editors : edit[e].read \in Agent
  BY <1>3 DEF RosterInv, AgentRowInv, EditRec, NoEdit
<1>5. settings.seen \in Agent
  <2>1. CASE settings = NoSettings
    BY <1>3, <2>1 DEF NoSettings
  <2>2. CASE settings \in SettingsRec
    BY <2>2 DEF SettingsRec
  <2> QED
    BY <2>1, <2>2 DEF RosterInv, AgentRowInv
<1>6. RosterTypeOK
  BY <1>1, <1>2, <1>4, <1>5 DEF RosterInv, ProposalTypes, AgentRowInv, CacheInv, ProposalRec, ListenerRec, RosterTypeOK
<1>7. SiblingsExclusive
  BY DEF RosterInv, ProposalInv, SiblingsExclusive
<1> QED
  BY <1>6, <1>7 DEF RosterInv, CacheInv, RosterIsSound

\* The row of an agent that does not exist yet.
LEMMA NoAgentIsAgent == NoAgent \in Agent /\ NoAgent.status = "none"
BY RosterAssumption DEF NoAgent, Agent

\* A proposal as it is inserted.
LEMMA ProposalNew ==
    ASSUME NEW kind \in {"hire", "skill_change", "version_bump"}
    PROVE  \E h \in ProposalRec : /\ h = [NoProposal EXCEPT !.kind = kind, !.status = "pending"]
                                  /\ h.status = "pending" /\ h.kind = kind
<1>1. NoProposal \in ProposalRec
  BY DEF NoProposal, ProposalRec
<1>2. PICK n \in ProposalRec : n = NoProposal
  BY <1>1
<1>3. [n EXCEPT !.kind = kind, !.status = "pending"] \in ProposalRec
  BY DEF ProposalRec
<1>4. /\ [n EXCEPT !.kind = kind, !.status = "pending"].status = "pending"
      /\ [n EXCEPT !.kind = kind, !.status = "pending"].kind = kind
  BY DEF ProposalRec
<1> QED
  BY <1>2, <1>3, <1>4

\* No agent, and at most one proposal, pending.
LEMMA RosterInvInit == RosterEmpty /\ (HireAtHand \/ NoProposals) => RosterInv
<1> SUFFICES ASSUME RosterEmpty, HireAtHand \/ NoProposals PROVE RosterInv
  OBVIOUS
<1>1. ~ AgentExists /\ ActiveRow = NoAgent
  BY NoAgentIsAgent DEF RosterEmpty, AgentExists, ActiveRow
<1>2. AgentRowInv
  <2>1. settings = NoSettings /\ ~ settings.open
    BY DEF RosterEmpty, NoSettings
  <2>2. edit \in [Editors -> EditRec \union {NoEdit}] /\ \A e \in Editors : edit[e] = NoEdit
    BY DEF RosterEmpty
  <2>3. version = 0 /\ changes = 0 /\ agentRow = NoAgent
    BY DEF RosterEmpty
  <2> QED
    BY <1>1, <2>1, <2>2, <2>3, NoAgentIsAgent, RosterAssumption DEF AgentRowInv
<1>3. CacheInv
  <2>1. listener \in ListenerRec /\ listener.pc = "down"
    BY NoAgentIsAgent DEF RosterEmpty, ListenerRec
  <2>2. roster \in Agent /\ routed \in BOOLEAN /\ missed \in BOOLEAN
    BY NoAgentIsAgent DEF RosterEmpty
  <2>3. unheard = 0 /\ version = 0
    BY DEF RosterEmpty
  <2> QED
    BY <2>1, <2>2, <2>3 DEF CacheInv, RosterIsFresh
<1>4. sawDecided \in [Proposals -> SUBSET Proposals] /\ rosterFaults \in 0..MaxRosterFault
  BY RosterAssumption DEF RosterEmpty
<1>5. NoProposal \in ProposalRec /\ NoProposal.status = "none"
  BY DEF NoProposal, ProposalRec
<1>6. CASE NoProposals
  <2>1. ProposalTypes
    BY <1>4, <1>5, <1>6 DEF NoProposals, ProposalTypes
  <2>2. ProposalInv
    BY <1>5, <1>6 DEF NoProposals, ProposalInv
  <2> QED
    BY <1>2, <1>3, <1>4, <2>1, <2>2 DEF RosterInv
<1>7. CASE HireAtHand
  <2>1. PICK p \in Proposals, o \in Operators :
          /\ proposal = [q \in Proposals |->
                 IF q = p THEN [NoProposal EXCEPT !.kind = "hire", !.status = "pending"] ELSE NoProposal]
          /\ decision = [x \in Operators |->
                 IF x = o THEN [pc |-> "read", verb |-> "approve", on |-> p] ELSE NoDecision]
    BY <1>7 DEF HireAtHand
  <2>2. PICK h \in ProposalRec : h = [NoProposal EXCEPT !.kind = "hire", !.status = "pending"] /\ h.status = "pending"
    BY ProposalNew
  <2>3. [pc |-> "read", verb |-> "approve", on |-> p] \in DecisionRec
    BY DEF DecisionRec
  <2>4. ProposalTypes
    BY <1>4, <1>5, <2>1, <2>2, <2>3 DEF ProposalTypes
  <2>5. \A q \in Proposals : proposal[q].status # "install_in_progress"
    BY <1>5, <2>1, <2>2
  <2>6. ProposalInv
    BY <2>5 DEF ProposalInv
  <2> QED
    BY <1>2, <1>3, <1>4, <2>4, <2>6 DEF RosterInv
<1> QED
  BY <1>6, <1>7

\* Faults of the roster stay within their bound.
LEMMA RosterFaultBound == RosterInv /\ RosterFault => rosterFaults' \in 0..MaxRosterFault
BY RosterAssumption DEF RosterInv, RosterFault

\* What neither side touches stays as it is.
LEMMA ProposalsUntouched == RosterInv /\ UNCHANGED proposalVars => ProposalTypes' /\ ProposalInv'
BY DEF RosterInv, ProposalTypes, ProposalInv, proposalVars

\* The row and its revisions stay as they are.
LEMMA RowUntouched == RosterInv /\ UNCHANGED rowVars => AgentRowInv'
BY DEF RosterInv, AgentRowInv, rowVars, AgentExists

\* The cache is as fresh as it was.
LEMMA CacheUntouched == RosterInv /\ UNCHANGED <<cacheVars, agentRow, version>> => CacheInv'
BY DEF RosterInv, CacheInv, cacheVars, RosterIsFresh, ActiveRow

\* A new proposal comes after everything decided so far.
LEMMA RosterInserts ==
    ASSUME RosterInv, NEW p \in Proposals, NEW kind \in {"hire", "skill_change", "version_bump"},
           InsertHiringProposal(p, kind)
    PROVE  RosterInv'
<1>1. PICK h \in ProposalRec : /\ h = [NoProposal EXCEPT !.kind = kind, !.status = "pending"]
                               /\ h.status = "pending" /\ h.kind = kind
  BY ProposalNew
<1>2. proposal \in [Proposals -> ProposalRec] /\ proposal' = [proposal EXCEPT ![p] = h]
  BY <1>1 DEF InsertHiringProposal, RosterInv, ProposalTypes
<1>3. proposal'[p] = h /\ \A q \in Proposals \ {p} : proposal'[q] = proposal[q]
  BY <1>2
<1>4. PICK d \in SUBSET Proposals : d = {q \in Proposals : Decided(q)} /\ sawDecided' = [sawDecided EXCEPT ![p] = d]
  BY DEF InsertHiringProposal
<1>5. sawDecided'[p] = d /\ \A q \in Proposals \ {p} : sawDecided'[q] = sawDecided[q]
  BY <1>4 DEF RosterInv, ProposalTypes
<1>6. ProposalTypes'
  BY <1>2, <1>4 DEF InsertHiringProposal, RosterInv, ProposalTypes
<1>7. ProposalInv'
  <2> SUFFICES ASSUME NEW a \in Proposals, NEW b \in Proposals, a # b,
                      proposal'[a].kind = proposal'[b].kind, proposal'[a].kind # "hire",
                      proposal'[a].status = "install_in_progress",
                      proposal'[b].status \in {"pending", "install_in_progress"}
               PROVE  a \in sawDecided'[b] \/ (proposal'[b].status = "install_in_progress" /\ b \in sawDecided'[a])
    BY DEF ProposalInv
  <2>1. a # p /\ proposal'[a] = proposal[a]
    BY <1>1, <1>3
  <2>2. CASE b = p
    <3>1. Decided(a)
      BY <2>1 DEF Decided
    <3> QED
      BY <1>4, <1>5, <2>2, <3>1
  <2>3. CASE b # p
    BY <1>3, <1>5, <2>1, <2>3 DEF RosterInv, ProposalInv
  <2> QED
    BY <2>2, <2>3
<1>8. AgentRowInv' /\ CacheInv' /\ rosterFaults' \in 0..MaxRosterFault
  BY RowUntouched, CacheUntouched DEF InsertHiringProposal, rowVars, RosterInv
<1> QED
  BY <1>6, <1>7, <1>8 DEF RosterInv

\* An operator reads a pending proposal, or its transaction fails.
LEMMA RosterReads ==
    ASSUME RosterInv, NEW o \in Operators, NEW p \in Proposals, NEW verb \in {"approve", "reject"},
           ReadPendingProposal(o, verb, p) \/ DecisionAborts(o)
    PROVE  RosterInv'
<1>1. PICK d \in DecisionRec \union {NoDecision} : decision' = [decision EXCEPT ![o] = d]
  BY DEF ReadPendingProposal, DecisionAborts, DecisionRec
<1>2. UNCHANGED <<proposal, sawDecided, rowVars, cacheVars>>
  BY DEF ReadPendingProposal, DecisionAborts
<1>3. ProposalTypes' /\ ProposalInv'
  BY <1>1, <1>2 DEF RosterInv, ProposalTypes, ProposalInv
<1>4. AgentRowInv' /\ CacheInv'
  BY <1>2, RowUntouched, CacheUntouched DEF rowVars
<1>5. rosterFaults' \in 0..MaxRosterFault
  BY RosterFaultBound DEF ReadPendingProposal, DecisionAborts, RosterInv
<1> QED
  BY <1>3, <1>4, <1>5 DEF RosterInv

\* The guarded UPDATE: one pending row changes its status, or nothing does.
LEMMA ProposalMarked ==
    ASSUME RosterInv, NEW p \in Proposals, NEW s \in {"install_in_progress", "rejected"}
    PROVE  /\ MarkPending(p, s) \in [Proposals -> ProposalRec]
           /\ \A q \in Proposals : MarkPending(p, s)[q].kind = proposal[q].kind
           /\ \A q \in Proposals \ {p} : MarkPending(p, s)[q] = proposal[q]
           /\ proposal[p].status = "pending" => MarkPending(p, s)[p].status = s
           /\ proposal[p].status # "pending" => MarkPending(p, s)[p] = proposal[p]
<1>1. proposal \in [Proposals -> ProposalRec]
  BY DEF RosterInv, ProposalTypes
<1>2. PICK w \in ProposalRec : w = [proposal[p] EXCEPT !.status = s] /\ w.status = s /\ w.kind = proposal[p].kind
  <2>1. PICK r \in ProposalRec : r = proposal[p]
    BY <1>1
  <2>2. [r EXCEPT !.status = s] \in ProposalRec
    BY DEF ProposalRec
  <2>3. [r EXCEPT !.status = s].status = s /\ [r EXCEPT !.status = s].kind = r.kind
    BY DEF ProposalRec
  <2> QED
    BY <2>1, <2>2, <2>3
<1>3. CASE proposal[p].status = "pending"
  <2>1. MarkPending(p, s) = [proposal EXCEPT ![p] = w]
    BY <1>2, <1>3 DEF MarkPending
  <2>2. MarkPending(p, s)[p] = w /\ \A q \in Proposals \ {p} : MarkPending(p, s)[q] = proposal[q]
    BY <1>1, <2>1
  <2> QED
    BY <1>1, <1>2, <1>3, <2>1, <2>2
<1>4. CASE proposal[p].status # "pending"
  BY <1>1, <1>4 DEF MarkPending
<1> QED
  BY <1>3, <1>4

\* A rejected proposal, or a hire: no sibling of a skill kind is approved.
LEMMA ProposalDecided ==
    ASSUME RosterInv, NEW p \in Proposals, NEW s \in {"install_in_progress", "rejected"},
           s = "rejected" \/ proposal[p].kind = "hire",
           proposal' = MarkPending(p, s), sawDecided' = sawDecided,
           NEW o \in Operators, decision' = [decision EXCEPT ![o] = NoDecision]
    PROVE  ProposalTypes' /\ ProposalInv'
<1>1. ProposalTypes'
  BY ProposalMarked DEF RosterInv, ProposalTypes
<1>2. /\ \A q \in Proposals : proposal'[q].kind = proposal[q].kind
      /\ \A q \in Proposals \ {p} : proposal'[q] = proposal[q]
      /\ proposal[p].status = "pending" => proposal'[p].status = s
      /\ proposal[p].status # "pending" => proposal'[p] = proposal[p]
  BY ProposalMarked
<1>3. ProposalInv'
  <2> SUFFICES ASSUME NEW a \in Proposals, NEW b \in Proposals, a # b,
                      proposal'[a].kind = proposal'[b].kind, proposal'[a].kind # "hire",
                      proposal'[a].status = "install_in_progress",
                      proposal'[b].status \in {"pending", "install_in_progress"}
               PROVE  a \in sawDecided'[b] \/ (proposal'[b].status = "install_in_progress" /\ b \in sawDecided'[a])
    BY DEF ProposalInv
  <2>1. proposal'[a].status = proposal[a].status /\ proposal'[b].status = proposal[b].status
    BY <1>2
  <2>2. proposal[a].kind = proposal[b].kind /\ proposal[a].kind # "hire"
    BY <1>2
  <2> QED
    BY <2>1, <2>2 DEF RosterInv, ProposalInv
<1> QED
  BY <1>1, <1>3

\* A skill approval supersedes every pending sibling in the same transaction.
LEMMA ProposalApproved ==
    ASSUME RosterInv, NEW p \in Proposals,
           proposal' = SupersedeSiblings(p, MarkPending(p, "install_in_progress")), sawDecided' = sawDecided,
           NEW o \in Operators, decision' = [decision EXCEPT ![o] = NoDecision]
    PROVE  ProposalTypes' /\ ProposalInv'
<1>1. PICK rows : rows = MarkPending(p, "install_in_progress")
  OBVIOUS
<1>2. /\ rows \in [Proposals -> ProposalRec]
      /\ \A q \in Proposals : rows[q].kind = proposal[q].kind
      /\ \A q \in Proposals \ {p} : rows[q] = proposal[q]
      /\ proposal[p].status = "pending" => rows[p].status = "install_in_progress"
      /\ proposal[p].status # "pending" => rows[p] = proposal[p]
  BY <1>1, ProposalMarked
<1>3. \A q \in Proposals :
        proposal'[q] = IF q \in Siblings(p) /\ rows[q].status = "pending"
                       THEN [rows[q] EXCEPT !.status = "superseded", !.supersededBy = p] ELSE rows[q]
  BY <1>1 DEF SupersedeSiblings
<1>4. ASSUME NEW q \in Proposals
      PROVE  /\ [rows[q] EXCEPT !.status = "superseded", !.supersededBy = p] \in ProposalRec
             /\ [rows[q] EXCEPT !.status = "superseded", !.supersededBy = p].status = "superseded"
             /\ [rows[q] EXCEPT !.status = "superseded", !.supersededBy = p].kind = rows[q].kind
  <2>1. PICK r \in ProposalRec : r = rows[q]
    BY <1>2
  <2>2. [r EXCEPT !.status = "superseded", !.supersededBy = p] \in ProposalRec
    BY DEF ProposalRec
  <2>3. /\ [r EXCEPT !.status = "superseded", !.supersededBy = p].status = "superseded"
        /\ [r EXCEPT !.status = "superseded", !.supersededBy = p].kind = r.kind
    BY DEF ProposalRec
  <2> QED
    BY <2>1, <2>2, <2>3
<1>5. \A q \in Proposals :
        /\ proposal'[q] \in ProposalRec /\ proposal'[q].kind = proposal[q].kind
        /\ \/ proposal'[q] = rows[q] /\ ~ (q \in Siblings(p) /\ rows[q].status = "pending")
           \/ proposal'[q].status = "superseded"
  BY <1>2, <1>3, <1>4
<1>6. ProposalTypes'
  <2>1. proposal' \in [Proposals -> ProposalRec]
    BY <1>5 DEF SupersedeSiblings
  <2> QED
    BY <2>1 DEF RosterInv, ProposalTypes
<1>7. ProposalInv'
  <2> SUFFICES ASSUME NEW a \in Proposals, NEW b \in Proposals, a # b,
                      proposal'[a].kind = proposal'[b].kind, proposal'[a].kind # "hire",
                      proposal'[a].status = "install_in_progress",
                      proposal'[b].status \in {"pending", "install_in_progress"}
               PROVE  a \in sawDecided'[b] \/ (proposal'[b].status = "install_in_progress" /\ b \in sawDecided'[a])
    BY DEF ProposalInv
  <2>1. proposal'[a] = rows[a] /\ proposal'[b] = rows[b] /\ proposal[a].kind = proposal[b].kind /\ proposal[a].kind # "hire"
    BY <1>5
  <2>2. CASE a = p
    <3>1. b \in Siblings(p) /\ rows[b] = proposal[b]
      BY <1>2, <2>1, <2>2 DEF Siblings
    <3>2. rows[b].status = "install_in_progress"
      BY <1>5, <2>1, <3>1
    <3>3. proposal[a].status \in {"pending", "install_in_progress"}
      BY <1>2, <2>1, <2>2
    <3>4. b \in sawDecided[a] \/ (proposal[a].status = "install_in_progress" /\ a \in sawDecided[b])
      BY <2>1, <3>1, <3>2, <3>3 DEF RosterInv, ProposalInv
    <3> QED
      BY <2>1, <3>2, <3>4
  <2>3. CASE a # p /\ b = p
    <3>1. rows[a] = proposal[a] /\ proposal[b].status \in {"pending", "install_in_progress"}
      BY <1>2, <2>1, <2>3
    <3>2. a \in sawDecided[b] \/ (proposal[b].status = "install_in_progress" /\ b \in sawDecided[a])
      BY <2>1, <3>1 DEF RosterInv, ProposalInv
    <3>3. proposal[b].status = "install_in_progress" => rows[b] = proposal[b]
      BY <1>2, <2>3
    <3> QED
      BY <2>1, <3>2, <3>3
  <2>4. CASE a # p /\ b # p
    <3>1. rows[a] = proposal[a] /\ rows[b] = proposal[b]
      BY <1>2, <2>4
    <3> QED
      BY <2>1, <3>1 DEF RosterInv, ProposalInv
  <2> QED
    BY <2>2, <2>3, <2>4
<1> QED
  BY <1>6, <1>7

\* The fields of an agents row after a change of its status, and of its
\* configuration.
LEMMA StatusWritten ==
    ASSUME NEW r \in Agent, NEW s \in {"active", "paused"}
    PROVE  /\ [r EXCEPT !.status = s] \in Agent
           /\ [r EXCEPT !.status = s].status = s /\ [r EXCEPT !.status = s].set = r.set
<1>1. [r EXCEPT !.status = s] \in Agent
  BY DEF Agent
<1>2. [r EXCEPT !.status = s].status = s /\ [r EXCEPT !.status = s].set = r.set
  BY DEF Agent
<1> QED
  BY <1>1, <1>2

\* Writing configuration fields keeps the status.
LEMMA SetWritten ==
    ASSUME NEW r \in Agent, NEW c \in [ConfigFields -> 0..MaxChange]
    PROVE  [r EXCEPT !.set = c] \in Agent /\ [r EXCEPT !.set = c].status = r.status
<1>1. [r EXCEPT !.set = c] \in Agent
  BY DEF Agent
<1>2. [r EXCEPT !.set = c].status = r.status
  BY DEF Agent
<1> QED
  BY <1>1, <1>2

\* A write is either still to be heard or known to be missed.
LEMMA CacheBehind ==
    ASSUME RosterInv, NEW row, WriteAgent(row) PROVE CacheInv'
<1>1. /\ version \in Nat /\ unheard \in Nat /\ unheard <= version /\ missed \in BOOLEAN
  BY RosterAssumption DEF RosterInv, AgentRowInv, CacheInv
<1>2. /\ unheard' \in Nat /\ unheard' <= version' /\ missed' \in BOOLEAN /\ ~ (unheard' = 0 /\ ~ missed')
  <2>1. CASE listener.conn = "on"
    BY <1>1, <2>1 DEF WriteAgent
  <2>2. CASE listener.conn # "on"
    <3>1. missed' = (missed \/ listener.conn # "on")
      BY DEF WriteAgent
    <3>2. missed' = TRUE
      BY <2>2, <3>1, Zenon
    <3>3. unheard' = unheard /\ version' = version + 1
      BY <2>2 DEF WriteAgent
    <3> QED
      BY <1>1, <3>2, <3>3
  <2> QED
    BY <2>1, <2>2
<1> QED
  BY <1>2 DEF WriteAgent, RosterInv, CacheInv, RosterIsFresh

\* The row is written and counted; every form that is open is now stale.
LEMMA RowWritten ==
    ASSUME RosterInv, NEW row \in Agent, row.status # "none", WriteAgent(row),
           \/ Change /\ AgentExists
           \/ ~ AgentExists /\ changes' = changes,
           edit' \in [Editors -> EditRec \union {NoEdit}],
           settings' = settings \/ settings' = NoSettings
    PROVE  AgentRowInv'
<1>1. agentRow' = row /\ AgentExists' /\ version' = version + 1
  BY DEF WriteAgent, AgentExists
<1>2. changes' \in 0..MaxChange /\ version' = changes' + 1 /\ version \in Nat
  BY RosterAssumption DEF RosterInv, AgentRowInv, Change, WriteAgent
<1>3. ~ NoSettings.open
  BY DEF NoSettings
<1>4. settings.open => settings.token \in Int /\ settings.token <= version
  <2>1. settings.open => settings \in SettingsRec
    BY <1>3 DEF RosterInv, AgentRowInv
  <2>2. settings \in SettingsRec => settings.token \in Int
    BY RosterAssumption DEF SettingsRec
  <2> QED
    BY <2>1, <2>2 DEF RosterInv, AgentRowInv
<1>5. /\ settings' = NoSettings \/ settings' \in SettingsRec
      /\ settings'.open => settings'.token < version'
  <2>1. CASE settings' = NoSettings
    BY <1>3, <2>1
  <2>2. CASE settings' = settings
    BY <1>1, <1>2, <1>4, <2>2 DEF RosterInv, AgentRowInv
  <2> QED
    BY <2>1, <2>2
<1>6. settings'.open => settings'.token <= version' /\ settings'.token # version'
  <2>1. settings'.open => settings'.token \in Int
    BY <1>3, <1>4
  <2> QED
    BY <1>2, <1>5, <2>1
<1> QED
  BY <1>1, <1>2, <1>5, <1>6 DEF AgentRowInv

\* A write puts this into a row of the agent that is there.
LEMMA ConfigWritten ==
    ASSUME RosterInv, Change, NEW f \in ConfigFields
    PROVE  /\ changes' \in 0..MaxChange
           /\ [agentRow EXCEPT !.set[f] = changes'] \in Agent
           /\ [agentRow EXCEPT !.set[f] = changes'].status = agentRow.status
<1>1. changes' \in 0..MaxChange
  BY RosterAssumption DEF RosterInv, AgentRowInv, Change
<1>2. agentRow \in Agent
  BY DEF RosterInv, AgentRowInv
<1>3. PICK c \in [ConfigFields -> 0..MaxChange] : c = [agentRow.set EXCEPT ![f] = changes']
  <2>1. agentRow.set \in [ConfigFields -> 0..MaxChange]
    BY <1>2 DEF Agent
  <2> QED
    BY <1>1, <2>1
<1>4. [agentRow EXCEPT !.set[f] = changes'] = [agentRow EXCEPT !.set = c]
  BY <1>3
<1> QED
  BY <1>1, <1>2, <1>4, SetWritten

\* pause, resume, agent.md, and an accepted or refused save of the form.
LEMMA RosterWrites ==
    ASSUME RosterInv,
           \/ \E target \in {"active", "paused"} : SetAgentStatus(target)
           \/ UpdateAgentMD
           \/ \E field \in ConfigFields : EditAgent(field)
    PROVE  RosterInv'
<1>1. ProposalTypes' /\ ProposalInv' /\ rosterFaults' \in 0..MaxRosterFault
  BY ProposalsUntouched DEF SetAgentStatus, UpdateAgentMD, EditAgent, RosterInv
<1>2. /\ agentRow \in Agent /\ edit' = edit /\ edit \in [Editors -> EditRec \union {NoEdit}]
      /\ settings.open => AgentExists
  <2>1. edit' = edit
    BY DEF SetAgentStatus, UpdateAgentMD, EditAgent
  <2>2. ~ NoSettings.open
    BY DEF NoSettings
  <2> QED
    BY <2>1, <2>2 DEF RosterInv, AgentRowInv
<1>3. ASSUME NEW target \in {"active", "paused"}, SetAgentStatus(target) PROVE AgentRowInv' /\ CacheInv'
  <2>1. PICK row \in Agent : row = [agentRow EXCEPT !.status = target] /\ row.status = target
    BY <1>2, StatusWritten
  <2>2. WriteAgent(row) /\ Change /\ AgentExists /\ settings' = settings
    BY <1>3, <2>1 DEF SetAgentStatus
  <2> QED
    BY <1>2, <2>1, <2>2, RowWritten, CacheBehind
<1>4. ASSUME NEW f \in ConfigFields, AgentExists, Change, WriteAgent([agentRow EXCEPT !.set[f] = changes']),
             settings' = settings \/ settings' = NoSettings
      PROVE  AgentRowInv' /\ CacheInv'
  <2>1. PICK row \in Agent : row = [agentRow EXCEPT !.set[f] = changes'] /\ row.status = agentRow.status
    BY <1>4, ConfigWritten
  <2>2. WriteAgent(row) /\ row.status # "none"
    BY <1>4, <2>1 DEF AgentExists
  <2> QED
    BY <1>2, <1>4, <2>2, RowWritten, CacheBehind
<1>5. CASE UpdateAgentMD
  <2>1. "md" \in ConfigFields
    BY DEF ConfigFields
  <2> QED
    BY <1>1, <1>4, <1>5, <2>1 DEF UpdateAgentMD, RosterInv
<1>6. ASSUME NEW f \in ConfigFields, EditAgent(f) PROVE RosterInv'
  <2>1. CASE TokenCurrent
    BY <1>1, <1>2, <1>4, <1>6, <2>1 DEF EditAgent, RosterInv
  <2>2. CASE ~ TokenCurrent
    <3>1. settings' = NoSettings /\ ~ NoSettings.open /\ UNCHANGED <<agentRow, version, changes, cacheVars>>
      BY <1>6, <2>2 DEF EditAgent, NoSettings
    <3>2. CacheInv'
      BY <3>1, CacheUntouched
    <3>3. AgentRowInv'
      BY <1>2, <3>1 DEF RosterInv, AgentRowInv, AgentExists
    <3> QED
      BY <1>1, <3>2, <3>3 DEF RosterInv
  <2> QED
    BY <2>1, <2>2
<1> QED
  BY <1>1, <1>3, <1>5, <1>6 DEF RosterInv

\* An edit begins with a read of the row and ends with its write, or without.
LEMMA RosterEdits ==
    ASSUME RosterInv, NEW e \in Editors, NEW field \in ConfigFields,
           ReadConfig(e, field) \/ UpdateAgentConfigFields(e) \/ EditFails(e)
    PROVE  RosterInv'
<1>1. ProposalTypes' /\ ProposalInv' /\ rosterFaults' \in 0..MaxRosterFault
  BY ProposalsUntouched DEF ReadConfig, UpdateAgentConfigFields, EditFails, RosterInv
<1>2. /\ agentRow \in Agent /\ edit \in [Editors -> EditRec \union {NoEdit}]
      /\ settings' = settings
  BY DEF RosterInv, AgentRowInv, ReadConfig, UpdateAgentConfigFields, EditFails
<1>3. CASE ReadConfig(e, field) \/ EditFails(e)
  <2>1. AgentExists /\ UNCHANGED <<agentRow, version, changes, cacheVars>>
    BY <1>3 DEF ReadConfig, EditFails, RosterInv, AgentRowInv
  <2>2. [field |-> field, read |-> agentRow] \in EditRec
    BY <1>2 DEF EditRec
  <2>3. edit' \in [Editors -> EditRec \union {NoEdit}]
    BY <1>2, <1>3, <2>2 DEF ReadConfig, EditFails
  <2>4. CacheInv'
    BY <2>1, CacheUntouched
  <2>5. AgentRowInv'
    BY <1>2, <2>1, <2>3 DEF RosterInv, AgentRowInv, AgentExists
  <2> QED
    BY <1>1, <2>4, <2>5 DEF RosterInv
<1>4. CASE UpdateAgentConfigFields(e)
  <2>1. /\ edit[e] \in EditRec /\ AgentExists /\ Change /\ changes' \in 0..MaxChange
        /\ edit' = [edit EXCEPT ![e] = NoEdit]
    BY <1>2, <1>4, RosterAssumption DEF UpdateAgentConfigFields, RosterInv, AgentRowInv, Change
  <2>2. edit[e].read \in Agent /\ edit[e].field \in ConfigFields
    BY <2>1 DEF EditRec
  <2>3. PICK c \in [ConfigFields -> 0..MaxChange] : c = [edit[e].read.set EXCEPT ![edit[e].field] = changes']
    <3>1. edit[e].read.set \in [ConfigFields -> 0..MaxChange]
      BY <2>2 DEF Agent
    <3> QED
      BY <2>1, <2>2, <3>1
  <2>4. PICK row \in Agent : row = [agentRow EXCEPT !.set = c] /\ row.status = agentRow.status
    BY <1>2, SetWritten
  <2>5. WriteAgent(row) /\ row.status # "none"
    BY <1>4, <2>1, <2>3, <2>4 DEF UpdateAgentConfigFields, MergeAgentConfigFields, AgentExists
  <2>6. edit' \in [Editors -> EditRec \union {NoEdit}]
    BY <1>2, <2>1
  <2>7. AgentRowInv' /\ CacheInv'
    BY <1>2, <2>1, <2>5, <2>6, RowWritten, CacheBehind
  <2> QED
    BY <1>1, <2>7 DEF RosterInv
<1> QED
  BY <1>3, <1>4

\* The form is opened on the row and version of the moment.
LEMMA RosterOpens == ASSUME RosterInv, OpenForm PROVE RosterInv'
<1>1. ProposalTypes' /\ ProposalInv' /\ rosterFaults' \in 0..MaxRosterFault /\ CacheInv'
  BY ProposalsUntouched, CacheUntouched DEF OpenForm, RosterInv
<1>2. version \in 0..(MaxChange + 1) /\ agentRow \in Agent
  BY RosterAssumption DEF RosterInv, AgentRowInv
<1>3. settings' \in SettingsRec /\ settings'.token = version /\ settings'.seen = agentRow
  BY <1>2 DEF OpenForm, SettingsRec
<1>4. AgentRowInv'
  BY <1>2, <1>3 DEF OpenForm, RosterInv, AgentRowInv, AgentExists
<1> QED
  BY <1>1, <1>4 DEF RosterInv

\* A decision commits; a hire inserts the agents row in its transaction.
LEMMA RosterDecides ==
    ASSUME RosterInv, NEW o \in Operators, ApproveHire(o) \/ ApproveSkillFlow(o) \/ RejectProposal(o)
    PROVE  RosterInv'
<1>1. PICK p \in Proposals : p = decision[o].on
  <2>1. decision[o].pc = "read"
    BY DEF ApproveHire, ApproveSkillFlow, RejectProposal
  <2>2. decision[o] \in DecisionRec
    BY <2>1 DEF RosterInv, ProposalTypes, NoDecision
  <2> QED
    BY <2>2 DEF DecisionRec
<1>2. CASE ApproveHire(o)
  <2>1. ProposalTypes' /\ ProposalInv'
    BY <1>1, <1>2, ProposalDecided DEF ApproveHire
  <2>2. PICK row \in Agent : row = InsertAgentForHire(p) /\ row.status = "active"
    <3>1. PICK n \in Agent : n = NoAgent
      BY NoAgentIsAgent
    <3>2. [n EXCEPT !.status = "active", !.hiredBy = p] \in Agent
      BY DEF Agent
    <3>3. [n EXCEPT !.status = "active", !.hiredBy = p].status = "active"
      BY DEF Agent
    <3> QED
      BY <3>1, <3>2, <3>3 DEF InsertAgentForHire
  <2>3. WriteAgent(row) /\ ~ AgentExists /\ changes' = changes /\ edit' = edit /\ settings' = settings
    BY <1>1, <1>2, <2>2 DEF ApproveHire
  <2>4. edit' \in [Editors -> EditRec \union {NoEdit}]
    BY <2>3 DEF RosterInv, AgentRowInv
  <2>5. AgentRowInv' /\ CacheInv'
    BY <2>2, <2>3, <2>4, RowWritten, CacheBehind
  <2> QED
    BY <1>2, <2>1, <2>5 DEF ApproveHire, RosterInv
<1>3. CASE ApproveSkillFlow(o)
  <2>1. ProposalTypes' /\ ProposalInv'
    BY <1>1, <1>3, ProposalApproved DEF ApproveSkillFlow
  <2>2. AgentRowInv' /\ CacheInv' /\ rosterFaults' \in 0..MaxRosterFault
    BY <1>3, RowUntouched, CacheUntouched DEF ApproveSkillFlow, rowVars, RosterInv
  <2> QED
    BY <2>1, <2>2 DEF RosterInv
<1>4. CASE RejectProposal(o)
  <2>1. ProposalTypes' /\ ProposalInv'
    BY <1>1, <1>4, ProposalDecided DEF RejectProposal
  <2>2. AgentRowInv' /\ CacheInv' /\ rosterFaults' \in 0..MaxRosterFault
    BY <1>4, RowUntouched, CacheUntouched DEF RejectProposal, rowVars, RosterInv
  <2> QED
    BY <2>1, <2>2 DEF RosterInv
<1> QED
  BY <1>2, <1>3, <1>4

\* The listener's steps.
LEMMA RosterListens == ASSUME RosterInv, CacheNext PROVE RosterInv'
<1>1. UNCHANGED proposalVars /\ UNCHANGED rowVars
  BY DEF CacheNext, NewCache, StartChangeListener, ReceiveChange, ListActiveAgents, SwapCache, ListenerDies, RosterRestart
<1>2. ProposalTypes' /\ ProposalInv' /\ AgentRowInv'
  BY <1>1, ProposalsUntouched, RowUntouched
<1>3. rosterFaults' \in 0..MaxRosterFault
  BY RosterFaultBound DEF CacheNext, NewCache, StartChangeListener, ReceiveChange, ListActiveAgents, SwapCache,
     ListenerDies, RosterRestart, RosterInv
<1>4. /\ listener \in ListenerRec /\ unheard \in Nat /\ version \in Nat /\ unheard <= version
      /\ ActiveRow \in Agent /\ NoAgent \in Agent /\ missed \in BOOLEAN
      /\ roster \in Agent /\ routed \in BOOLEAN /\ listener.rows \in Agent
  BY NoAgentIsAgent, RosterAssumption DEF RosterInv, AgentRowInv, CacheInv, ActiveRow, ListenerRec
<1>5. ActiveRow' = ActiveRow /\ version' = version
  BY <1>1 DEF ActiveRow, rowVars
<1>6. CacheInv'
  <2>1. CASE NewCache
    <3>1. listener' \in ListenerRec /\ listener'.pc = "wait"
      BY <1>4, <2>1 DEF NewCache, ListenerRec
    <3> QED
      BY <1>4, <1>5, <2>1, <3>1 DEF NewCache, CacheInv, RosterIsFresh
  <2>2. CASE StartChangeListener
    <3>1. listener' \in ListenerRec /\ listener'.pc = "wait" /\ listener.pc = "wait"
      BY <1>4, <2>2 DEF StartChangeListener, ListenerRec
    <3> QED
      BY <1>4, <1>5, <2>2, <3>1 DEF StartChangeListener, RosterInv, CacheInv, RosterIsFresh
  <2>3. CASE ReceiveChange
    <3>1. listener' \in ListenerRec /\ listener'.pc = "reset"
      BY <1>4, <2>3 DEF ReceiveChange, ListenerRec
    <3> QED
      BY <1>4, <1>5, <2>3, <3>1 DEF ReceiveChange, CacheInv, RosterIsFresh
  <2>4. CASE ListActiveAgents
    <3>1. CASE listener' = [listener EXCEPT !.pc = "swap", !.rows = ActiveRow] /\ missed' = (listener.conn # "on" /\ missed)
      <4>1. listener' \in ListenerRec /\ listener'.pc = "swap" /\ listener'.rows = ActiveRow
        BY <1>4, <3>1 DEF ListenerRec
      <4> QED
        BY <1>4, <1>5, <2>4, <3>1, <4>1 DEF ListActiveAgents, CacheInv, RosterIsFresh
    <3>2. CASE listener' = [listener EXCEPT !.pc = "wait"] /\ missed' = TRUE
      <4>1. listener' \in ListenerRec /\ listener'.pc = "wait"
        BY <1>4, <3>2 DEF ListenerRec
      <4> QED
        BY <1>4, <1>5, <2>4, <3>2, <4>1 DEF ListActiveAgents, CacheInv, RosterIsFresh
    <3> QED
      BY <2>4, <3>1, <3>2 DEF ListActiveAgents
  <2>5. CASE SwapCache
    <3>1. listener' \in ListenerRec /\ listener'.pc = "wait" /\ listener.pc = "swap"
      BY <1>4, <2>5 DEF SwapCache, ListenerRec
    <3> QED
      BY <1>4, <1>5, <2>5, <3>1 DEF SwapCache, RosterInv, CacheInv, RosterIsFresh
  <2>6. CASE ListenerDies
    <3>1. listener' \in ListenerRec /\ listener'.pc = listener.pc /\ listener'.rows = listener.rows
      BY <1>4, <2>6 DEF ListenerDies, ListenerRec
    <3>2. unheard' = 0 /\ missed' \in BOOLEAN /\ (~ missed' => ~ missed /\ unheard = 0)
      <4>1. missed' = (missed \/ unheard > 0) /\ unheard' = 0
        BY <2>6 DEF ListenerDies
      <4>2. CASE missed \/ unheard > 0
        BY <4>1, <4>2
      <4>3. CASE ~ missed /\ ~ (unheard > 0)
        BY <1>4, <4>1, <4>3
      <4> QED
        BY <4>2, <4>3
    <3> QED
      BY <1>4, <1>5, <2>6, <3>1, <3>2 DEF ListenerDies, RosterInv, CacheInv, RosterIsFresh
  <2>7. CASE RosterRestart
    <3>1. listener' \in ListenerRec /\ listener'.pc = "down"
      BY <1>4, <2>7 DEF RosterRestart, ListenerRec
    <3> QED
      BY <1>4, <1>5, <2>7, <3>1 DEF RosterRestart, CacheInv, RosterIsFresh
  <2> QED
    BY <2>1, <2>2, <2>3, <2>4, <2>5, <2>6, <2>7 DEF CacheNext
<1> QED
  BY <1>2, <1>3, <1>6 DEF RosterInv

\* Every step of hiring and of the roster keeps RosterInv.
LEMMA RosterInvStep == RosterInv /\ [HiringNext \/ RosterNext]_rosterVars => RosterInv'
<1> SUFFICES ASSUME RosterInv, [HiringNext \/ RosterNext]_rosterVars PROVE RosterInv'
  OBVIOUS
<1>1. CASE UNCHANGED rosterVars
  <2>1. UNCHANGED <<proposalVars, rowVars, cacheVars, rosterFaults>>
    BY <1>1 DEF rosterVars
  <2>2. ProposalTypes' /\ ProposalInv' /\ AgentRowInv' /\ CacheInv'
    BY <2>1, ProposalsUntouched, RowUntouched, CacheUntouched DEF rowVars
  <2> QED
    BY <2>1, <2>2 DEF RosterInv
<1>2. CASE HiringNext
  <2>1. ASSUME NEW p \in Proposals, ProposeHire(p) \/ ProposeSkillChange(p) \/ BumpSkillVersion(p) PROVE RosterInv'
    BY <2>1, RosterInserts DEF ProposeHire, ProposeSkillChange, BumpSkillVersion, RunSkillProposalTx
  <2>2. ASSUME NEW o \in Operators, NEW verb \in {"approve", "reject"}, NEW p \in Proposals, ReadPendingProposal(o, verb, p)
        PROVE  RosterInv'
    BY <2>2, RosterReads
  <2>3. ASSUME NEW o \in Operators, DecisionAborts(o) PROVE RosterInv'
    <3>1. PICK p \in Proposals : TRUE
      BY <2>3 DEF DecisionAborts, RosterInv, ProposalTypes, DecisionRec, NoDecision
    <3> QED
      BY <2>3, <3>1, RosterReads
  <2> QED
    BY <1>2, <2>1, <2>2, <2>3, RosterDecides DEF HiringNext
<1>3. CASE RosterNext
  <2>1. ASSUME NEW e \in Editors, UpdateAgentConfigFields(e) \/ EditFails(e) PROVE RosterInv'
    <3>1. "md" \in ConfigFields
      BY DEF ConfigFields
    <3> QED
      BY <2>1, <3>1, RosterEdits
  <2>2. CASE RowNext
    BY <2>1, <2>2, RosterWrites, RosterEdits, RosterOpens DEF RowNext
  <2> QED
    BY <1>3, <2>2, RosterListens, RosterDecides DEF RosterNext
<1> QED
  BY <1>1, <1>2, <1>3

\* A decided proposal is not touched again.
LEMMA DecidedKept ==
    RosterInv /\ (HiringNext \/ RosterNext) => \A p \in Proposals : Decided(p) => proposal'[p] = proposal[p]
<1> SUFFICES ASSUME RosterInv, HiringNext \/ RosterNext, NEW p \in Proposals, Decided(p) PROVE proposal'[p] = proposal[p]
  OBVIOUS
<1>1. proposal[p].status \notin {"none", "pending"} /\ proposal \in [Proposals -> ProposalRec]
  BY DEF Decided, RosterInv, ProposalTypes
<1>2. ASSUME NEW q \in Proposals, NEW s \in {"install_in_progress", "rejected"} PROVE MarkPending(q, s)[p] = proposal[p]
  BY <1>1, ProposalMarked
<1>3. ASSUME NEW o \in Operators, ApproveHire(o) \/ ApproveSkillFlow(o) \/ RejectProposal(o)
      PROVE  proposal'[p] = proposal[p]
  <2>1. decision[o].pc = "read"
    BY <1>3 DEF ApproveHire, ApproveSkillFlow, RejectProposal
  <2>2. PICK q \in Proposals : q = decision[o].on
    BY <2>1 DEF RosterInv, ProposalTypes, NoDecision, DecisionRec
  <2>3. CASE ApproveHire(o) \/ RejectProposal(o)
    BY <1>2, <2>2, <2>3 DEF ApproveHire, RejectProposal
  <2>4. CASE ApproveSkillFlow(o)
    <3>1. PICK rows : rows = MarkPending(q, "install_in_progress")
      OBVIOUS
    <3>2. rows[p] = proposal[p]
      BY <1>2, <3>1
    <3>3. proposal' = SupersedeSiblings(q, rows)
      BY <2>2, <2>4, <3>1 DEF ApproveSkillFlow
    <3> QED
      BY <1>1, <3>2, <3>3 DEF SupersedeSiblings
  <2> QED
    BY <1>3, <2>3, <2>4
<1>4. ASSUME NEW q \in Proposals, NEW kind, InsertHiringProposal(q, kind) PROVE proposal'[p] = proposal[p]
  <2>1. q # p
    BY <1>1, <1>4 DEF InsertHiringProposal, NoProposal
  <2> QED
    BY <1>1, <1>4, <2>1 DEF InsertHiringProposal
<1>5. ASSUME NEW q \in Proposals, ProposeHire(q) \/ ProposeSkillChange(q) \/ BumpSkillVersion(q)
      PROVE  proposal'[p] = proposal[p]
  BY <1>4, <1>5 DEF ProposeHire, ProposeSkillChange, BumpSkillVersion, RunSkillProposalTx
<1>6. CASE HiringNext
  BY <1>3, <1>5, <1>6 DEF HiringNext, ReadPendingProposal, DecisionAborts
<1>7. CASE RowNext
  BY <1>7 DEF RowNext, SetAgentStatus, ReadConfig, UpdateAgentConfigFields, EditFails, UpdateAgentMD, OpenForm,
     EditAgent, proposalVars
<1>8. CASE CacheNext
  BY <1>8 DEF CacheNext, NewCache, StartChangeListener, ReceiveChange, ListActiveAgents, SwapCache, ListenerDies,
     RosterRestart, proposalVars
<1> QED
  BY <1>3, <1>6, <1>7, <1>8 DEF RosterNext

\* Only pause and resume change the status of a row that is there.
LEMMA StatusKept ==
    RosterInv /\ (HiringNext \/ RosterNext) =>
        (agentRow'.status # agentRow.status => agentRow.status = "none" \/ agentRow'.set = agentRow.set)
<1> SUFFICES ASSUME RosterInv, HiringNext \/ RosterNext, agentRow'.status # agentRow.status, agentRow.status # "none"
             PROVE  agentRow'.set = agentRow.set
  OBVIOUS
<1>1. agentRow \in Agent
  BY DEF RosterInv, AgentRowInv
<1>2. ASSUME NEW target \in {"active", "paused"}, SetAgentStatus(target) PROVE agentRow'.set = agentRow.set
  BY <1>1, <1>2, StatusWritten DEF SetAgentStatus, WriteAgent
<1>3. ASSUME NEW e \in Editors, UpdateAgentConfigFields(e) PROVE agentRow'.status = agentRow.status
  <2>1. PICK c : c = [edit[e].read.set EXCEPT ![edit[e].field] = changes']
    OBVIOUS
  <2>2. agentRow' = [agentRow EXCEPT !.set = c]
    BY <1>3, <2>1 DEF UpdateAgentConfigFields, WriteAgent, MergeAgentConfigFields
  <2> QED
    BY <1>1, <2>2 DEF Agent
<1>4. ASSUME NEW f \in ConfigFields, EditAgent(f) PROVE agentRow'.status = agentRow.status
  BY <1>4, ConfigWritten DEF EditAgent, WriteAgent
<1>5. CASE UpdateAgentMD
  BY <1>5, ConfigWritten DEF UpdateAgentMD, WriteAgent, ConfigFields
<1>6. ASSUME NEW o \in Operators, ApproveHire(o) PROVE FALSE
  BY <1>6 DEF ApproveHire, AgentExists
<1>7. CASE HiringNext
  BY <1>6, <1>7 DEF HiringNext, ProposeHire, ProposeSkillChange, BumpSkillVersion, RunSkillProposalTx,
     InsertHiringProposal, ReadPendingProposal, ApproveSkillFlow, RejectProposal, DecisionAborts, rowVars
<1>8. CASE CacheNext
  BY <1>8 DEF CacheNext, NewCache, StartChangeListener, ReceiveChange, ListActiveAgents, SwapCache, ListenerDies,
     RosterRestart, rowVars
<1>9. CASE RowNext
  BY <1>2, <1>3, <1>4, <1>5, <1>9 DEF RowNext, ReadConfig, EditFails, OpenForm
<1> QED
  BY <1>6, <1>7, <1>8, <1>9 DEF RosterNext

\* A save that is accepted was made on the row as it is.
LEMMA FormsFresh ==
    RosterInv /\ (HiringNext \/ RosterNext) =>
        (settings.open /\ ~settings'.open /\ agentRow' # agentRow => settings.seen = agentRow)
<1> SUFFICES ASSUME RosterInv, HiringNext \/ RosterNext, settings.open, ~settings'.open, agentRow' # agentRow
             PROVE  settings.seen = agentRow
  OBVIOUS
<1>1. ASSUME NEW f \in ConfigFields, EditAgent(f) PROVE settings.seen = agentRow
  BY <1>1 DEF EditAgent, TokenCurrent, RosterInv, AgentRowInv
<1>2. CASE HiringNext
  BY <1>2 DEF HiringNext, ProposeHire, ProposeSkillChange, BumpSkillVersion, RunSkillProposalTx,
     InsertHiringProposal, ReadPendingProposal, ApproveHire, ApproveSkillFlow, RejectProposal, DecisionAborts, rowVars
<1>3. CASE CacheNext
  BY <1>3 DEF CacheNext, NewCache, StartChangeListener, ReceiveChange, ListActiveAgents, SwapCache, ListenerDies,
     RosterRestart, rowVars
<1>4. CASE RowNext
  BY <1>1, <1>4 DEF RowNext, SetAgentStatus, ReadConfig, UpdateAgentConfigFields, EditFails, UpdateAgentMD, OpenForm
<1>5. ASSUME NEW o \in Operators, ApproveHire(o) PROVE settings.seen = agentRow
  BY <1>5 DEF ApproveHire
<1> QED
  BY <1>2, <1>3, <1>4, <1>5 DEF RosterNext

=============================================================================
