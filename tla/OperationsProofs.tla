-------------------------- MODULE OperationsProofs --------------------------
(***************************************************************************)
(* What TLC checks of the subsystems in MCOperations, proved for every     *)
(* value of the constants.  The inductive invariants and their steps are   *)
(* in GatewayProofs, FleetProofs and DeskProofs, component by component;   *)
(* here a step of the composition is shown to be a step or a stutter of    *)
(* each component, and the theorems follow.                                *)
(***************************************************************************)
EXTENDS MCOperations, GatewayProofs, FleetProofs, DeskProofs

\* A step of the composition is a step of the picked part and a stutter of
\* the others (OthersStandStill).
LEMMA EachPartSteps ==
    [Next]_vars =>
        /\ [BrokerNext]_brokerVars
        /\ [RegistryNext \/ ReconcileNext]_mcpVars
        /\ [IntakeNext]_intakeVars
        /\ [VerbsNext]_verbVars
        /\ [HiringNext \/ RosterNext]_rosterVars
        /\ [FleetNext]_fleetVars
        /\ [InstallNext]_installVars
        /\ [ExecNext]_execVars
        /\ [SchedNext]_schedVars
        /\ [HygNext]_hygVars
        /\ [ChatNext]_chatVars
        /\ [ToolNext]_toolVars
<1> SUFFICES ASSUME [Next]_vars PROVE
        /\ [BrokerNext]_brokerVars
        /\ [RegistryNext \/ ReconcileNext]_mcpVars
        /\ [IntakeNext]_intakeVars
        /\ [VerbsNext]_verbVars
        /\ [HiringNext \/ RosterNext]_rosterVars
        /\ [FleetNext]_fleetVars
        /\ [InstallNext]_installVars
        /\ [ExecNext]_execVars
        /\ [SchedNext]_schedVars
        /\ [HygNext]_hygVars
        /\ [ChatNext]_chatVars
        /\ [ToolNext]_toolVars
  OBVIOUS
<1>1. CASE UNCHANGED vars
  BY <1>1 DEF vars
<1>2. CASE Next
  <2>1. [BrokerNext]_brokerVars
    BY <1>2 DEF Next, OthersStandStill
  <2>2. [RegistryNext \/ ReconcileNext]_mcpVars
    BY <1>2 DEF Next, OthersStandStill
  <2>3. [IntakeNext]_intakeVars
    BY <1>2 DEF Next, OthersStandStill
  <2>4. [VerbsNext]_verbVars
    BY <1>2 DEF Next, OthersStandStill
  <2>5. [HiringNext \/ RosterNext]_rosterVars
    BY <1>2 DEF Next, OthersStandStill
  <2>6. [FleetNext]_fleetVars
    BY <1>2 DEF Next, OthersStandStill
  <2>7. [InstallNext]_installVars
    BY <1>2 DEF Next, OthersStandStill
  <2>8. [ExecNext]_execVars
    BY <1>2 DEF Next, OthersStandStill
  <2>9. [SchedNext]_schedVars
    BY <1>2 DEF Next, OthersStandStill
  <2>10. [HygNext]_hygVars
    BY <1>2 DEF Next, OthersStandStill
  <2>11. [ChatNext]_chatVars
    BY <1>2 DEF Next, OthersStandStill
  <2>12. [ToolNext]_toolVars
    BY <1>2 DEF Next, OthersStandStill
  <2> QED
    BY <2>1, <2>2, <2>3, <2>4, <2>5, <2>6, <2>7, <2>8, <2>9, <2>10, <2>11, <2>12
<1> QED
  BY <1>1, <1>2

\* Nothing that needs an approval is posted before it, a row is posted once
\* but for the lapses between a post and its record, and what a settled row
\* says happened did happen, with any number of dispatchers and outboxes (the
\* action broker).
THEOREM PostsAreJustifiedHolds == Spec => []PostsAreJustified
<1>1. Init => BrokerInv
  BY BrokerInvInit DEF Init
<1>2. BrokerInv /\ [Next]_vars => BrokerInv'
  BY BrokerInvStep, EachPartSteps
<1>3. BrokerInv => PostsAreJustified
  BY BrokerSafe
<1> QED
  BY <1>1, <1>2, <1>3, PTL DEF Spec

\* A row that says registered is registered at MCPJungle, audited once and
\* submitted again only after a fault, and the token an agent is granted is
\* the one MCPJungle accepts, with any number of supervisors, servers and
\* agents (Worker.Handle, ReconcileAgents).
THEOREM RegistryAgreesHolds == Spec => []RegistryAgrees
<1>1. Init => McpInv
  BY McpInvInit DEF Init
<1>2. McpInv /\ [Next]_vars => McpInv'
  BY McpInvStep, EachPartSteps
<1>3. McpInv => RegistryAgrees
  BY McpSafe
<1> QED
  BY <1>1, <1>2, <1>3, PTL DEF Spec

\* A delivery makes at most one ticket however often it is sent, every answer
\* to GitHub is true, and the weekly budget is exceeded at most by the callers
\* that passed the gate together (the webhook handlers and create_ticket).
THEOREM IntakeIsCountedHolds == Spec => []IntakeIsCounted
<1>1. Init => IntakeInv
  BY IntakeInvInit DEF Init
<1>2. IntakeInv /\ [Next]_vars => IntakeInv'
  BY IntakeInvStep, EachPartSteps
<1>3. IntakeInv => IntakeIsCounted
  BY IntakeSafe
<1> QED
  BY <1>1, <1>2, <1>3, PTL DEF Spec

\* No chat verb moves or edits a ticket over a change it has not seen (the
\* mutation verbs' row locks and expected columns).
THEOREM NothingOverwrittenHolds == Spec => []NothingOverwritten
<1>1. Init => VerbsInv
  BY VerbsInvInit DEF Init
<1>2. VerbsInv /\ [Next]_vars => VerbsInv'
  BY VerbsInvStep, EachPartSteps
<1>3. VerbsInv => NothingOverwritten
  BY VerbsSafe
<1> QED
  BY <1>1, <1>2, <1>3, PTL DEF Spec

\* The agent's row, its proposals and the dispatcher's cached roster agree:
\* siblings are never both approved and a cache that heard everything routes
\* exactly the active agent (hiring verbs, the settings form, the roster cache).
THEOREM RosterIsSoundHolds == Spec => []RosterIsSound
<1>1. Init => RosterInv
  BY RosterInvInit DEF Init
<1>2. RosterInv /\ [Next]_vars => RosterInv'
  BY RosterInvStep, EachPartSteps
<1>3. RosterInv => RosterIsSound
  BY RosterSafe
<1> QED
  BY <1>1, <1>2, <1>3, PTL DEF Spec

\* User ids of agent containers are never shared, and a boot without a failure
\* leaves every container as its row asks (agentcontainer's reconcile and the
\* grandfathering of older agents).
THEOREM FleetIsSoundHolds == Spec => []FleetIsSound
<1>1. Init => FleetInv
  BY FleetInvInit DEF Init
<1>2. FleetInv /\ [Next]_vars => FleetInv'
  BY FleetInvStep, EachPartSteps
<1>3. FleetInv => FleetIsSound
  BY FleetSafe
<1> QED
  BY <1>1, <1>2, <1>3, PTL DEF Spec

\* What is mounted was verified, and a step the journal calls done is backed
\* by what is on disk and in Docker, through crashes, resumes and a registry
\* that changes between them (the skill installer's actuator).
THEOREM InstallIsSoundHolds == Spec => []InstallIsSound
<1>1. Init => InstallInv
  BY InstallInvInit DEF Init
<1>2. InstallInv /\ [Next]_vars => InstallInv'
  BY InstallInvStep, EachPartSteps
<1>3. InstallInv => InstallIsSound
  BY InstallSafe
<1> QED
  BY <1>1, <1>2, <1>3, PTL DEF Spec

\* Supervised sessions in a container never overlap, and a result that claude
\* wrote counts as the outcome, through deadlines, lost streams and restarts
\* (the exec path of the spawn package).
THEOREM SessionsAreCountedHolds == Spec => []SessionsAreCounted
<1>1. Init => ExecInv
  BY ExecInvInit DEF Init
<1>2. ExecInv /\ [Next]_vars => ExecInv'
  BY ExecInvStep, EachPartSteps
<1>3. ExecInv => SessionsAreCounted
  BY ExecSafe
<1> QED
  BY <1>1, <1>2, <1>3, PTL DEF Spec

\* Two runs of a task stand for the same slot at most as often as an edit or a
\* resume wrote an answer that a tick had overtaken, through deferrals,
\* restarts and mishaps (tick and the claims of due tasks).
THEOREM SlotsFireOnceHolds == Spec => []SlotsFireOnce
<1>1. Init => SchedInv
  BY SchedInvInit DEF Init
<1>2. SchedInv /\ [Next]_vars => SchedInv'
  BY SchedInvStep, EachPartSteps
<1>3. SchedInv => SlotsFireOnce
  BY SchedSafe
<1> QED
  BY <1>1, <1>2, <1>3, PTL DEF Spec

\* The runs of a task follow one another: one ticket or session at a time, a
\* run held back is held by one that can end, and a run that is over says how
\* (the overlap tests of tick, the gates and terminal writes of a one-shot).
THEOREM RunsAreOrderlyHolds == Spec => []RunsAreOrderly
<1>1. Init => SchedInv
  BY SchedInvInit DEF Init
<1>2. SchedInv /\ [Next]_vars => SchedInv'
  BY SchedInvStep, EachPartSteps
<1>3. SchedInv => RunsAreOrderly
  BY SchedSafe
<1> QED
  BY <1>1, <1>2, <1>3, PTL DEF Spec

\* A conversation and its account stay in step: answers follow questions, the
\* session's total is what its rows cost, and the cap is exceeded by less than
\* one turn, through workers, crashes and sweeps (the CEO chat).
THEOREM TurnsAddUpHolds == Spec => []TurnsAddUp
<1>1. Init => ChatInv
  BY ChatInvInit DEF Init
<1>2. ChatInv /\ [Next]_vars => ChatInv'
  BY ChatInvStep, EachPartSteps
<1>3. ChatInv => TurnsAddUp
  BY ChatSafe
<1> QED
  BY <1>1, <1>2, <1>3, PTL DEF Spec

-----------------------------------------------------------------------------
(* What a step may never do *)

\* The status of an agent is only changed by a verb, and a settings form is
\* accepted only against the row it was filled in from: no late writer
\* destroys what another wrote (hiring verbs and editAgent).
THEOREM PausesAndFormsHoldAlways == Spec => PausesAndFormsHold
<1>1. Init => RosterInv
  BY RosterInvInit DEF Init
<1>2. RosterInv /\ [Next]_vars => RosterInv'
  BY RosterInvStep, EachPartSteps
<1>3. RosterInv /\ [Next]_vars =>
        [agentRow'.status # agentRow.status => agentRow.status = "none" \/ agentRow'.set = agentRow.set]_rosterVars
  BY StatusKept, EachPartSteps
<1>4. RosterInv /\ [Next]_vars =>
        [settings.open /\ ~settings'.open /\ agentRow' # agentRow => settings.seen = agentRow]_rosterVars
  BY FormsFresh, EachPartSteps
<1> QED
  BY <1>1, <1>2, <1>3, <1>4, PTL DEF Spec, PausesAndFormsHold, OnlyVerbsChangeStatus, FormsAreFresh

\* A row of the action outbox that is rejected, executed, failed or done stays
\* so, whoever decides, dispatches or records late.
THEOREM SettledIsFinalHolds == Spec => SettledIsFinal
<1>1. Init => BrokerInv
  BY BrokerInvInit DEF Init
<1>2. BrokerInv /\ [Next]_vars => BrokerInv'
  BY BrokerInvStep, EachPartSteps
<1>3. BrokerInv /\ [Next]_vars =>
        [\A a \in ActionIds : pending[a] \in Settled => pending'[a] = pending[a]]_brokerVars
  BY SettledKept, EachPartSteps
<1> QED
  BY <1>1, <1>2, <1>3, PTL DEF Spec, SettledIsFinal

\* A decided proposal is never decided again, by another operator, by the
\* superseding of siblings or by the install that follows.
THEOREM DecisionIsFinalHolds == Spec => DecisionIsFinal
<1>1. Init => RosterInv
  BY RosterInvInit DEF Init
<1>2. RosterInv /\ [Next]_vars => RosterInv'
  BY RosterInvStep, EachPartSteps
<1>3. RosterInv /\ [Next]_vars =>
        [\A p \in Proposals : Decided(p) => proposal'[p] = proposal[p]]_rosterVars
  BY DecidedKept, EachPartSteps
<1> QED
  BY <1>1, <1>2, <1>3, PTL DEF Spec, DecisionIsFinal

\* The outcome of an event is written once: a session that ends late, a
\* deadline or a restart never replaces it.
THEOREM OutcomeIsFinalHolds == Spec => OutcomeIsFinal
<1>1. Init => ExecInv
  BY ExecInvInit DEF Init
<1>2. ExecInv /\ [Next]_vars => ExecInv'
  BY ExecInvStep, EachPartSteps
<1>3. ExecInv /\ [Next]_vars =>
        [\A e \in ExecEvents : settled[e] # "none" => settled'[e] = settled[e]]_execVars
  BY OutcomeKept, EachPartSteps
<1> QED
  BY <1>1, <1>2, <1>3, PTL DEF Spec, OutcomeIsFinal

\* A container of the right shape is left alone: no boot, deploy or reconcile
\* recreates it.
THEOREM RightShapeIsKeptHolds == Spec => RightShapeIsKept
<1>1. Init => FleetInv
  BY FleetInvInit DEF Init
<1>2. FleetInv /\ [Next]_vars => FleetInv'
  BY FleetInvStep, EachPartSteps
<1>3. FleetInv /\ [Next]_vars =>
        [\A a \in AgentNos :
            /\ box[a].up /\ staff[a].uid # NoUid
            /\ box[a].uid = staff[a].uid /\ box[a].image = staff[a].image /\ box[a].cfg = deployed
            /\ fleetFaults' = fleetFaults
            => box'[a] = box[a]]_fleetVars
  BY RightShapeKept, EachPartSteps
<1> QED
  BY <1>1, <1>2, <1>3, PTL DEF Spec, RightShapeIsKept

\* A judged transition keeps its verdict, whichever of the listener and the
\* sweep judges it again from an older read (the hygiene checker).
THEOREM VerdictIsFinalHolds == Spec => VerdictIsFinal
<1>1. Init => HygInv
  BY HygInvInit DEF Init
<1>2. HygInv /\ [Next]_vars => HygInv'
  BY HygInvStep, EachPartSteps
<1>3. HygInv /\ [Next]_vars =>
        [\A i \in DOMAIN moves :
            moves[i].status \notin Unjudged => moves'[i].status = moves[i].status]_hygVars
  BY VerdictKept, EachPartSteps
<1> QED
  BY <1>1, <1>2, <1>3, PTL DEF Spec, VerdictIsFinal

\* An aborted answer stays aborted: no turn outlives the sweep that aborted
\* its row (RunRestartSweep before RunListener).
THEOREM AbortedIsFinalHolds == Spec => AbortedIsFinal
<1>1. Init => ChatInv
  BY ChatInvInit DEF Init
<1>2. ChatInv /\ [Next]_vars => ChatInv'
  BY ChatInvStep, EachPartSteps
<1>3. ChatInv /\ [Next]_vars =>
        [\A i \in DOMAIN msgs \intersect DOMAIN msgs' :
            msgs[i].status = "aborted" => msgs'[i].status = "aborted"]_chatVars
  BY AbortedKept, EachPartSteps
<1> QED
  BY <1>1, <1>2, <1>3, PTL DEF Spec, AbortedIsFinal

\* A stored outcome is never followed by another session of the same run (the
\* one-shot's handler and its restarts).
THEOREM OutcomeEndsRunHolds == Spec => OutcomeEndsRun
<1>1. Init => SchedInv
  BY SchedInvInit DEF Init
<1>2. SchedInv /\ [Next]_vars => SchedInv'
  BY SchedInvStep, EachPartSteps
<1>3. SchedInv /\ [Next]_vars =>
        [\A t \in OneshotTasks, i \in 1..MaxRuns :
            i \in DOMAIN runs[t] /\ runs[t][i].structured
                => firing'[t][i] \in {Quiet, firing[t][i]}]_schedVars
  BY OutcomeEnds, EachPartSteps
<1> QED
  BY <1>1, <1>2, <1>3, PTL DEF Spec, OutcomeEndsRun

\* Every rejection of the finalize tool names one thing that is wrong and asks
\* for a value it then takes, so an agent that mends what it is told is turned
\* away once per fault; an ok means no fault of its rules, a decode error's position
\* is where the decoder stopped, one past the byte it refused, at most one ok comes
\* after the commit, and the published schema differs from the rules only where
\* SchemaGap says (Handle, Validate, ValidateOneshot, decodePosition,
\* ToolDescriptor).
THEOREM AnswersAreRightHolds == Spec => []AnswersAreRight
<1>1. Init => ToolInv
  BY ToolInvInit DEF Init
<1>2. ToolInv /\ [Next]_vars => ToolInv'
  BY ToolInvStep, EachPartSteps
<1>3. ToolInv => AnswersAreRight
  BY ToolSafe
<1> QED
  BY <1>1, <1>2, <1>3, PTL DEF Spec

\* The variables of every subsystem keep their types, sequences, counters and
\* phases included.
THEOREM TypeOKHolds == Spec => []TypeOK
<1> DEFINE Inv == /\ BrokerInv /\ McpInv /\ SchedInv /\ HygInv /\ ChatInv /\ IntakeInv
                  /\ VerbsInv /\ RosterInv /\ FleetInv /\ InstallInv /\ ExecInv /\ ToolInv
<1>1. Init => Inv
  BY BrokerInvInit, McpInvInit, SchedInvInit, HygInvInit, ChatInvInit, IntakeInvInit,
     VerbsInvInit, RosterInvInit, FleetInvInit, InstallInvInit, ExecInvInit, ToolInvInit DEF Init
<1>2. Inv /\ [Next]_vars => Inv'
  BY EachPartSteps, BrokerInvStep, McpInvStep, SchedInvStep, HygInvStep, ChatInvStep, IntakeInvStep,
     VerbsInvStep, RosterInvStep, FleetInvStep, InstallInvStep, ExecInvStep, ToolInvStep
<1>3. Inv => TypeOK
  BY SchedSafe, HygSafe, ChatSafe, IntakeSafe, VerbsSafe, RosterSafe,
     FleetSafe, InstallSafe, ExecSafe, ToolSafe DEF TypeOK, BrokerInv, McpInv
<1> QED
  BY <1>1, <1>2, <1>3, PTL DEF Spec

\* What is settled stays settled in every subsystem, whoever comes late with
\* an older view.
THEOREM SettledStaysHolds == Spec => SettledStays
  BY SettledIsFinalHolds, VerdictIsFinalHolds, AbortedIsFinalHolds, DecisionIsFinalHolds,
     OutcomeIsFinalHolds, OutcomeEndsRunHolds, RightShapeIsKeptHolds DEF SettledStays

=============================================================================
