---------------------------- MODULE MCOperations ----------------------------
(***************************************************************************)
(* The subsystems around the event bus, for model checking.  Each has its  *)
(* own view of the rows it shares with the rest (a ticket, an agent, an    *)
(* outbox event), so a behaviour here is a behaviour of one of them:       *)
(* "part" picks it once, the others stand still, and the state spaces add  *)
(* up instead of multiplying.                                              *)
(***************************************************************************)
EXTENDS ActionBroker, McpRegistry, Scheduler, Hygiene, Chat, Intake, TicketVerbs,
        Roster, AgentFleet, SkillInstall, ContainerExec, FinalizeTool

CONSTANT Parts   \* the parts a run looks at

VARIABLE part

vars == <<part, brokerVars, mcpVars, schedVars, hygVars, chatVars,
            intakeVars, verbVars, rosterVars, fleetVars, installVars,
            execVars, toolVars>>

\* A behaviour has scheduled tasks of one kind; the drafts of the finalize
\* tool and the hire at hand matter only to their own part.
Init ==
    /\ part \in Parts
    /\ BrokerInit /\ McpInit /\ SchedInit /\ HygInit /\ ChatInit /\ IntakeInit /\ VerbsInit
    /\ RosterEmpty /\ (IF part = "roster" THEN HireAtHand ELSE NoProposals)
    /\ \/ \A t \in TicketTasks : task[t] = "deleted"
       \/ \A t \in OneshotTasks : task[t] = "deleted"
    /\ part # "schedule" => known /\ \A t \in TicketTasks \union OneshotTasks : task[t] = "deleted"
    /\ FleetInit /\ InstallInit /\ ExecInit /\ ToolInit
    /\ part # "tool" => toolMode = "ticket" /\ draft = SoundDraft("ticket")

\* Only the variables of the part that was picked may change.
OthersStandStill ==
    /\ UNCHANGED part
    /\ IF part = "broker" THEN TRUE ELSE UNCHANGED brokerVars
    /\ IF part \in {"registry", "reconcile"} THEN TRUE ELSE UNCHANGED mcpVars
    /\ IF part = "schedule" THEN TRUE ELSE UNCHANGED schedVars
    /\ IF part = "hygiene" THEN TRUE ELSE UNCHANGED hygVars
    /\ IF part = "chat" THEN TRUE ELSE UNCHANGED chatVars
    /\ IF part = "intake" THEN TRUE ELSE UNCHANGED intakeVars
    /\ IF part = "verbs" THEN TRUE ELSE UNCHANGED verbVars
    /\ IF part \in {"hiring", "roster"} THEN TRUE ELSE UNCHANGED rosterVars
    /\ IF part = "fleet" THEN TRUE ELSE UNCHANGED fleetVars
    /\ IF part = "install" THEN TRUE ELSE UNCHANGED installVars
    /\ IF part = "exec" THEN TRUE ELSE UNCHANGED execVars
    /\ IF part = "tool" THEN TRUE ELSE UNCHANGED toolVars

Next ==
    /\ \/ part = "broker" /\ BrokerNext
       \/ part = "registry" /\ RegistryNext
       \/ part = "reconcile" /\ ReconcileNext
       \/ part = "schedule" /\ SchedNext
       \/ part = "hygiene" /\ HygNext
       \/ part = "chat" /\ ChatNext
       \/ part = "intake" /\ IntakeNext
       \/ part = "verbs" /\ VerbsNext
       \/ part = "hiring" /\ HiringNext
       \/ part = "roster" /\ RosterNext
       \/ part = "fleet" /\ FleetNext
       \/ part = "install" /\ InstallNext
       \/ part = "exec" /\ ExecNext
       \/ part = "tool" /\ ToolNext
    /\ OthersStandStill

\* RunLoop's ticker and a claimed row's transaction; the hygiene sweep, with
\* rows growing old and MemPalace coming back; every chat worker up to its
\* container, which may hang; webhook handlers and the bucket's refill, with
\* an operator who has a failed delivery sent again; a container session's
\* goroutines, with claude ending on its own or when killed.
Fairness ==
    /\ \A b \in Brokers : WF_brokerVars(part = "broker" /\ BrokerProgress(b))
    /\ WF_hygVars(part = "hygiene" /\ HygProgress)
    /\ WF_hygVars(part = "hygiene" /\ RowAges)
    /\ WF_hygVars(part = "hygiene" /\ PalaceReturns)
    /\ \A i \in 1..MaxRow : WF_chatVars(part = "chat" /\ ChatWork(i))
    /\ WF_intakeVars(part = "intake" /\ Refill)
    /\ \A r \in Requests : WF_intakeVars(part = "intake" /\ HandlerStep(r))
    /\ \A g \in Guids : /\ SF_intakeVars(part = "intake" /\ \E q \in Requests : Deliver(q, g))
                        /\ SF_intakeVars(part = "intake" /\ Admitted(g))
    /\ \A e \in ExecEvents : /\ WF_execVars(part = "exec" /\ ExecStep(e))
                              /\ WF_execVars(part = "exec" /\ ClaudeExits(e))
                              /\ WF_execVars(part = "exec" /\ TryAcquire(e))

Spec == Init /\ [][Next]_vars
FairSpec == Spec /\ Fairness

\* Every component's variables keep their types.
TypeOK ==
    /\ BrokerTypeOK /\ McpTypeOK /\ SchedTypeOK /\ HygTypeOK /\ ChatTypeOK /\ IntakeTypeOK
    /\ VerbsTypeOK /\ RosterTypeOK /\ FleetTypeOK /\ InstallTypeOK /\ ExecTypeOK /\ ToolTypeOK

\* What is settled stays settled, whoever comes late with an older view: an
\* action's row, a hygiene verdict, an aborted turn, a decided proposal, the
\* outcome of an event or of a one-shot run, a container of the right shape.
SettledStays ==
    /\ SettledIsFinal /\ VerdictIsFinal /\ AbortedIsFinal /\ DecisionIsFinal
    /\ OutcomeIsFinal /\ OutcomeEndsRun /\ RightShapeIsKept
=============================================================================
