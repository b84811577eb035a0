----------------------------- MODULE McpRegistry -----------------------------
(***************************************************************************)
(* MCPJungle registration: the register_mcp_server verb, the reactive      *)
(* worker that forwards a row to MCPJungle (internal/mcpserverwork), and   *)
(* the boot-time reconciler that gives every active agent an MCPJungle     *)
(* client, its token in the vault and the grant that lets it be fetched    *)
(* (internal/mcpjungle).                                                   *)
(*                                                                         *)
(* The insert trigger only notifies: there is no outbox row, so the        *)
(* fallback poll never sees a registration, and nothing repeats one.       *)
(***************************************************************************)
EXTENDS Integers, FiniteSets

CONSTANTS
    ServerNames,  \* MCP server names; UNIQUE (customer_slug, name)
    BearerNames,  \* those submitted with a bearer_token_path
    Supers,       \* supervisor processes with a LISTEN connection
    McpAgents,    \* agents with status 'active'
    MaxFault,     \* bound on crashes, lost answers and failed statements
    MaxBoot       \* bound on reconciler runs

ASSUME McpAssumption == MaxFault \in Nat /\ MaxBoot \in Nat /\ BearerNames \subseteq ServerNames

VARIABLES
    mcpRow,     \* mcp_servers.status, "none" before the insert
    mcpAudit,   \* number of register_mcp_server audit rows
    upstream,   \* servers MCPJungle has registered
    mcpCalls,      \* RegisterServer calls made for each row
    inbox,      \* notifications waiting in each LISTEN connection
    job,        \* the registration each supervisor's handler holds
    boots,      \* reconciler runs so far; also the token of the current run
    todo,       \* agents the current run has yet to visit
    mcpStep,       \* where the run is inside reconcileOne
    client,     \* token MCPJungle holds for each agent, 0 for none
    secret,     \* token the vault holds for each agent, 0 for none
    grant,      \* agents with an agent-scoped grant
    faults      \* faults so far

mcpVars == <<mcpRow, mcpAudit, upstream, mcpCalls, inbox, job, boots, todo, mcpStep,
             client, secret, grant, faults>>
registryVars == <<mcpRow, mcpAudit, upstream, mcpCalls, inbox, job>>
reconcileVars == <<boots, todo, mcpStep, client, secret, grant>>

NoJob == [pc |-> "idle"]
NoStep == [pc |-> "idle"]

McpTypeOK ==
    /\ mcpRow \in [ServerNames -> {"none", "pending", "registered", "failed"}]
    /\ mcpAudit \in [ServerNames -> Nat]
    /\ upstream \subseteq ServerNames
    /\ mcpCalls \in [ServerNames -> Nat]
    /\ inbox \in [Supers -> SUBSET ServerNames]
    /\ job \in [Supers -> {NoJob} \union
                          [pc: {"call", "registered", "failed"}, row: ServerNames]]
    /\ boots \in 0..MaxBoot
    /\ todo \subseteq McpAgents
    /\ mcpStep \in {NoStep} \union [pc: {"create", "vault", "cleanup", "grant"}, agent: McpAgents]
    /\ client \in [McpAgents -> 0..MaxBoot]
    /\ secret \in [McpAgents -> 0..MaxBoot]
    /\ grant \subseteq McpAgents
    /\ faults \in 0..MaxFault

McpInit ==
    /\ mcpRow = [n \in ServerNames |-> "none"]
    /\ mcpAudit = [n \in ServerNames |-> 0]
    /\ upstream = {}
    /\ mcpCalls = [n \in ServerNames |-> 0]
    /\ inbox = [p \in Supers |-> {}]
    /\ job = [p \in Supers |-> NoJob]
    /\ boots = 0
    /\ todo = {}
    /\ mcpStep = NoStep
    /\ client = [a \in McpAgents |-> 0]
    /\ secret = [a \in McpAgents |-> 0]
    /\ grant = {}
    /\ faults = 0

Fault == faults < MaxFault /\ faults' = faults + 1

-----------------------------------------------------------------------------
(* Registration *)

\* The verb inserts the row; its trigger notifies every open connection.  A
\* name that is already there violates the unique constraint.
RegisterMcpServer(n) ==
    /\ mcpRow[n] = "none"
    /\ mcpRow' = [mcpRow EXCEPT ![n] = "pending"]
    /\ inbox' = [p \in Supers |-> inbox[p] \union {n}]
    /\ UNCHANGED <<mcpAudit, upstream, mcpCalls, job, faults, reconcileVars>>

\* The LISTEN connection is re-established: what it held is lost.
ListenDrops(p) ==
    /\ Fault
    /\ inbox[p] # {}
    /\ inbox' = [inbox EXCEPT ![p] = {}]
    /\ UNCHANGED <<mcpRow, mcpAudit, upstream, mcpCalls, job, reconcileVars>>

RowHeld(n) == \E p \in Supers : job[p] # NoJob /\ job[p].row = n

\* Mutant: SELECT without FOR UPDATE NOWAIT.
TakesRowNoLock(n) == mcpRow[n] = "pending"

\* Handle's SELECT ... FOR UPDATE NOWAIT and its status check.
TakesRow(n) == ~RowHeld(n) /\ mcpRow[n] = "pending"

\* Worker.Handle: a row another worker holds, or that is no longer pending,
\* is skipped.  The supervisor wires no vault fetcher, so a row with a
\* bearer_token_path fails without a call.
HandleRegistration(p) ==
    /\ job[p] = NoJob
    /\ \E n \in inbox[p] :
         /\ inbox' = [inbox EXCEPT ![p] = @ \ {n}]
         /\ job' = IF TakesRow(n)
                   THEN [job EXCEPT ![p] = [pc |-> IF n \in BearerNames THEN "failed" ELSE "call", row |-> n]]
                   ELSE job
    /\ UNCHANGED <<mcpRow, mcpAudit, upstream, mcpCalls, faults, reconcileVars>>

\* Mutant: the answer's status is not looked at.
RegisterServerUnchecked(p) ==
    LET n == job[p].row IN
    /\ job[p].pc = "call"
    /\ mcpCalls' = [mcpCalls EXCEPT ![n] = @ + 1]
    /\ upstream' \in {upstream, upstream \union {n}}
    /\ job' = [job EXCEPT ![p].pc = "registered"]
    /\ UNCHANGED <<mcpRow, mcpAudit, inbox, faults, reconcileVars>>

\* RegisterServer: created, refused (a conflict included), or created with an
\* answer that is lost or cannot be decoded.
RegisterServer(p) ==
    LET n == job[p].row IN
    /\ job[p].pc = "call"
    /\ mcpCalls' = [mcpCalls EXCEPT ![n] = @ + 1]
    /\ \/ /\ n \notin upstream
          /\ upstream' = upstream \union {n}
          /\ \E pc \in {"registered", "failed"} : job' = [job EXCEPT ![p].pc = pc]
       \/ /\ job' = [job EXCEPT ![p].pc = "failed"]
          /\ UNCHANGED upstream
    /\ UNCHANGED <<mcpRow, mcpAudit, inbox, faults, reconcileVars>>

\* markRegisteredTx or failTx, its audit row, and the commit.
RecordRegistration(p) ==
    LET n == job[p].row IN
    /\ job[p].pc \in {"registered", "failed"}
    /\ mcpRow' = [mcpRow EXCEPT ![n] = job[p].pc]
    /\ mcpAudit' = [mcpAudit EXCEPT ![n] = @ + 1]
    /\ job' = [job EXCEPT ![p] = NoJob]
    /\ UNCHANGED <<upstream, mcpCalls, inbox, faults, reconcileVars>>

\* The handler's transaction is lost: a crash, a cancelled context, or a
\* failing statement.  The notification is gone with it.
RegistrationLost(p) ==
    /\ Fault
    /\ job[p] # NoJob
    /\ job' = [job EXCEPT ![p] = NoJob]
    /\ UNCHANGED <<mcpRow, mcpAudit, upstream, mcpCalls, inbox, reconcileVars>>

-----------------------------------------------------------------------------
(* Reconciliation *)

\* A boot finds MCPJungle healthy and reconciles every active agent.
StartReconcile ==
    /\ boots < MaxBoot
    /\ todo = {} /\ mcpStep = NoStep
    /\ boots' = boots + 1
    /\ todo' = McpAgents
    /\ UNCHANGED <<mcpStep, client, secret, grant, faults, registryVars>>

Visit(a) ==
    /\ mcpStep = NoStep
    /\ a \in todo
    /\ todo' = todo \ {a}
    /\ mcpStep' = [pc |-> "create", agent |-> a]
    /\ UNCHANGED <<boots, client, secret, grant, faults, registryVars>>

StepTo(pc) == mcpStep' = IF pc = "idle" THEN NoStep ELSE [mcpStep EXCEPT !.pc = pc]

\* Mutant: a conflict is treated like a fresh client and the token is stored.
CreateMcpClientOverwrites ==
    LET a == mcpStep.agent IN
    /\ mcpStep.pc = "create"
    /\ \/ /\ client[a] # 0
          /\ StepTo("vault")
          /\ UNCHANGED <<client, faults>>
       \/ /\ client[a] = 0
          /\ client' = [client EXCEPT ![a] = boots]
          /\ StepTo("vault")
          /\ UNCHANGED faults
    /\ UNCHANGED <<boots, todo, secret, grant, registryVars>>

\* CreateMcpClient: an existing name (409, or 500 "duplicate key") skips the
\* agent; otherwise the client is made with this run's token.  A lost answer
\* ends the visit as a failure although the client exists.
CreateMcpClient ==
    LET a == mcpStep.agent IN
    /\ mcpStep.pc = "create"
    /\ \/ /\ client[a] # 0
          /\ StepTo("idle")
          /\ UNCHANGED <<client, faults>>
       \/ /\ client[a] = 0
          /\ client' = [client EXCEPT ![a] = boots]
          /\ StepTo("vault")
          /\ UNCHANGED faults
       \/ /\ Fault
          /\ client[a] = 0
          /\ client' \in {client, [client EXCEPT ![a] = boots]}
          /\ StepTo("idle")
    /\ UNCHANGED <<boots, todo, secret, grant, registryVars>>

\* WriteSecret creates or updates the agent's secret; an error, whether or
\* not the write took effect, sends the visit to the cleanup.
WriteSecret ==
    LET a == mcpStep.agent IN
    /\ mcpStep.pc = "vault"
    /\ \/ /\ secret' = [secret EXCEPT ![a] = boots]
          /\ StepTo("grant")
          /\ UNCHANGED faults
       \/ /\ Fault
          /\ secret' \in {secret, [secret EXCEPT ![a] = boots]}
          /\ StepTo("cleanup")
    /\ UNCHANGED <<boots, todo, client, grant, registryVars>>

\* The best-effort DeleteMcpClient after a failed vault write.
CleanUpClient ==
    /\ mcpStep.pc = "cleanup"
    /\ \/ client' = [client EXCEPT ![mcpStep.agent] = 0] /\ UNCHANGED faults
       \/ Fault /\ UNCHANGED client
    /\ StepTo("idle")
    /\ UNCHANGED <<boots, todo, secret, grant, registryVars>>

InsertAgentScopedSecret ==
    /\ mcpStep.pc = "grant"
    /\ \/ grant' = grant \union {mcpStep.agent} /\ UNCHANGED faults
       \/ Fault /\ UNCHANGED grant
    /\ StepTo("idle")
    /\ UNCHANGED <<boots, todo, client, secret, registryVars>>

\* The supervisor dies in the middle of a run.
ReconcileDies ==
    /\ Fault
    /\ todo # {} \/ mcpStep # NoStep
    /\ todo' = {}
    /\ mcpStep' = NoStep
    /\ UNCHANGED <<boots, client, secret, grant, registryVars>>

-----------------------------------------------------------------------------
RegistryNext ==
    \/ \E n \in ServerNames : RegisterMcpServer(n)
    \/ \E p \in Supers : \/ ListenDrops(p) \/ HandleRegistration(p) \/ RegisterServer(p)
                         \/ RecordRegistration(p) \/ RegistrationLost(p)

ReconcileNext ==
    \/ StartReconcile
    \/ \E a \in McpAgents : Visit(a)
    \/ CreateMcpClient \/ WriteSecret \/ CleanUpClient \/ InsertAgentScopedSecret
    \/ ReconcileDies

-----------------------------------------------------------------------------
(* Properties *)

\* FR-306: a row that reached its final status has exactly one audit row and
\* any other row has none, whichever of two supervisors handled it.
OneAuditPerRegistration ==
    \A n \in ServerNames :
        mcpAudit[n] = IF mcpRow[n] \in {"registered", "failed"} THEN 1 ELSE 0

\* Two supervisors never register one row at a time; it is submitted again
\* only after a worker lost it.
CallsAccountedFor == \A n \in ServerNames : mcpCalls[n] <= 1 + faults

\* A row that says registered is registered at MCPJungle.
RegisteredIsUpstream == \A n \in ServerNames : mcpRow[n] = "registered" => n \in upstream

\* The token an agent is granted is the one MCPJungle accepts, however many
\* runs died or failed before.
GrantedTokenWorks == \A a \in grant : client[a] # 0 /\ secret[a] = client[a]

\* The registry's rows, its audit, MCPJungle and the vault agree, whichever
\* supervisor, crash or lost answer came between them (Worker.Handle,
\* ReconcileAgents).
RegistryAgrees ==
    OneAuditPerRegistration /\ CallsAccountedFor /\ RegisteredIsUpstream /\ GrantedTokenWorks
=============================================================================
