------------------------------ MODULE Roster ------------------------------
(***************************************************************************)
(* The roster: hiring proposals written by the CEO chat, the dashboard's   *)
(* approvals and rejections (each reads the proposal, then writes it with  *)
(* a guarded UPDATE), the agents row they create, the verbs and forms that *)
(* edit it, and the supervisor's cache of active agents with the dispatch  *)
(* routes derived from it, refreshed on agents.changed.  One role in one   *)
(* department: every hire proposal is for it, every skill proposal targets *)
(* its agent.                                                              *)
(***************************************************************************)
EXTENDS Integers, FiniteSets

CONSTANTS
    Proposals,       \* proposal ids
    Operators,       \* concurrent approve or reject clicks
    Editors,         \* concurrent edit_agent_config calls
    MaxChange,       \* bound on edits and status changes of the row
    MaxRosterFault   \* bound on failures

ASSUME RosterAssumption == MaxChange \in Nat /\ MaxRosterFault \in Nat

VARIABLES
    proposal,      \* hiring_proposals
    sawDecided,    \* the siblings already decided when a proposal was made
    decision,         \* approve and reject transactions
    agentRow,      \* the agents row
    version,       \* its updated_at, bumped by a trigger
    edit,          \* edit_agent_config calls between read and write
    settings,          \* the dashboard's open agent form
    changes,       \* edits and status changes so far
    roster,         \* agents.Cache: the active row it holds
    routed,        \* the dispatcher's overlay routes the role
    listener,      \* the agents.changed listener
    unheard,       \* notifications not yet received
    missed,        \* a change the listener can no longer learn of
    rosterFaults

proposalVars == <<proposal, sawDecided, decision>>
rowVars == <<agentRow, version, edit, settings, changes>>
cacheVars == <<roster, routed, listener, unheard, missed>>
rosterVars == <<proposalVars, rowVars, cacheVars, rosterFaults>>

ConfigFields == {"model", "md"}
NoAgent == [status |-> "none", hiredBy |-> "none", set |-> [f \in ConfigFields |-> 0]]
NoProposal == [kind |-> "none", status |-> "none", supersededBy |-> "none"]
NoDecision == [pc |-> "idle", verb |-> "none", on |-> "none"]
NoEdit == [field |-> "none", read |-> NoAgent]
NoSettings == [open |-> FALSE, token |-> 0, seen |-> NoAgent]

Agent == [status : {"none", "active", "paused"}, hiredBy : Proposals \union {"none"},
          set : [ConfigFields -> 0..MaxChange]]

RosterTypeOK ==
    /\ proposal \in [Proposals -> [kind : {"none", "hire", "skill_change", "version_bump"},
                                   status : {"none", "pending", "install_in_progress", "rejected", "superseded"},
                                   supersededBy : Proposals \union {"none"}]]
    /\ sawDecided \in [Proposals -> SUBSET Proposals]
    /\ \A o \in Operators : decision[o] = NoDecision \/ decision[o].on \in Proposals
    /\ agentRow \in Agent
    /\ version \in 0..(MaxChange + 1)
    /\ \A e \in Editors : edit[e].read \in Agent
    /\ settings.seen \in Agent
    /\ changes \in 0..MaxChange
    /\ roster \in Agent
    /\ routed \in BOOLEAN
    /\ listener \in [conn : {"off", "on", "dead"}, pc : {"down", "wait", "reset", "swap"}, rows : Agent]
    /\ unheard \in 0..(MaxChange + 1)
    /\ missed \in BOOLEAN
    /\ rosterFaults \in 0..MaxRosterFault

NoProposals ==
    /\ proposal = [p \in Proposals |-> NoProposal]
    /\ decision = [o \in Operators |-> NoDecision]

\* A hire proposal is pending and an operator is about to approve it.
HireAtHand ==
    \E p \in Proposals, o \in Operators :
        /\ proposal = [q \in Proposals |->
               IF q = p THEN [NoProposal EXCEPT !.kind = "hire", !.status = "pending"] ELSE NoProposal]
        /\ decision = [x \in Operators |->
               IF x = o THEN [pc |-> "read", verb |-> "approve", on |-> p] ELSE NoDecision]

\* The agent is not hired yet and the supervisor not started.
RosterEmpty ==
    /\ sawDecided = [p \in Proposals |-> {}]
    /\ agentRow = NoAgent
    /\ version = 0
    /\ edit = [e \in Editors |-> NoEdit]
    /\ settings = NoSettings
    /\ changes = 0
    /\ roster = NoAgent
    /\ routed = FALSE
    /\ listener = [conn |-> "off", pc |-> "down", rows |-> NoAgent]
    /\ unheard = 0
    /\ missed = FALSE
    /\ rosterFaults = 0

RosterFault == rosterFaults < MaxRosterFault /\ rosterFaults' = rosterFaults + 1

-----------------------------------------------------------------------------
(* The agents row: every committed write fires the updated_at and the      *)
(* agents.changed triggers.                                                *)

AgentExists == agentRow.status # "none"

WriteAgent(row) ==
    /\ agentRow' = row
    /\ version' = version + 1
    /\ unheard' = IF listener.conn = "on" THEN unheard + 1 ELSE unheard
    /\ missed' = (missed \/ listener.conn # "on")
    /\ UNCHANGED <<roster, routed, listener>>

-----------------------------------------------------------------------------
(* Proposals *)

Decided(p) == proposal[p].status \notin {"none", "pending"}
Siblings(p) == {q \in Proposals \ {p} : proposal[q].kind = proposal[p].kind}

\* InsertHiringProposal: a pending row of the given type.
InsertHiringProposal(p, kind) ==
    /\ proposal[p] = NoProposal
    /\ proposal' = [proposal EXCEPT ![p] = [NoProposal EXCEPT !.kind = kind, !.status = "pending"]]
    /\ sawDecided' = [sawDecided EXCEPT ![p] = {q \in Proposals : Decided(q)}]
    /\ UNCHANGED <<decision, rowVars, cacheVars, rosterFaults>>

ProposeHire(p) == InsertHiringProposal(p, "hire")

\* runSkillProposalTx: the target agent is resolved by its role, so it must
\* be there.
RunSkillProposalTx(p, kind) == AgentExists /\ InsertHiringProposal(p, kind)

ProposeSkillChange(p) == RunSkillProposalTx(p, "skill_change")
BumpSkillVersion(p) == RunSkillProposalTx(p, "version_bump")

\* readPendingProposal, outside any lock.
ReadPendingProposal(o, verb, p) ==
    /\ decision[o] = NoDecision
    /\ proposal[p].status = "pending"
    /\ decision' = [decision EXCEPT ![o] = [pc |-> "read", verb |-> verb, on |-> p]]
    /\ UNCHANGED <<proposal, sawDecided, rowVars, cacheVars, rosterFaults>>

\* Mutant: the UPDATEs of a proposal lose their status guard.
MarkPendingAlways(p, status) == [proposal EXCEPT ![p].status = status]

\* ApproveProposal with TransitionToInstallInProgress, or RejectProposal:
\* each matches the row only while it is pending, and says nothing when it
\* matches none.
MarkPending(p, status) ==
    IF proposal[p].status = "pending" THEN [proposal EXCEPT ![p].status = status] ELSE proposal

\* The row a hire inserts: active from the start.
InsertAgentForHire(p) == [NoAgent EXCEPT !.status = "active", !.hiredBy = p]

\* ApproveHire: the INSERT fails on the role's unique key when the agent is
\* there already (DecisionAborts); the rest is in the same transaction.
ApproveHire(o) ==
    LET p == decision[o].on IN
    /\ decision[o].pc = "read" /\ decision[o].verb = "approve"
    /\ proposal[p].kind = "hire"
    /\ ~AgentExists
    /\ WriteAgent(InsertAgentForHire(p))
    /\ proposal' = MarkPending(p, "install_in_progress")
    /\ decision' = [decision EXCEPT ![o] = NoDecision]
    /\ UNCHANGED <<sawDecided, edit, settings, changes, rosterFaults>>

\* Mutant: the approval leaves its siblings pending.
SupersedeNone(p, rows) == rows

\* SupersedeSiblingProposals: pending proposals of the same type and target.
SupersedeSiblings(p, rows) ==
    [q \in Proposals |->
        IF q \in Siblings(p) /\ rows[q].status = "pending"
        THEN [rows[q] EXCEPT !.status = "superseded", !.supersededBy = p] ELSE rows[q]]

\* approveSkillFlow, for ApproveSkillChange and ApproveVersionBump.
ApproveSkillFlow(o) ==
    LET p == decision[o].on IN
    /\ decision[o].pc = "read" /\ decision[o].verb = "approve"
    /\ proposal[p].kind # "hire"
    /\ proposal' = SupersedeSiblings(p, MarkPending(p, "install_in_progress"))
    /\ decision' = [decision EXCEPT ![o] = NoDecision]
    /\ UNCHANGED <<sawDecided, rowVars, cacheVars, rosterFaults>>

RejectProposal(o) ==
    /\ decision[o].pc = "read" /\ decision[o].verb = "reject"
    /\ proposal' = MarkPending(decision[o].on, "rejected")
    /\ decision' = [decision EXCEPT ![o] = NoDecision]
    /\ UNCHANGED <<sawDecided, rowVars, cacheVars, rosterFaults>>

\* The transaction fails: a duplicate role, a deadlock with a sibling's
\* approval, a lost connection.
DecisionAborts(o) ==
    /\ decision[o].pc = "read"
    /\ decision' = [decision EXCEPT ![o] = NoDecision]
    /\ \/ decision[o].verb = "approve" /\ proposal[decision[o].on].kind = "hire" /\ AgentExists /\ UNCHANGED rosterFaults
       \/ RosterFault
    /\ UNCHANGED <<proposal, sawDecided, rowVars, cacheVars>>

-----------------------------------------------------------------------------
(* Changes of the row *)

Change == changes < MaxChange /\ changes' = changes + 1

\* pause_agent and resume_agent: setAgentStatus writes even when the status
\* is already there.
SetAgentStatus(target) ==
    /\ AgentExists
    /\ Change
    /\ WriteAgent([agentRow EXCEPT !.status = target])
    /\ UNCHANGED <<proposalVars, edit, settings, rosterFaults>>

\* edit_agent_config reads the whole row without a lock...
ReadConfig(e, field) ==
    /\ AgentExists
    /\ edit[e] = NoEdit
    /\ changes < MaxChange
    /\ edit' = [edit EXCEPT ![e] = [field |-> field, read |-> agentRow]]
    /\ UNCHANGED <<proposalVars, agentRow, version, settings, changes, cacheVars, rosterFaults>>

\* Mutant: the UPDATE writes the row it read, status included.
MergeWholeRow(e, n) == [edit[e].read EXCEPT !.set[edit[e].field] = n]

\* ...and writes back every config field, the ones not given as it read them.
MergeAgentConfigFields(e, n) ==
    [agentRow EXCEPT !.set = [edit[e].read.set EXCEPT ![edit[e].field] = n]]

UpdateAgentConfigFields(e) ==
    /\ edit[e] # NoEdit
    /\ Change
    /\ WriteAgent(MergeAgentConfigFields(e, changes'))
    /\ edit' = [edit EXCEPT ![e] = NoEdit]
    /\ UNCHANGED <<proposalVars, settings, rosterFaults>>

\* The call is refused by the leak scan or fails: nothing is written.
EditFails(e) ==
    /\ edit[e] # NoEdit
    /\ edit' = [edit EXCEPT ![e] = NoEdit]
    /\ UNCHANGED <<proposalVars, agentRow, version, settings, changes, cacheVars, rosterFaults>>

\* updateAgentMDAction: the new agent.md, whatever was there.
UpdateAgentMD ==
    /\ AgentExists
    /\ Change
    /\ WriteAgent([agentRow EXCEPT !.set["md"] = changes'])
    /\ UNCHANGED <<proposalVars, edit, settings, rosterFaults>>

\* The settings page loads the row and its updated_at.
OpenForm ==
    /\ AgentExists
    /\ ~settings.open
    /\ settings' = [open |-> TRUE, token |-> version, seen |-> agentRow]
    /\ UNCHANGED <<proposalVars, agentRow, version, edit, changes, cacheVars, rosterFaults>>

\* Mutant: the row is updated whatever its updated_at.
TokenIgnored == TRUE

\* checkAndUpdate's WHERE updated_at = token.
TokenCurrent == settings.token = version

\* editAgent: an accepted save writes the changed fields only; a stale one
\* returns the conflict.
EditAgent(field) ==
    /\ settings.open
    /\ settings' = NoSettings
    /\ IF TokenCurrent
       THEN /\ Change
            /\ WriteAgent([agentRow EXCEPT !.set[field] = changes'])
       ELSE UNCHANGED <<agentRow, version, changes, cacheVars>>
    /\ UNCHANGED <<proposalVars, edit, rosterFaults>>

-----------------------------------------------------------------------------
(* The cache *)

ActiveRow == IF agentRow.status = "active" THEN agentRow ELSE NoAgent

\* NewCache and the first SetDynamicRoutes; nothing is listened to yet.
NewCache ==
    /\ listener.pc = "down"
    /\ roster' = ActiveRow
    /\ routed' = (ActiveRow # NoAgent)
    /\ listener' = [listener EXCEPT !.pc = "wait"]
    /\ missed' = FALSE
    /\ UNCHANGED <<proposalVars, rowVars, unheard, rosterFaults>>

\* StartChangeListener issues LISTEN, later in the boot.
StartChangeListener ==
    /\ listener.pc = "wait" /\ listener.conn = "off"
    /\ listener' = [listener EXCEPT !.conn = "on"]
    /\ UNCHANGED <<proposalVars, rowVars, roster, routed, unheard, missed, rosterFaults>>

\* The loop receives a notification and calls Cache.Reset.
ReceiveChange ==
    /\ listener.pc = "wait" /\ listener.conn = "on" /\ unheard > 0
    /\ unheard' = unheard - 1
    /\ listener' = [listener EXCEPT !.pc = "reset"]
    /\ UNCHANGED <<proposalVars, rowVars, roster, routed, missed, rosterFaults>>

\* refresh reads the active rows; a failed read leaves the cache alone.
ListActiveAgents ==
    /\ listener.pc = "reset"
    /\ \/ /\ listener' = [listener EXCEPT !.pc = "swap", !.rows = ActiveRow]
          /\ missed' = (listener.conn # "on" /\ missed)
          /\ UNCHANGED rosterFaults
       \/ /\ RosterFault
          /\ listener' = [listener EXCEPT !.pc = "wait"]
          /\ missed' = TRUE
    /\ UNCHANGED <<proposalVars, rowVars, roster, routed, unheard>>

\* Mutant: the routes are rebuilt before the new rows are in the cache.
SwapRoutesFirst ==
    /\ listener.pc = "swap"
    /\ roster' = listener.rows
    /\ routed' = (roster # NoAgent)
    /\ listener' = [listener EXCEPT !.pc = "wait", !.rows = NoAgent]
    /\ UNCHANGED <<proposalVars, rowVars, unheard, missed, rosterFaults>>

\* The map is swapped and the onReset hook rebuilds the overlay from it.
SwapCache ==
    /\ listener.pc = "swap"
    /\ roster' = listener.rows
    /\ routed' = (roster' # NoAgent)
    /\ listener' = [listener EXCEPT !.pc = "wait", !.rows = NoAgent]
    /\ UNCHANGED <<proposalVars, rowVars, unheard, missed, rosterFaults>>

\* The LISTEN connection dies.  handleListenError issues LISTEN again on the
\* same closed connection, which fails every time.
ListenerDies ==
    /\ RosterFault
    /\ listener.conn = "on"
    /\ listener' = [listener EXCEPT !.conn = "dead"]
    /\ missed' = (missed \/ unheard > 0)
    /\ unheard' = 0
    /\ UNCHANGED <<proposalVars, rowVars, roster, routed>>

RosterRestart ==
    /\ RosterFault
    /\ listener.pc # "down"
    /\ listener' = [conn |-> "off", pc |-> "down", rows |-> NoAgent]
    /\ unheard' = 0
    /\ UNCHANGED <<proposalVars, rowVars, roster, routed, missed>>

-----------------------------------------------------------------------------
HiringNext ==
    \/ \E p \in Proposals : ProposeHire(p) \/ ProposeSkillChange(p) \/ BumpSkillVersion(p)
    \/ \E o \in Operators, verb \in {"approve", "reject"}, p \in Proposals : ReadPendingProposal(o, verb, p)
    \/ \E o \in Operators : ApproveHire(o) \/ ApproveSkillFlow(o) \/ RejectProposal(o) \/ DecisionAborts(o)

RowNext ==
    \/ \E target \in {"active", "paused"} : SetAgentStatus(target)
    \/ \E e \in Editors, field \in ConfigFields : ReadConfig(e, field)
    \/ \E e \in Editors : UpdateAgentConfigFields(e) \/ EditFails(e)
    \/ UpdateAgentMD \/ OpenForm
    \/ \E field \in ConfigFields : EditAgent(field)

CacheNext ==
    \/ NewCache \/ StartChangeListener \/ ReceiveChange \/ ListActiveAgents \/ SwapCache
    \/ ListenerDies \/ RosterRestart

\* The hired agent's row and its cache.
RosterNext == RowNext \/ CacheNext \/ \E o \in Operators : ApproveHire(o)

-----------------------------------------------------------------------------
(* Properties *)

\* A proposal that is approved, rejected or superseded stays so, whichever
\* clicks were already past readPendingProposal when it was decided.
DecisionIsFinal ==
    [][\A p \in Proposals : Decided(p) => proposal'[p] = proposal[p]]_rosterVars

\* Two skill proposals of one type that were pending together are never both
\* approved, even when both were read as pending (FR-110a: approving one
\* supersedes its siblings).
SiblingsExclusive ==
    \A p, q \in Proposals :
        /\ p # q
        /\ proposal[p].kind = proposal[q].kind /\ proposal[p].kind # "hire"
        /\ proposal[p].status = "install_in_progress" /\ proposal[q].status = "install_in_progress"
        => p \in sawDecided[q] \/ q \in sawDecided[p]

\* A pause lasts until someone resumes the agent: no edit that read the row
\* before the pause brings the old status back (UpdateAgentConfigFields
\* writes back what it read, but not the status).
OnlyVerbsChangeStatus ==
    [][agentRow'.status # agentRow.status =>
           \/ agentRow.status = "none"
           \/ agentRow'.set = agentRow.set]_rosterVars

\* A save accepted by editAgent was made against the row as it is: nothing
\* written since the page was loaded is lost to it.
FormsAreFresh ==
    [][settings.open /\ ~settings'.open /\ agentRow' # agentRow => settings.seen = agentRow]_rosterVars

\* When the listener has no notification left and none was lost, the cache
\* holds exactly the active row and the dispatcher routes exactly its role:
\* a hire gets work, a paused agent does not.
RosterIsFresh ==
    listener.pc = "wait" /\ unheard = 0 /\ ~missed =>
        roster = ActiveRow /\ routed = (ActiveRow # NoAgent)

\* An agent is only ever hired by a proposal that ends up approved: "Single
\* tx: read proposal, INSERT agents, mark proposal approved".
HiredWasApproved ==
    agentRow.hiredBy # "none" => proposal[agentRow.hiredBy].status = "install_in_progress"

\* Proposals and the running roster are consistent: of siblings one is
\* approved, and a cache with nothing left to hear is the table.
RosterIsSound == SiblingsExclusive /\ RosterIsFresh

\* Two kinds of old view do no harm: an edit of the configuration does not
\* bring back the status it read, and a form loaded before another write is
\* not saved.  It does not say that an edit of one field keeps the others: the
\* verb writes them back as it read them, whatever was written in between.
PausesAndFormsHold == OnlyVerbsChangeStatus /\ FormsAreFresh
=============================================================================
