---------------------------- MODULE ActionBroker ----------------------------
(***************************************************************************)
(* The action broker (internal/actionbroker, garrisonmutate's              *)
(* request_external_action verb, the dashboard's Outbox actions).          *)
(*                                                                         *)
(* An agent queues an outbound action; an operator approves, rejects or    *)
(* closes it; the supervisor's RunLoop claims one row per tick, posts it   *)
(* to the provider inside the claiming transaction and then records what   *)
(* happened.  Nothing ties the post to the commit that records it.         *)
(*                                                                         *)
(* The notification sent on dispatch_requested carries the bare row id,    *)
(* which Dispatcher.Dispatch rejects as malformed JSON, so Handle only     *)
(* ever runs from RunLoop: one dispatcher per supervisor process.          *)
(***************************************************************************)
EXTENDS Integers, FiniteSets

CONSTANTS
    MaxAction,    \* rows are 1..MaxAction, in created_at order
    ActionTypes,  \* action types agents ask for
    FloorTypes,   \* the permanent-Approve floor
    PolicyTypes,  \* types listed in the deploy-time policy table
    PolicyTier,   \* their tier
    Brokers,      \* supervisor processes running RunLoop
    Outboxes,     \* dashboard requests in progress
    MaxLapse      \* bound on crashes and failed commits

ASSUME BrokerAssumption ==
    /\ MaxAction \in Nat
    /\ MaxLapse \in Nat
    /\ FloorTypes \subseteq ActionTypes
    /\ PolicyTypes \subseteq ActionTypes
    /\ PolicyTier \in {"auto", "notify", "approve", "human_only"}

VARIABLES
    pending,   \* pending_actions.status, "none" before the insert
    actionKind,      \* pending_actions.action_type
    outcomes,  \* outcomes recorded in pending_action_outcomes
    posts,     \* comments that exist at the provider
    broker,    \* what each dispatcher's open transaction is doing
    click,     \* what each Outbox request's open transaction is doing
    lapses     \* posts whose record was lost

brokerVars == <<pending, actionKind, outcomes, posts, broker, click, lapses>>

ActionIds == 1..MaxAction
Verdicts == {"approved", "rejected", "done"}
Settled == {"rejected", "executed", "failed", "done"}
NoRow == 0

BrokerTypeOK ==
    /\ pending \in [ActionIds -> {"none", "pending", "approved"} \union Settled]
    /\ actionKind \in [ActionIds -> ActionTypes \union {"none"}]
    /\ outcomes \in [ActionIds -> SUBSET ({"requested", "executed", "failed", "notified"} \union Verdicts)]
    /\ posts \in [ActionIds -> Nat]
    /\ broker \in [Brokers -> [pc: {"idle", "claimed", "posting", "posted", "refused"}, row: ActionIds \union {NoRow}]]
    /\ click \in [Outboxes -> [verdict: Verdicts \union {"none"}, row: ActionIds \union {NoRow}]]
    /\ lapses \in [ActionIds -> 0..MaxLapse]

BrokerIdle == [pc |-> "idle", row |-> NoRow]
NoClick == [verdict |-> "none", row |-> NoRow]

BrokerInit ==
    /\ pending = [a \in ActionIds |-> "none"]
    /\ actionKind = [a \in ActionIds |-> "none"]
    /\ outcomes = [a \in ActionIds |-> {}]
    /\ posts = [a \in ActionIds |-> 0]
    /\ broker = [b \in Brokers |-> BrokerIdle]
    /\ click = [o \in Outboxes |-> NoClick]
    /\ lapses = [a \in ActionIds |-> 0]

-----------------------------------------------------------------------------
\* Classify: the floor wins over the table, an unknown type is approve-tier.
Classify(t) ==
    IF t \in FloorTypes THEN "approve"
    ELSE IF t \in PolicyTypes THEN PolicyTier ELSE "approve"

RowTier(a) == Classify(actionKind[a])

\* The verb: one transaction inserts the row, its outcome and the audit row.
RequestExternalAction(a, t) ==
    /\ pending[a] = "none"
    /\ \A b \in 1..(a - 1) : pending[b] # "none"
    /\ pending' = [pending EXCEPT ![a] = "pending"]
    /\ actionKind' = [actionKind EXCEPT ![a] = t]
    /\ outcomes' = [outcomes EXCEPT ![a] = {"requested"}]
    /\ UNCHANGED <<posts, broker, click, lapses>>

-----------------------------------------------------------------------------
(* The dispatcher *)

Locked(a) == \E b \in Brokers : broker[b].row = a

\* Mutant: the claim does not take the row lock.
ClaimableNoLock(a) ==
    /\ pending[a] \in {"pending", "approved"}
    /\ RowTier(a) # "human_only"

\* What ClaimDispatchablePendingAction's WHERE and SKIP LOCKED let through.
Claimable(a) ==
    /\ pending[a] \in {"pending", "approved"}
    /\ RowTier(a) # "human_only"
    /\ ~Locked(a)

\* One tick of RunLoop: Handle claims the oldest claimable row.
Claim(b) ==
    /\ broker[b].pc = "idle"
    /\ \E a \in ActionIds :
         /\ Claimable(a)
         /\ \A c \in ActionIds : Claimable(c) => a <= c
         /\ broker' = [broker EXCEPT ![b] = [pc |-> "claimed", row |-> a]]
    /\ UNCHANGED <<pending, actionKind, outcomes, posts, click, lapses>>

\* Mutant: approve-tier rows are dispatched from 'pending' too.
TierGateOpen(a) == RowTier(a) \in {"auto", "notify", "approve"}

\* applyTierGate: may the claimed row be dispatched?
TierGate(a) ==
    \/ RowTier(a) \in {"auto", "notify"}
    \/ RowTier(a) = "approve" /\ pending[a] = "approved"

\* The gate refuses: the claim is rolled back and the row stays as it was.
GateSkips(b) ==
    /\ broker[b].pc = "claimed"
    /\ ~TierGate(broker[b].row)
    /\ broker' = [broker EXCEPT ![b] = BrokerIdle]
    /\ UNCHANGED <<pending, actionKind, outcomes, posts, click, lapses>>

\* The gate passes; the vault fetch and the target's decoding may both fail.
Prepare(b) ==
    /\ broker[b].pc = "claimed"
    /\ TierGate(broker[b].row)
    /\ \E pc \in {"posting", "refused"} : broker' = [broker EXCEPT ![b].pc = pc]
    /\ UNCHANGED <<pending, actionKind, outcomes, posts, click, lapses>>

\* PostComment: the comment is created and 201 is read, or it is created and
\* the answer is lost or unreadable, or the provider refuses it.
PostComment(b) ==
    /\ broker[b].pc = "posting"
    /\ \E created \in {0, 1}, pc \in {"posted", "refused"} :
         /\ pc = "posted" => created = 1
         /\ posts' = [posts EXCEPT ![broker[b].row] = @ + created]
         /\ broker' = [broker EXCEPT ![b].pc = pc]
    /\ UNCHANGED <<pending, actionKind, outcomes, click, lapses>>

\* markExecuted commits.
MarkExecuted(b) ==
    LET a == broker[b].row IN
    /\ broker[b].pc = "posted"
    /\ pending' = [pending EXCEPT ![a] = "executed"]
    /\ outcomes' = [outcomes EXCEPT ![a] = @ \union {"executed"} \union
                        (IF RowTier(a) = "notify" THEN {"notified"} ELSE {})]
    /\ broker' = [broker EXCEPT ![b] = BrokerIdle]
    /\ UNCHANGED <<actionKind, posts, click, lapses>>

\* Mutant: a refused post leaves the row for the next tick.
FailRowRetries(b) ==
    /\ broker[b].pc = "refused"
    /\ broker' = [broker EXCEPT ![b] = BrokerIdle]
    /\ UNCHANGED <<pending, actionKind, outcomes, posts, click, lapses>>

\* failRow commits: no failure is ever retried.
FailRow(b) ==
    LET a == broker[b].row IN
    /\ broker[b].pc = "refused"
    /\ pending' = [pending EXCEPT ![a] = "failed"]
    /\ outcomes' = [outcomes EXCEPT ![a] = @ \union {"failed"}]
    /\ broker' = [broker EXCEPT ![b] = BrokerIdle]
    /\ UNCHANGED <<actionKind, posts, click, lapses>>

\* The transaction is lost: the process dies, shutdown cancels its context,
\* or a statement or the commit fails.  The row goes back to the queue.
Lapse(b) ==
    LET a == broker[b].row IN
    /\ broker[b].pc # "idle"
    /\ lapses[a] < MaxLapse
    /\ lapses' = [lapses EXCEPT ![a] = @ + 1]
    /\ broker' = [broker EXCEPT ![b] = BrokerIdle]
    /\ UNCHANGED <<pending, actionKind, outcomes, posts, click>>

-----------------------------------------------------------------------------
(* The Outbox server actions: transitionPendingAction *)

\* readPendingAction: the row is read, without a lock, at 'pending'.
ReadPending(o, a, v) ==
    /\ click[o] = NoClick
    /\ pending[a] = "pending"
    /\ click' = [click EXCEPT ![o] = [verdict |-> v, row |-> a]]
    /\ UNCHANGED <<pending, actionKind, outcomes, posts, broker, lapses>>

\* Mutant: the UPDATE trusts the status read before it.
WriteVerdictUnguarded(o) ==
    LET a == click[o].row IN
    /\ click[o] # NoClick
    /\ ~Locked(a)
    /\ pending' = [pending EXCEPT ![a] = click[o].verdict]
    /\ outcomes' = [outcomes EXCEPT ![a] = @ \union {click[o].verdict}]
    /\ click' = [click EXCEPT ![o] = NoClick]
    /\ UNCHANGED <<actionKind, posts, broker, lapses>>

\* The UPDATE waits for the row lock and re-checks the status; the outcome
\* and the audit row are inserted whether or not it changed the row.
WriteVerdict(o) ==
    LET a == click[o].row IN
    /\ click[o] # NoClick
    /\ ~Locked(a)
    /\ pending' = [pending EXCEPT ![a] = IF @ = "pending" THEN click[o].verdict ELSE @]
    /\ outcomes' = [outcomes EXCEPT ![a] = @ \union {click[o].verdict}]
    /\ click' = [click EXCEPT ![o] = NoClick]
    /\ UNCHANGED <<actionKind, posts, broker, lapses>>

\* The request's transaction fails and is rolled back.
ClickFails(o) ==
    /\ click[o] # NoClick
    /\ click' = [click EXCEPT ![o] = NoClick]
    /\ UNCHANGED <<pending, actionKind, outcomes, posts, broker, lapses>>

-----------------------------------------------------------------------------
\* The steps of a dispatcher's transaction once it holds a row.
BrokerWork(b) ==
    \/ GateSkips(b) \/ Prepare(b) \/ PostComment(b) \/ MarkExecuted(b) \/ FailRow(b)

BrokerNext ==
    \/ \E a \in ActionIds, t \in ActionTypes : RequestExternalAction(a, t)
    \/ \E b \in Brokers : Claim(b) \/ BrokerWork(b) \/ Lapse(b)
    \/ \E o \in Outboxes :
         \/ \E a \in ActionIds, v \in Verdicts : ReadPending(o, a, v)
         \/ WriteVerdict(o)
         \/ ClickFails(o)

\* RunLoop's ticker keeps ticking and a transaction keeps moving.
BrokerProgress(b) == Claim(b) \/ BrokerWork(b)

-----------------------------------------------------------------------------
(* Properties *)

\* A comment that needs an operator's approval is never posted before one
\* approved it: the floor, the gate and the row lock together.
ApprovalPrecedesPost ==
    \A a \in ActionIds :
        posts[a] > 0 /\ (actionKind[a] \in FloorTypes \/ RowTier(a) = "approve")
            => "approved" \in outcomes[a]

\* Without a lapse between the post and its record, a row is posted at most
\* once, however the dispatchers and the Outbox interleave; each lapse may
\* repeat it once.
PostsAccountedFor == \A a \in ActionIds : posts[a] <= 1 + lapses[a]

\* What a settled row says happened at the provider did happen, and what the
\* operator closed without approving was never posted.
SettledIsTrue ==
    \A a \in ActionIds :
        /\ pending[a] = "executed" => posts[a] > 0 /\ "executed" \in outcomes[a]
        /\ pending[a] \in {"rejected", "done"} => "executed" \notin outcomes[a]
        /\ pending[a] = "rejected" /\ RowTier(a) \in {"approve", "human_only"} => posts[a] = 0

\* A settled row is never changed again, by a late click or a second
\* dispatcher.
SettledIsFinal ==
    [][\A a \in ActionIds : pending[a] \in Settled => pending'[a] = pending[a]]_brokerVars

\* The row that waits behind no unapproved one is dispatched or closed.
HeadIsServed ==
    \A a \in ActionIds :
        (/\ pending[a] = "approved"
         /\ \A c \in 1..(a - 1) : pending[c] \in Settled)
            ~> pending[a] \in Settled

\* dispatcher.go's "claims any unclaimed dispatchable rows": an approved row
\* is dispatched.
ApprovedIsServed ==
    \A a \in ActionIds : pending[a] = "approved" ~> pending[a] \in Settled

\* What the broker did at the provider is what was decided and recorded: an
\* approval precedes a post, posts are not repeated but by a lapse, and a
\* settled row is true (Dispatcher.Handle, the Outbox actions).
PostsAreJustified == ApprovalPrecedesPost /\ PostsAccountedFor /\ SettledIsTrue
=============================================================================
