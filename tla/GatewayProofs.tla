--------------------------- MODULE GatewayProofs ---------------------------
(***************************************************************************)
(* What passes between Garrison and the world outside: comments posted by  *)
(* the action broker, servers and clients registered at MCPJungle, GitHub  *)
(* deliveries, the verbs that change a ticket and the tool an agent        *)
(* finishes through.  For each of them an inductive invariant that the     *)
(* component's initial state satisfies and each of its steps keeps,        *)
(* whatever the number of rows, processes, requests and faults.            *)
(* OperationsProofs draws the conclusions.                                 *)
(***************************************************************************)
EXTENDS ActionBroker, McpRegistry, Intake, TicketVerbs, FinalizeTool,
        FiniteSetTheorems, WellFoundedInduction, TLAPS

-----------------------------------------------------------------------------
(* The action broker *)

\* What a dispatcher knows of the row it holds: the row lock keeps the row
\* claimable, and past the gate it stays dispatchable.
Held(w) ==
    /\ w.pc = "idle" <=> w.row = NoRow
    /\ w.row # NoRow => pending[w.row] \in {"pending", "approved"} /\ RowTier(w.row) # "human_only"
    /\ w.pc \in {"posting", "posted", "refused"} => TierGate(w.row)
    /\ w.pc = "posted" => posts[w.row] > 0

HeldInv == \A b \in Brokers : Held(broker[b])

\* SKIP LOCKED: two dispatchers never hold one row.
HeldOnce ==
    \A b, c \in Brokers : broker[b].row = broker[c].row /\ broker[b].row # NoRow => b = c

\* A request in the Outbox is about a row that was inserted.
ClickInv ==
    \A o \in Outboxes : click[o] # NoClick =>
        click[o].verdict \in Verdicts /\ click[o].row \in ActionIds /\ pending[click[o].row] # "none"

\* What a row's status says about its record and about the provider.
RowInv ==
    \A a \in ActionIds :
        /\ pending[a] = "none" => posts[a] = 0 /\ outcomes[a] = {}
        /\ pending[a] = "approved" => "approved" \in outcomes[a]
        /\ pending[a] = "executed" => posts[a] > 0
        /\ "executed" \in outcomes[a] <=> pending[a] = "executed"
        /\ posts[a] > 0 /\ RowTier(a) \in {"approve", "human_only"} =>
             "approved" \in outcomes[a] /\ pending[a] \in {"approved", "executed", "failed"}

\* The row was posted since its last lapse, if at all, by the dispatcher that
\* still holds it or that settled it.
Spent(a) ==
    \/ pending[a] \in {"executed", "failed"}
    \/ \E b \in Brokers : broker[b].row = a /\ broker[b].pc \in {"posted", "refused"}

PostInv ==
    \A a \in ActionIds :
        posts[a] <= lapses[a] + 1 /\ (posts[a] <= lapses[a] \/ Spent(a))

BrokerInv == BrokerTypeOK /\ HeldInv /\ HeldOnce /\ ClickInv /\ RowInv /\ PostInv

\* Row ids are positive, and every tier is one of four.
LEMMA BrokerFacts ==
    /\ NoRow \notin ActionIds
    /\ \A t : Classify(t) \in {"auto", "notify", "approve", "human_only"}
    /\ \A t \in FloorTypes : Classify(t) = "approve"
  BY BrokerAssumption DEF NoRow, ActionIds, Classify

\* BrokerInv implies what is checked of the broker.
LEMMA BrokerSafe == BrokerInv => PostsAreJustified
<1> SUFFICES ASSUME BrokerInv PROVE PostsAreJustified
  OBVIOUS
<1>1. ApprovalPrecedesPost
  BY BrokerFacts DEF BrokerInv, RowInv, ApprovalPrecedesPost, RowTier
<1>2. PostsAccountedFor
  <2> SUFFICES ASSUME NEW a \in ActionIds PROVE posts[a] <= 1 + lapses[a]
    BY DEF PostsAccountedFor
  <2>1. posts[a] \in Nat /\ lapses[a] \in Nat
    BY BrokerAssumption DEF BrokerInv, BrokerTypeOK
  <2> QED
    BY <2>1 DEF BrokerInv, PostInv
<1>3. SettledIsTrue
  BY DEF BrokerInv, BrokerTypeOK, RowInv, SettledIsTrue
<1> QED
  BY <1>1, <1>2, <1>3 DEF PostsAreJustified

\* The empty queue satisfies BrokerInv.
LEMMA BrokerInvInit == BrokerInit => BrokerInv
<1> SUFFICES ASSUME BrokerInit PROVE BrokerInv
  OBVIOUS
<1>1. BrokerTypeOK
  BY BrokerAssumption DEF BrokerInit, BrokerTypeOK, BrokerIdle, NoClick
<1>2. HeldInv /\ HeldOnce /\ ClickInv
  BY DEF BrokerInit, HeldInv, Held, HeldOnce, ClickInv, BrokerIdle
<1>3. RowInv
  BY DEF BrokerInit, RowInv
<1>4. PostInv
  BY DEF BrokerInit, PostInv
<1> QED
  BY <1>1, <1>2, <1>3, <1>4 DEF BrokerInv

\* The verb inserts a row that nobody holds.
LEMMA BrokerRequests ==
    ASSUME BrokerInv, NEW a \in ActionIds, NEW t \in ActionTypes, RequestExternalAction(a, t)
    PROVE  BrokerInv'
<1>1. BrokerTypeOK'
  BY DEF BrokerInv, BrokerTypeOK, RequestExternalAction
<1>2. /\ \A c \in ActionIds : c # a => pending'[c] = pending[c] /\ actionKind'[c] = actionKind[c]
                                        /\ outcomes'[c] = outcomes[c]
      /\ pending[a] = "none" /\ pending'[a] = "pending" /\ outcomes'[a] = {"requested"}
      /\ posts' = posts /\ broker' = broker /\ click' = click /\ lapses' = lapses
  BY DEF BrokerInv, BrokerTypeOK, RequestExternalAction
<1>3. \A b \in Brokers : broker[b].row \in ActionIds \union {NoRow} /\ broker[b].row # a
  BY <1>2, BrokerFacts DEF BrokerInv, BrokerTypeOK, HeldInv, Held
<1>4. HeldInv'
  BY <1>2, <1>3, BrokerFacts DEF BrokerInv, HeldInv, Held, RowTier, TierGate
<1>5. HeldOnce' 
  BY <1>2 DEF BrokerInv, HeldOnce
<1>6. ClickInv'
  BY <1>2 DEF BrokerInv, ClickInv
<1>7. RowInv'
  BY <1>2 DEF BrokerInv, RowInv, RowTier
<1>8. PostInv'
  BY <1>2 DEF BrokerInv, PostInv, Spent
<1> QED
  BY <1>1, <1>4, <1>5, <1>6, <1>7, <1>8 DEF BrokerInv

\* A claim takes a row that nobody holds.
LEMMA BrokerClaims == ASSUME BrokerInv, NEW b \in Brokers, Claim(b) PROVE BrokerInv'
<1>1. PICK a \in ActionIds : Claimable(a) /\ broker' = [broker EXCEPT ![b] = [pc |-> "claimed", row |-> a]]
  BY DEF Claim
<1>2. UNCHANGED <<pending, actionKind, outcomes, posts, click, lapses>> /\ broker[b].pc = "idle"
  BY DEF Claim
<1>3. BrokerTypeOK'
  BY <1>1, <1>2 DEF BrokerInv, BrokerTypeOK
<1>4. /\ broker'[b].pc = "claimed" /\ broker'[b].row = a
      /\ \A c \in Brokers : c # b => broker'[c] = broker[c]
      /\ \A c \in Brokers : broker[c].row # a
  BY <1>1 DEF BrokerInv, BrokerTypeOK, Claimable, Locked
<1>5. HeldInv'
  BY <1>1, <1>2, <1>4, BrokerFacts DEF BrokerInv, HeldInv, Held, Claimable, RowTier, TierGate
<1>6. HeldOnce'
  BY <1>4 DEF BrokerInv, HeldOnce
<1>7. ClickInv' /\ RowInv'
  BY <1>2 DEF BrokerInv, ClickInv, RowInv, RowTier
<1>8. PostInv'
  BY <1>2, <1>4 DEF BrokerInv, PostInv, Spent
<1> QED
  BY <1>3, <1>5, <1>6, <1>7, <1>8 DEF BrokerInv

\* A dispatcher that lets its row go, having changed nothing, or having lost
\* its transaction.
LEMMA BrokerLetsGo ==
    ASSUME BrokerInv, NEW b \in Brokers, GateSkips(b) \/ Lapse(b) PROVE BrokerInv'
<1> DEFINE a == broker[b].row
<1>1. /\ broker' = [broker EXCEPT ![b] = BrokerIdle] /\ broker[b].pc # "idle"
      /\ UNCHANGED <<pending, actionKind, outcomes, posts, click>>
  BY DEF GateSkips, Lapse
<1>2. a \in ActionIds
  BY <1>1 DEF BrokerInv, BrokerTypeOK, HeldInv, Held
<1>3. /\ lapses' \in [ActionIds -> 0..MaxLapse]
      /\ \A c \in ActionIds : c # a => lapses'[c] = lapses[c]
      /\ IF broker[b].pc = "claimed" THEN lapses'[a] >= lapses[a] ELSE lapses'[a] = lapses[a] + 1
  BY <1>2, BrokerAssumption DEF BrokerInv, BrokerTypeOK, GateSkips, Lapse
<1>4. BrokerTypeOK'
  BY <1>1, <1>3 DEF BrokerInv, BrokerTypeOK, BrokerIdle
<1>5. /\ broker'[b].pc = "idle" /\ broker'[b].row = NoRow
      /\ \A c \in Brokers : c # b => broker'[c] = broker[c]
  BY <1>1 DEF BrokerInv, BrokerTypeOK, BrokerIdle
<1>6. HeldInv'
  BY <1>1, <1>5 DEF BrokerInv, HeldInv, Held, RowTier, TierGate
<1>7. HeldOnce'
  BY <1>5 DEF BrokerInv, HeldOnce
<1>8. ClickInv' /\ RowInv'
  BY <1>1 DEF BrokerInv, ClickInv, RowInv, RowTier
<1>9. PostInv'
  <2> SUFFICES ASSUME NEW d \in ActionIds
               PROVE  posts'[d] <= lapses'[d] + 1 /\ (posts'[d] <= lapses'[d] \/ Spent(d)')
    BY DEF PostInv
  <2>1. posts[d] \in Nat /\ lapses[d] \in Nat /\ lapses'[d] \in Nat
    BY <1>3, BrokerAssumption DEF BrokerInv, BrokerTypeOK
  <2>2. CASE d = a /\ broker[b].pc # "claimed"
    BY <1>1, <1>3, <2>1, <2>2 DEF BrokerInv, PostInv
  <2>3. CASE d = a /\ broker[b].pc = "claimed"
    <3>1. ~\E c \in Brokers : broker[c].row = a /\ broker[c].pc \in {"posted", "refused"}
      BY <1>2, <2>3, BrokerFacts DEF BrokerInv, HeldOnce
    <3> HIDE DEF a
    <3>2. posts[a] <= lapses[a]
      BY <1>2, <3>1, <1>1 DEF BrokerInv, PostInv, Spent, HeldInv, Held, a
    <3> QED
      BY <1>1, <1>3, <2>1, <2>3, <3>2
  <2>4. CASE d # a
    <3>1. Spent(d) => Spent(d)'
      BY <1>1, <1>5, <2>4 DEF Spent
    <3> QED
      BY <1>1, <1>3, <2>4, <3>1 DEF BrokerInv, PostInv
  <2> QED
    BY <2>2, <2>3, <2>4
<1> QED
  BY <1>4, <1>6, <1>7, <1>8, <1>9 DEF BrokerInv

\* Past the gate the row stays dispatchable.
LEMMA BrokerPrepares == ASSUME BrokerInv, NEW b \in Brokers, Prepare(b) PROVE BrokerInv'
<1>1. PICK pc \in {"posting", "refused"} : broker' = [broker EXCEPT ![b].pc = pc]
  BY DEF Prepare
<1>2. /\ UNCHANGED <<pending, actionKind, outcomes, posts, click, lapses>>
      /\ broker[b].pc = "claimed" /\ TierGate(broker[b].row)
  BY DEF Prepare
<1>3. BrokerTypeOK'
  BY <1>1, <1>2 DEF BrokerInv, BrokerTypeOK
<1>4. /\ broker'[b].pc = pc /\ broker'[b].row = broker[b].row
      /\ \A c \in Brokers : c # b => broker'[c] = broker[c]
  BY <1>1 DEF BrokerInv, BrokerTypeOK
<1>5. HeldInv'
  BY <1>1, <1>2, <1>4 DEF BrokerInv, HeldInv, Held, RowTier, TierGate
<1>6. HeldOnce'
  BY <1>4 DEF BrokerInv, HeldOnce
<1>7. ClickInv' /\ RowInv'
  BY <1>2 DEF BrokerInv, ClickInv, RowInv, RowTier
<1>8. PostInv'
  BY <1>2, <1>4 DEF BrokerInv, PostInv, Spent
<1> QED
  BY <1>3, <1>5, <1>6, <1>7, <1>8 DEF BrokerInv

\* The one post of a claim: nobody else is past the gate with this row, so
\* nothing was posted since the last lapse.
LEMMA BrokerPosts == ASSUME BrokerInv, NEW b \in Brokers, PostComment(b) PROVE BrokerInv'
<1>a. PICK a \in ActionIds : a = broker[b].row /\ a # NoRow
  BY BrokerFacts DEF BrokerInv, BrokerTypeOK, HeldInv, Held, PostComment
<1>1. PICK created \in {0, 1}, pc \in {"posted", "refused"} :
        /\ pc = "posted" => created = 1
        /\ posts' = [posts EXCEPT ![a] = @ + created]
        /\ broker' = [broker EXCEPT ![b].pc = pc]
  BY <1>a DEF PostComment
<1>2. UNCHANGED <<pending, actionKind, outcomes, click, lapses>> /\ broker[b].pc = "posting"
  BY DEF PostComment
<1>3. TierGate(a) /\ pending[a] \in {"pending", "approved"} /\ RowTier(a) # "human_only"
  BY <1>a, <1>2, BrokerFacts DEF BrokerInv, BrokerTypeOK, HeldInv, Held
<1>4. BrokerTypeOK'
  <2>1. posts' \in [ActionIds -> Nat]
    BY <1>a, <1>1, <1>3 DEF BrokerInv, BrokerTypeOK
  <2> QED
    BY <1>1, <1>2, <2>1 DEF BrokerInv, BrokerTypeOK
<1>5. /\ broker'[b].pc = pc /\ broker'[b].row = a
      /\ \A c \in Brokers : c # b => broker'[c] = broker[c]
      /\ posts[a] \in Nat /\ posts'[a] = posts[a] + created
      /\ \A d \in ActionIds : d # a => posts'[d] = posts[d]
  BY <1>a, <1>1, <1>3 DEF BrokerInv, BrokerTypeOK
<1>6. \A c \in Brokers : c # b => broker[c].row # a
  BY <1>a DEF BrokerInv, HeldOnce
<1>7. HeldInv'
  <2> SUFFICES ASSUME NEW c \in Brokers PROVE Held(broker[c])'
    BY DEF HeldInv
  <2>1. CASE c = b
    BY <1>a, <1>1, <1>2, <1>3, <1>5, <2>1 DEF Held, RowTier, TierGate
  <2>2. CASE c # b
    <3>1. broker'[c] = broker[c] /\ broker[c].row \in ActionIds \union {NoRow} /\ broker[c].row # a
      BY <1>5, <1>6, <2>2 DEF BrokerInv, BrokerTypeOK
    <3> QED
      BY <1>2, <1>5, <3>1 DEF BrokerInv, HeldInv, Held, RowTier, TierGate
  <2> QED
    BY <2>1, <2>2
<1>8. HeldOnce'
  BY <1>a, <1>5, <1>6 DEF BrokerInv, HeldOnce
<1>9. ClickInv'
  BY <1>2 DEF BrokerInv, ClickInv
<1>10. RowInv'
  <2>1. RowTier(a) = "approve" => pending[a] = "approved"
    BY <1>3 DEF TierGate
  <2> QED
    BY <1>2, <1>3, <1>5, <2>1 DEF BrokerInv, RowInv, RowTier
<1>11. PostInv'
  <2>1. ~Spent(a)
    BY <1>a, <1>2, <1>3, <1>6 DEF Spent
  <2>2. posts[a] <= lapses[a] /\ lapses[a] \in Nat
    BY <2>1, <1>3, BrokerAssumption DEF BrokerInv, BrokerTypeOK, PostInv
  <2>3. Spent(a)'
    BY <1>1, <1>5 DEF Spent
  <2>4. \A d \in ActionIds : d # a /\ Spent(d) => Spent(d)'
    BY <1>a, <1>2, <1>5 DEF Spent
  <2> QED
    BY <1>1, <1>2, <1>5, <2>2, <2>3, <2>4 DEF BrokerInv, PostInv
<1> QED
  BY <1>4, <1>7, <1>8, <1>9, <1>10, <1>11 DEF BrokerInv

\* The holder settles its row and lets it go.
LEMMA BrokerSettles ==
    ASSUME BrokerInv, NEW b \in Brokers, MarkExecuted(b) \/ FailRow(b) PROVE BrokerInv'
<1>1. PICK a \in ActionIds : a = broker[b].row /\ a # NoRow
  BY BrokerFacts DEF BrokerInv, BrokerTypeOK, HeldInv, Held, MarkExecuted, FailRow
<1>2. /\ broker' = [broker EXCEPT ![b] = BrokerIdle]
      /\ UNCHANGED <<actionKind, posts, click, lapses>>
      /\ pending[a] \in {"pending", "approved"} /\ TierGate(a)
  BY <1>1, BrokerFacts DEF BrokerInv, HeldInv, Held, MarkExecuted, FailRow
<1>3. PICK s \in {"executed", "failed"} :
        /\ pending' = [pending EXCEPT ![a] = s]
        /\ s = "executed" => posts[a] > 0
        /\ \/ outcomes' = [outcomes EXCEPT ![a] = @ \union {s}]
           \/ s = "executed" /\ outcomes' = [outcomes EXCEPT ![a] = @ \union {s} \union {"notified"}]
  <2>1. CASE MarkExecuted(b)
    <3>1. posts[a] > 0
      BY <1>1, <2>1 DEF BrokerInv, HeldInv, Held, MarkExecuted
    <3> QED
      BY <1>1, <2>1, <3>1 DEF MarkExecuted
  <2>2. CASE FailRow(b)
    BY <1>1, <2>2 DEF FailRow
  <2> QED
    BY <2>1, <2>2
<1>4. /\ \A c \in ActionIds : c # a => pending'[c] = pending[c] /\ outcomes'[c] = outcomes[c]
      /\ pending'[a] = s /\ s \in outcomes'[a] /\ outcomes[a] \subseteq outcomes'[a]
      /\ "executed" \in outcomes'[a] => s = "executed"
  <2>1. "executed" \notin outcomes[a]
    BY <1>2 DEF BrokerInv, RowInv
  <2> QED
    BY <1>3, <2>1 DEF BrokerInv, BrokerTypeOK
<1>5. /\ broker'[b].pc = "idle" /\ broker'[b].row = NoRow
      /\ \A c \in Brokers : c # b => broker'[c] = broker[c] /\ broker[c].row # a
  BY <1>1, <1>2 DEF BrokerInv, BrokerTypeOK, BrokerIdle, HeldOnce
<1>6. BrokerTypeOK'
  <2>1. pending' \in [ActionIds -> {"none", "pending", "approved"} \union Settled]
    BY <1>3 DEF BrokerInv, BrokerTypeOK, Settled
  <2>2. outcomes' \in [ActionIds -> SUBSET ({"requested", "executed", "failed", "notified"} \union Verdicts)]
    BY <1>3 DEF BrokerInv, BrokerTypeOK
  <2> QED
    BY <1>2, <2>1, <2>2 DEF BrokerInv, BrokerTypeOK, BrokerIdle
<1>7. HeldInv'
  <2> SUFFICES ASSUME NEW c \in Brokers PROVE Held(broker[c])'
    BY DEF HeldInv
  <2>1. CASE c = b
    BY <1>5, <2>1 DEF Held
  <2>2. CASE c # b
    <3>1. broker'[c] = broker[c] /\ broker[c].row \in ActionIds \union {NoRow} /\ broker[c].row # a
      BY <1>5, <2>2 DEF BrokerInv, BrokerTypeOK
    <3>2. Held(broker[c])
      BY DEF BrokerInv, HeldInv
    <3> QED
      BY <1>2, <1>4, <3>1, <3>2 DEF Held, RowTier, TierGate
  <2> QED
    BY <2>1, <2>2
<1>8. HeldOnce'
  BY <1>5 DEF BrokerInv, HeldOnce
<1>9. ClickInv'
  BY <1>2, <1>4 DEF BrokerInv, ClickInv
<1>10. RowInv'
  <2>1. RowTier(a) = "approve" => "approved" \in outcomes[a]
    BY <1>2 DEF BrokerInv, RowInv, TierGate
  <2>2. RowTier(a) # "human_only"
    BY <1>2 DEF TierGate
  <2> QED
    BY <1>2, <1>3, <1>4, <2>1, <2>2 DEF BrokerInv, RowInv, RowTier
<1>11. PostInv'
  <2>1. Spent(a)'
    BY <1>4 DEF Spent
  <2>2. \A d \in ActionIds : d # a /\ Spent(d) => Spent(d)'
    BY <1>1, <1>4, <1>5 DEF Spent
  <2> QED
    BY <1>2, <2>1, <2>2 DEF BrokerInv, PostInv
<1> QED
  BY <1>6, <1>7, <1>8, <1>9, <1>10, <1>11 DEF BrokerInv

\* The Outbox reads a row, writes its verdict where the row is still pending
\* and unlocked, or gives up.
LEMMA BrokerClicks ==
    ASSUME BrokerInv, NEW o \in Outboxes,
           \/ \E a \in ActionIds, v \in Verdicts : ReadPending(o, a, v)
           \/ WriteVerdict(o) \/ ClickFails(o)
    PROVE  BrokerInv'
<1>1. CASE \E a \in ActionIds, v \in Verdicts : ReadPending(o, a, v)
  <2>1. PICK a \in ActionIds, v \in Verdicts : ReadPending(o, a, v)
    BY <1>1
  <2>2. BrokerTypeOK' /\ ClickInv'
    BY <2>1 DEF BrokerInv, BrokerTypeOK, ClickInv, ReadPending
  <2>3. HeldInv' /\ HeldOnce' /\ RowInv' /\ PostInv'
    BY <2>1 DEF BrokerInv, HeldInv, Held, HeldOnce, RowInv, PostInv, Spent, RowTier, TierGate, ReadPending
  <2> QED
    BY <2>2, <2>3 DEF BrokerInv
<1>2. CASE ClickFails(o)
  <2>1. BrokerTypeOK' /\ ClickInv'
    BY <1>2 DEF BrokerInv, BrokerTypeOK, ClickInv, ClickFails, NoClick
  <2>2. HeldInv' /\ HeldOnce' /\ RowInv' /\ PostInv'
    BY <1>2 DEF BrokerInv, HeldInv, Held, HeldOnce, RowInv, PostInv, Spent, RowTier, TierGate, ClickFails
  <2> QED
    BY <2>1, <2>2 DEF BrokerInv
<1>3. CASE WriteVerdict(o)
  <2>1. PICK a \in ActionIds, v \in Verdicts : a = click[o].row /\ v = click[o].verdict /\ pending[a] # "none"
    BY <1>3 DEF BrokerInv, ClickInv, WriteVerdict
  <2>2. /\ UNCHANGED <<actionKind, posts, broker, lapses>>
        /\ \A c \in ActionIds : c # a => pending'[c] = pending[c] /\ outcomes'[c] = outcomes[c]
        /\ pending'[a] = IF pending[a] = "pending" THEN v ELSE pending[a]
        /\ outcomes'[a] = outcomes[a] \union {v}
        /\ click' = [click EXCEPT ![o] = NoClick]
        /\ \A b \in Brokers : broker[b].row # a
    BY <1>3, <2>1 DEF BrokerInv, BrokerTypeOK, WriteVerdict, Locked
  <2>3. pending'[a] # "none" /\ v \in {"approved", "rejected", "done"}
    BY <2>1, <2>2 DEF Verdicts
  <2>4. BrokerTypeOK'
    <3>1. pending' \in [ActionIds -> {"none", "pending", "approved"} \union Settled]
      BY <1>3, <2>1 DEF BrokerInv, BrokerTypeOK, WriteVerdict, Settled, Verdicts
    <3>2. outcomes' \in [ActionIds -> SUBSET ({"requested", "executed", "failed", "notified"} \union Verdicts)]
      BY <1>3, <2>1 DEF BrokerInv, BrokerTypeOK, WriteVerdict
    <3> QED
      BY <2>2, <3>1, <3>2 DEF BrokerInv, BrokerTypeOK, NoClick
  <2>5. HeldInv'
    <3> SUFFICES ASSUME NEW c \in Brokers PROVE Held(broker[c])'
      BY DEF HeldInv
    <3>1. Held(broker[c]) /\ broker[c].row \in ActionIds \union {NoRow}
      BY DEF BrokerInv, BrokerTypeOK, HeldInv
    <3> QED
      BY <2>2, <3>1 DEF Held, RowTier, TierGate
  <2>6. HeldOnce'
    BY <2>2 DEF BrokerInv, HeldOnce
  <2>7. ClickInv'
    BY <2>2, <2>3 DEF BrokerInv, BrokerTypeOK, ClickInv
  <2>8. RowInv'
    BY <2>1, <2>2, <2>3 DEF BrokerInv, BrokerTypeOK, RowInv, RowTier
  <2>9. PostInv'
    BY <2>2, <2>3 DEF BrokerInv, PostInv, Spent
  <2> QED
    BY <2>4, <2>5, <2>6, <2>7, <2>8, <2>9 DEF BrokerInv
<1> QED
  BY <1>1, <1>2, <1>3

\* Every step of the broker keeps BrokerInv.
LEMMA BrokerInvStep == BrokerInv /\ [BrokerNext]_brokerVars => BrokerInv'
<1> SUFFICES ASSUME BrokerInv, [BrokerNext]_brokerVars PROVE BrokerInv'
  OBVIOUS
<1>1. CASE BrokerNext
  BY <1>1, BrokerRequests, BrokerClaims, BrokerLetsGo, BrokerPrepares, BrokerPosts, BrokerSettles, BrokerClicks
     DEF BrokerNext, BrokerWork
<1>2. CASE UNCHANGED brokerVars
  <2>1. BrokerTypeOK' /\ ClickInv'
    BY <1>2 DEF BrokerInv, BrokerTypeOK, ClickInv, brokerVars
  <2>2. HeldInv' /\ HeldOnce' /\ RowInv' /\ PostInv'
    BY <1>2 DEF BrokerInv, HeldInv, Held, HeldOnce, RowInv, PostInv, Spent, RowTier, TierGate, brokerVars
  <2> QED
    BY <2>1, <2>2 DEF BrokerInv
<1> QED
  BY <1>1, <1>2

\* No step changes a settled row: the dispatcher holds only unsettled rows,
\* the Outbox re-checks the status.
LEMMA SettledKept ==
    BrokerInv /\ [BrokerNext]_brokerVars =>
        \A a \in ActionIds : pending[a] \in Settled => pending'[a] = pending[a]
<1> SUFFICES ASSUME BrokerInv, [BrokerNext]_brokerVars, NEW a \in ActionIds, pending[a] \in Settled
             PROVE  pending'[a] = pending[a]
  OBVIOUS
<1>1. pending[a] \notin {"none", "pending", "approved"} /\ pending \in [ActionIds -> {"none", "pending", "approved"} \union Settled]
  BY DEF Settled, BrokerInv, BrokerTypeOK
<1>2. \A b \in Brokers : broker[b].pc # "idle" => broker[b].row # a
  BY <1>1 DEF BrokerInv, HeldInv, Held
<1>3. CASE \E b \in Brokers : MarkExecuted(b) \/ FailRow(b)
  BY <1>1, <1>2, <1>3 DEF MarkExecuted, FailRow
<1>4. CASE \E o \in Outboxes : WriteVerdict(o)
  BY <1>1, <1>4 DEF WriteVerdict
<1>5. CASE \E c \in ActionIds, t \in ActionTypes : RequestExternalAction(c, t)
  BY <1>1, <1>5 DEF RequestExternalAction
<1>6. CASE UNCHANGED pending
  BY <1>6
<1> QED
  BY <1>3, <1>4, <1>5, <1>6
     DEF BrokerNext, BrokerWork, brokerVars, Claim, GateSkips, Prepare, PostComment, Lapse, ReadPending, ClickFails

-----------------------------------------------------------------------------
(* MCPJungle: registration *)

\* A handler at work holds a row that is still pending, and a call it saw
\* succeed did register the server.
JobInv ==
    \A p \in Supers : job[p].pc # "idle" =>
        /\ mcpRow[job[p].row] = "pending"
        /\ job[p].pc = "registered" => job[p].row \in upstream

\* FOR UPDATE NOWAIT: two supervisors never hold one row.
JobOnce ==
    \A p, q \in Supers :
        job[p].pc # "idle" /\ job[q].pc # "idle" /\ job[p].row = job[q].row => p = q

\* The call since the last fault was made by the handler that still holds the
\* row or that recorded its outcome.
Called(n) ==
    \/ mcpRow[n] \in {"registered", "failed"}
    \/ \E p \in Supers : job[p].pc \in {"registered", "failed"} /\ job[p].row = n

CallInv ==
    \A n \in ServerNames :
        mcpCalls[n] <= faults + 1 /\ (mcpCalls[n] <= faults \/ Called(n))

(* MCPJungle: reconciliation *)

\* Inside a visit that made a client, the client holds this run's token and
\* the agent is not granted yet; when the grant is next, so does the vault.
VisitInv ==
    mcpStep.pc \in {"vault", "cleanup", "grant"} =>
        /\ client[mcpStep.agent] = boots /\ mcpStep.agent \notin grant
        /\ mcpStep.pc = "grant" => secret[mcpStep.agent] = boots

McpInv ==
    /\ McpTypeOK
    /\ JobInv /\ JobOnce /\ OneAuditPerRegistration /\ RegisteredIsUpstream /\ CallInv
    /\ (mcpStep # NoStep \/ todo # {} => boots # 0) /\ VisitInv /\ GrantedTokenWorks

\* McpInv implies what is checked of the registry.
LEMMA McpSafe == McpInv => RegistryAgrees
<1> SUFFICES ASSUME McpInv PROVE CallsAccountedFor
  BY DEF McpInv, RegistryAgrees
<1> SUFFICES ASSUME NEW n \in ServerNames PROVE mcpCalls[n] <= 1 + faults
  BY DEF CallsAccountedFor
<1>1. mcpCalls[n] \in Nat /\ faults \in Nat
  BY McpAssumption DEF McpInv, McpTypeOK
<1> QED
  BY <1>1 DEF McpInv, CallInv

\* The empty registry satisfies McpInv.
LEMMA McpInvInit == McpInit => McpInv
<1> SUFFICES ASSUME McpInit PROVE McpInv
  OBVIOUS
<1>1. McpTypeOK
  BY McpAssumption DEF McpInit, McpTypeOK
<1>2. JobInv /\ JobOnce /\ OneAuditPerRegistration /\ RegisteredIsUpstream /\ CallInv
  BY DEF McpInit, JobInv, JobOnce, OneAuditPerRegistration, RegisteredIsUpstream, CallInv, NoJob
<1>3. VisitInv /\ GrantedTokenWorks /\ (mcpStep # NoStep \/ todo # {} => boots # 0)
  BY DEF McpInit, VisitInv, GrantedTokenWorks, NoStep
<1> QED
  BY <1>1, <1>2, <1>3 DEF McpInv

\* A job is idle exactly when it has no row.
LEMMA JobShape ==
    ASSUME McpTypeOK, NEW p \in Supers
    PROVE  /\ job[p].pc = "idle" <=> job[p] = NoJob
           /\ job[p].pc # "idle" => /\ job[p].row \in ServerNames
                                     /\ job[p].pc \in {"call", "registered", "failed"}
                                     /\ job[p] = [pc |-> job[p].pc, row |-> job[p].row]
<1>1. job[p] \in {NoJob} \union [pc: {"call", "registered", "failed"}, row: ServerNames]
  BY DEF McpTypeOK
<1> QED
  BY <1>1 DEF NoJob

\* The registry's half of the invariant reads nothing of the reconciler.
RegistryPart == JobInv /\ JobOnce /\ OneAuditPerRegistration /\ RegisteredIsUpstream /\ CallInv
ReconcilePart == (mcpStep # NoStep \/ todo # {} => boots # 0) /\ VisitInv /\ GrantedTokenWorks

\* What the reconcile loop does not touch stays as it is.
LEMMA ReconcileUntouched == ReconcilePart /\ UNCHANGED reconcileVars => ReconcilePart'
  BY DEF ReconcilePart, reconcileVars, VisitInv, GrantedTokenWorks

\* More faults only allow more calls.
LEMMA RegistryUntouched ==
    McpTypeOK /\ McpTypeOK' /\ RegistryPart /\ faults' >= faults /\ UNCHANGED registryVars => RegistryPart'
<1> SUFFICES ASSUME McpTypeOK, McpTypeOK', RegistryPart, faults' >= faults, UNCHANGED registryVars PROVE RegistryPart'
  OBVIOUS
<1>1. JobInv' /\ JobOnce' /\ OneAuditPerRegistration' /\ RegisteredIsUpstream'
  BY DEF RegistryPart, registryVars, JobInv, JobOnce, OneAuditPerRegistration, RegisteredIsUpstream
<1>2. CallInv'
  <2> SUFFICES ASSUME NEW n \in ServerNames
               PROVE  mcpCalls'[n] <= faults' + 1 /\ (mcpCalls'[n] <= faults' \/ Called(n)')
    BY DEF CallInv
  <2>1. mcpCalls'[n] = mcpCalls[n] /\ mcpCalls[n] \in Nat /\ faults \in Nat /\ faults' \in Nat
    BY McpAssumption DEF McpTypeOK, registryVars
  <2>2. Called(n) => Called(n)'
    BY DEF Called, registryVars
  <2> QED
    BY <2>1, <2>2 DEF RegistryPart, CallInv
<1> QED
  BY <1>1, <1>2 DEF RegistryPart

\* Every step of the registration keeps the types.
LEMMA RegistryTypes == McpTypeOK /\ RegistryNext => McpTypeOK'
<1> SUFFICES ASSUME McpTypeOK, RegistryNext PROVE McpTypeOK'
  OBVIOUS
<1>1. ASSUME NEW n \in ServerNames, RegisterMcpServer(n) PROVE McpTypeOK'
  BY <1>1 DEF McpTypeOK, RegisterMcpServer, reconcileVars
<1>2. ASSUME NEW p \in Supers, ListenDrops(p) PROVE McpTypeOK'
  BY <1>2, McpAssumption DEF McpTypeOK, ListenDrops, Fault, reconcileVars
<1>3. ASSUME NEW p \in Supers, HandleRegistration(p) PROVE McpTypeOK'
  <2>1. inbox' \in [Supers -> SUBSET ServerNames]
    BY <1>3 DEF McpTypeOK, HandleRegistration
  <2>2. PICK n \in ServerNames :
          job' = IF TakesRow(n)
                 THEN [job EXCEPT ![p] = [pc |-> IF n \in BearerNames THEN "failed" ELSE "call", row |-> n]]
                 ELSE job
    BY <1>3 DEF McpTypeOK, HandleRegistration
  <2>3. job' \in [Supers -> {NoJob} \union [pc: {"call", "registered", "failed"}, row: ServerNames]]
    BY <2>2 DEF McpTypeOK
  <2> QED
    BY <1>3, <2>1, <2>3 DEF McpTypeOK, HandleRegistration, reconcileVars
<1>4. ASSUME NEW p \in Supers, RegisterServer(p) PROVE McpTypeOK'
  <2>1. job[p].pc = "call" /\ job[p].row \in ServerNames
        /\ job[p] \in [pc: {"call", "registered", "failed"}, row: ServerNames]
    BY <1>4, JobShape DEF RegisterServer, McpTypeOK, NoJob
  <2>2. job' \in [Supers -> {NoJob} \union [pc: {"call", "registered", "failed"}, row: ServerNames]]
    <3>1. PICK pc \in {"registered", "failed"} : job' = [job EXCEPT ![p].pc = pc]
      BY <1>4 DEF RegisterServer
    <3>2. [job[p] EXCEPT !.pc = pc] \in [pc: {"call", "registered", "failed"}, row: ServerNames]
      BY <2>1
    <3> QED
      BY <3>1, <3>2 DEF McpTypeOK
  <2>3. mcpCalls' \in [ServerNames -> Nat] /\ upstream' \subseteq ServerNames
    BY <1>4, <2>1 DEF RegisterServer, McpTypeOK
  <2> QED
    BY <1>4, <2>2, <2>3 DEF McpTypeOK, RegisterServer, reconcileVars
<1>5. ASSUME NEW p \in Supers, RecordRegistration(p) PROVE McpTypeOK'
  <2>1. job[p].row \in ServerNames /\ job[p].pc \in {"registered", "failed"}
    BY <1>5, JobShape DEF RecordRegistration
  <2>2. mcpRow' \in [ServerNames -> {"none", "pending", "registered", "failed"}]
        /\ mcpAudit' \in [ServerNames -> Nat]
    BY <1>5, <2>1 DEF RecordRegistration, McpTypeOK
  <2> QED
    BY <1>5, <2>2 DEF McpTypeOK, RecordRegistration, reconcileVars
<1>6. ASSUME NEW p \in Supers, RegistrationLost(p) PROVE McpTypeOK'
  BY <1>6, McpAssumption DEF McpTypeOK, RegistrationLost, Fault, reconcileVars
<1> QED
  BY <1>1, <1>2, <1>3, <1>4, <1>5, <1>6 DEF RegistryNext

\* A handler takes a row only when it is pending and nobody holds it.
LEMMA RegistryHandles ==
    ASSUME McpTypeOK, RegistryPart, NEW p \in Supers, HandleRegistration(p) PROVE RegistryPart'
<1>1. PICK n \in ServerNames :
        job' = IF TakesRow(n)
               THEN [job EXCEPT ![p] = [pc |-> IF n \in BearerNames THEN "failed" ELSE "call", row |-> n]]
               ELSE job
  BY DEF McpTypeOK, HandleRegistration
<1>2. UNCHANGED <<mcpRow, mcpAudit, upstream, mcpCalls, faults>> /\ job[p] = NoJob
  BY DEF HandleRegistration
<1>3. OneAuditPerRegistration' /\ RegisteredIsUpstream'
  BY <1>2 DEF RegistryPart, OneAuditPerRegistration, RegisteredIsUpstream
<1>4. CASE ~TakesRow(n)
  <2>1. job' = job
    BY <1>1, <1>4
  <2> QED
    BY <1>2, <1>3, <2>1 DEF RegistryPart, JobInv, JobOnce, CallInv, Called
<1>5. CASE TakesRow(n)
  <2>1. /\ job'[p].pc \in {"call", "failed"} /\ job'[p].row = n
        /\ \A q \in Supers : q # p => job'[q] = job[q]
        /\ mcpRow[n] = "pending" /\ job[p].pc = "idle"
    BY <1>1, <1>2, <1>5 DEF McpTypeOK, TakesRow, NoJob
  <2>2. \A q \in Supers : job[q].pc # "idle" => job[q].row # n
    BY <1>5, JobShape DEF TakesRow, RowHeld
  <2>3. JobInv'
    BY <1>2, <2>1 DEF RegistryPart, JobInv
  <2>4. JobOnce'
    BY <2>1, <2>2 DEF RegistryPart, JobOnce
  <2>5. CallInv'
    BY <1>2, <2>1 DEF RegistryPart, CallInv, Called
  <2> QED
    BY <1>3, <2>3, <2>4, <2>5 DEF RegistryPart
<1> QED
  BY <1>4, <1>5

\* The one call of a handler: nobody called for this row since the last fault.
LEMMA RegistryCalls ==
    ASSUME McpTypeOK, RegistryPart, NEW p \in Supers, RegisterServer(p) PROVE RegistryPart'
<1>1. PICK n \in ServerNames : n = job[p].row /\ job[p].pc = "call" /\ mcpRow[n] = "pending"
  BY JobShape DEF RegisterServer, RegistryPart, JobInv
<1>2. PICK pc \in {"registered", "failed"} :
        job' = [job EXCEPT ![p].pc = pc] /\ (pc = "registered" => n \in upstream')
  BY <1>1 DEF RegisterServer
<1>3. /\ UNCHANGED <<mcpRow, mcpAudit, faults>> /\ upstream \subseteq upstream'
      /\ mcpCalls' = [mcpCalls EXCEPT ![n] = @ + 1]
  BY <1>1 DEF RegisterServer
<1>4. /\ job'[p].pc = pc /\ job'[p].row = n
      /\ \A q \in Supers : q # p => job'[q] = job[q] /\ (job[q].pc # "idle" => job[q].row # n)
  <2>1. job[p] = [pc |-> job[p].pc, row |-> job[p].row]
    BY <1>1, JobShape
  <2> QED
    BY <1>1, <1>2, <2>1 DEF McpTypeOK, RegistryPart, JobOnce
<1>5. JobInv'
  BY <1>1, <1>2, <1>3, <1>4 DEF RegistryPart, JobInv
<1>6. JobOnce'
  BY <1>1, <1>4 DEF RegistryPart, JobOnce
<1>7. OneAuditPerRegistration' /\ RegisteredIsUpstream'
  BY <1>3 DEF RegistryPart, OneAuditPerRegistration, RegisteredIsUpstream
<1>8. CallInv'
  <2>1. ~Called(n) /\ Called(n)'
    BY <1>1, <1>2, <1>4 DEF Called
  <2>2. \A m \in ServerNames : m # n /\ Called(m) => Called(m)'
    BY <1>1, <1>3, <1>4 DEF Called
  <2>3. mcpCalls[n] <= faults /\ mcpCalls[n] \in Nat /\ faults \in Nat
    BY <2>1, McpAssumption DEF McpTypeOK, RegistryPart, CallInv
  <2>4. mcpCalls'[n] = mcpCalls[n] + 1 /\ \A m \in ServerNames : m # n => mcpCalls'[m] = mcpCalls[m]
    BY <1>3 DEF McpTypeOK
  <2> QED
    BY <1>3, <2>1, <2>2, <2>3, <2>4 DEF RegistryPart, CallInv
<1> QED
  BY <1>5, <1>6, <1>7, <1>8 DEF RegistryPart

\* The holder records the outcome it saw, once.
LEMMA RegistryRecords ==
    ASSUME McpTypeOK, RegistryPart, NEW p \in Supers, RecordRegistration(p) PROVE RegistryPart'
<1>1. PICK n \in ServerNames : n = job[p].row /\ job[p].pc \in {"registered", "failed"} /\ mcpRow[n] = "pending"
  BY JobShape DEF RecordRegistration, RegistryPart, JobInv
<1>2. /\ UNCHANGED <<upstream, mcpCalls, faults>>
      /\ mcpRow'[n] = job[p].pc /\ mcpAudit'[n] = mcpAudit[n] + 1
      /\ \A m \in ServerNames : m # n => mcpRow'[m] = mcpRow[m] /\ mcpAudit'[m] = mcpAudit[m]
      /\ job'[p].pc = "idle" /\ \A q \in Supers : q # p => job'[q] = job[q]
  BY <1>1 DEF RecordRegistration, McpTypeOK, NoJob
<1>3. \A q \in Supers : q # p /\ job[q].pc # "idle" => job[q].row # n /\ job[q].row \in ServerNames
  BY <1>1, JobShape DEF RegistryPart, JobOnce
<1>4. JobInv'
  BY <1>2, <1>3 DEF RegistryPart, JobInv
<1>5. JobOnce'
  BY <1>2 DEF RegistryPart, JobOnce
<1>6. OneAuditPerRegistration'
  BY <1>1, <1>2 DEF RegistryPart, OneAuditPerRegistration
<1>7. RegisteredIsUpstream'
  BY <1>1, <1>2 DEF RegistryPart, JobInv, RegisteredIsUpstream
<1>8. CallInv'
  <2>1. Called(n)'
    BY <1>1, <1>2 DEF Called
  <2>2. \A m \in ServerNames : m # n /\ Called(m) => Called(m)'
    BY <1>1, <1>2 DEF Called
  <2> QED
    BY <1>2, <2>1, <2>2 DEF RegistryPart, CallInv
<1> QED
  BY <1>4, <1>5, <1>6, <1>7, <1>8 DEF RegistryPart

\* A handler that loses its transaction uses up a fault, which allows the
\* row one more call.
LEMMA RegistryLoses ==
    ASSUME McpTypeOK, RegistryPart, NEW p \in Supers, RegistrationLost(p) PROVE RegistryPart'
<1>1. /\ UNCHANGED <<mcpRow, mcpAudit, upstream, mcpCalls>> /\ faults' = faults + 1 /\ faults \in Nat
      /\ job'[p].pc = "idle" /\ \A q \in Supers : q # p => job'[q] = job[q]
  BY McpAssumption DEF RegistrationLost, Fault, McpTypeOK, NoJob
<1>2. JobInv' /\ JobOnce' /\ OneAuditPerRegistration' /\ RegisteredIsUpstream'
  BY <1>1 DEF RegistryPart, JobInv, JobOnce, OneAuditPerRegistration, RegisteredIsUpstream
<1>3. CallInv'
  <2>1. \A n \in ServerNames : mcpCalls[n] \in Nat
    BY DEF McpTypeOK
  <2> QED
    BY <1>1, <2>1 DEF RegistryPart, CallInv
<1> QED
  BY <1>2, <1>3 DEF RegistryPart

\* Every step of the registration keeps McpInv.
LEMMA RegistryStep == McpInv /\ RegistryNext => McpInv'
<1> SUFFICES ASSUME McpInv, RegistryNext PROVE McpInv'
  OBVIOUS
<1>1. McpTypeOK /\ McpTypeOK' /\ RegistryPart /\ ReconcilePart
  BY RegistryTypes DEF McpInv, RegistryPart, ReconcilePart
<1>2. UNCHANGED reconcileVars
  BY DEF RegistryNext, RegisterMcpServer, ListenDrops, HandleRegistration, RegisterServer,
         RecordRegistration, RegistrationLost
<1>3. RegistryPart'
  <2>1. ASSUME NEW n \in ServerNames, RegisterMcpServer(n) PROVE RegistryPart'
    <3>1. /\ UNCHANGED <<mcpAudit, upstream, mcpCalls, job, faults>> /\ mcpRow[n] = "none" /\ mcpRow'[n] = "pending"
          /\ \A m \in ServerNames : m # n => mcpRow'[m] = mcpRow[m]
      BY <1>1, <2>1 DEF RegisterMcpServer, McpTypeOK
    <3>2. JobInv'
      <4>1. \A p \in Supers : job[p].pc # "idle" => job[p].row \in ServerNames
        BY <1>1, JobShape
      <4> QED
        BY <1>1, <3>1, <4>1 DEF RegistryPart, JobInv
    <3>3. JobOnce' /\ OneAuditPerRegistration' /\ RegisteredIsUpstream'
      BY <1>1, <3>1 DEF RegistryPart, JobOnce, OneAuditPerRegistration, RegisteredIsUpstream
    <3>4. CallInv'
      BY <1>1, <3>1 DEF RegistryPart, CallInv, Called
    <3> QED
      BY <3>2, <3>3, <3>4 DEF RegistryPart
  <2>2. ASSUME NEW p \in Supers, ListenDrops(p) PROVE RegistryPart'
    <3>1. UNCHANGED <<mcpRow, mcpAudit, upstream, mcpCalls, job>> /\ faults' = faults + 1 /\ faults \in Nat
      BY <1>1, <2>2, McpAssumption DEF ListenDrops, Fault, McpTypeOK
    <3>2. JobInv' /\ JobOnce' /\ OneAuditPerRegistration' /\ RegisteredIsUpstream'
      BY <1>1, <3>1 DEF RegistryPart, JobInv, JobOnce, OneAuditPerRegistration, RegisteredIsUpstream
    <3>3. CallInv'
      <4>1. \A n \in ServerNames : mcpCalls[n] \in Nat
        BY <1>1 DEF McpTypeOK
      <4> QED
        BY <1>1, <3>1, <4>1 DEF RegistryPart, CallInv
    <3> QED
      BY <3>2, <3>3 DEF RegistryPart
  <2> QED
    BY <1>1, <2>1, <2>2, RegistryHandles, RegistryCalls, RegistryRecords, RegistryLoses DEF RegistryNext
<1> QED
  BY <1>1, <1>2, <1>3, ReconcileUntouched DEF McpInv, RegistryPart, ReconcilePart

\* Where a visit stands.
LEMMA StepShape ==
    ASSUME McpTypeOK
    PROVE  /\ mcpStep.pc = "idle" <=> mcpStep = NoStep
           /\ mcpStep # NoStep => mcpStep.agent \in McpAgents
           /\ \A pc : [mcpStep EXCEPT !.pc = pc].pc = pc
           /\ \A pc : mcpStep # NoStep => [mcpStep EXCEPT !.pc = pc].agent = mcpStep.agent
           /\ \A pc \in {"vault", "cleanup", "grant"} : mcpStep # NoStep =>
                [mcpStep EXCEPT !.pc = pc] \in [pc: {"create", "vault", "cleanup", "grant"}, agent: McpAgents]
<1>1. mcpStep \in {NoStep} \union [pc: {"create", "vault", "cleanup", "grant"}, agent: McpAgents]
  BY DEF McpTypeOK
<1> QED
  BY <1>1 DEF NoStep

\* Every step of the reconciler keeps McpInv.
LEMMA ReconcileStep == McpInv /\ ReconcileNext => McpInv'
<1> SUFFICES ASSUME McpInv, ReconcileNext PROVE McpInv'
  OBVIOUS
<1> USE McpAssumption
<1>1. McpTypeOK /\ RegistryPart /\ ReconcilePart /\ boots \in Nat /\ faults \in Nat
  BY DEF McpInv, McpTypeOK, RegistryPart, ReconcilePart
<1>2. UNCHANGED registryVars /\ faults' \in {faults, faults + 1} /\ faults' \in 0..MaxFault
  BY <1>1 DEF ReconcileNext, StartReconcile, Visit, CreateMcpClient, WriteSecret, CleanUpClient,
         InsertAgentScopedSecret, ReconcileDies, Fault, McpTypeOK
<1>3. SUFFICES /\ boots' \in 0..MaxBoot /\ todo' \subseteq McpAgents
               /\ mcpStep' \in {NoStep} \union [pc: {"create", "vault", "cleanup", "grant"}, agent: McpAgents]
               /\ client' \in [McpAgents -> 0..MaxBoot] /\ secret' \in [McpAgents -> 0..MaxBoot]
               /\ grant' \subseteq McpAgents /\ ReconcilePart'
  <2>1. McpTypeOK'
    BY <1>1, <1>2, <1>3 DEF McpTypeOK, registryVars
  <2> QED
    BY <1>1, <1>2, <1>3, <2>1, RegistryUntouched DEF McpInv, RegistryPart, ReconcilePart
<1> USE DEF ReconcilePart, VisitInv, GrantedTokenWorks, McpTypeOK
<1>4. CASE StartReconcile
  BY <1>1, <1>4 DEF StartReconcile, NoStep
<1>5. CASE \E a \in McpAgents : Visit(a)
  BY <1>1, <1>5 DEF Visit, NoStep
<1>6. CASE CreateMcpClient
  <2>1. mcpStep # NoStep /\ boots # 0 /\ mcpStep.agent \in McpAgents
    BY <1>1, <1>6, StepShape DEF CreateMcpClient, NoStep
  <2>2. PICK a \in McpAgents : a = mcpStep.agent
    BY <2>1
  <2>3. UNCHANGED <<boots, todo, secret, grant>>
    BY <1>6 DEF CreateMcpClient
  <2>4. CASE client[a] # 0
    BY <1>1, <1>6, <2>1, <2>2, <2>3, <2>4 DEF CreateMcpClient, StepTo, NoStep
  <2>5. CASE client[a] = 0
    <3>1. a \notin grant
      BY <1>1, <2>5
    <3>2. client' \in {client, [client EXCEPT ![a] = boots]} /\ client' \in [McpAgents -> 0..MaxBoot]
          /\ \A b \in grant : client'[b] = client[b]
      BY <1>1, <1>6, <2>2, <2>5, <3>1 DEF CreateMcpClient
    <3>3. \/ mcpStep' = NoStep
          \/ mcpStep' = [mcpStep EXCEPT !.pc = "vault"] /\ client'[a] = boots
      BY <1>1, <1>6, <2>2, <2>5 DEF CreateMcpClient, StepTo
    <3>4. mcpStep' = NoStep \/ (mcpStep'.pc = "vault" /\ mcpStep'.agent = a /\ client'[a] = boots
             /\ mcpStep' \in [pc: {"create", "vault", "cleanup", "grant"}, agent: McpAgents])
      BY <1>1, <2>1, <2>2, <3>3, StepShape
    <3> QED
      BY <1>1, <2>1, <2>3, <3>1, <3>2, <3>4 DEF NoStep
  <2> QED
    BY <2>4, <2>5
<1>7. CASE WriteSecret
  <2>1. /\ mcpStep # NoStep /\ boots # 0 /\ mcpStep.agent \in McpAgents
        /\ client[mcpStep.agent] = boots /\ mcpStep.agent \notin grant
    BY <1>1, <1>7, StepShape DEF WriteSecret, NoStep
  <2>2. PICK a \in McpAgents : a = mcpStep.agent
    BY <2>1
  <2>3. UNCHANGED <<boots, todo, client, grant>>
    BY <1>7 DEF WriteSecret
  <2>4. secret' \in [McpAgents -> 0..MaxBoot] /\ \A b \in grant : secret'[b] = secret[b]
    BY <1>1, <1>7, <2>1, <2>2 DEF WriteSecret
  <2>5. \/ mcpStep' = [mcpStep EXCEPT !.pc = "cleanup"]
        \/ mcpStep' = [mcpStep EXCEPT !.pc = "grant"] /\ secret'[a] = boots
    BY <1>1, <1>7, <2>2 DEF WriteSecret, StepTo
  <2>6. /\ mcpStep'.pc = "cleanup" \/ (mcpStep'.pc = "grant" /\ secret'[a] = boots)
        /\ mcpStep'.agent = a
        /\ mcpStep' \in [pc: {"create", "vault", "cleanup", "grant"}, agent: McpAgents]
    BY <1>1, <2>1, <2>2, <2>5, StepShape
  <2> QED
    BY <1>1, <2>1, <2>2, <2>3, <2>4, <2>6
<1>8. CASE CleanUpClient
  <2>1. mcpStep # NoStep /\ mcpStep.agent \in McpAgents /\ mcpStep.agent \notin grant
    BY <1>1, <1>8, StepShape DEF CleanUpClient, NoStep
  <2>2. client' \in [McpAgents -> 0..MaxBoot] /\ \A b \in grant : client'[b] = client[b]
    BY <1>1, <1>8, <2>1 DEF CleanUpClient
  <2>3. UNCHANGED <<boots, todo, secret, grant>> /\ mcpStep' = NoStep
    BY <1>8 DEF CleanUpClient, StepTo
  <2> QED
    BY <1>1, <2>2, <2>3 DEF NoStep
<1>9. CASE InsertAgentScopedSecret
  <2>1. mcpStep # NoStep /\ mcpStep.agent \in McpAgents /\ boots # 0
        /\ client[mcpStep.agent] = boots /\ secret[mcpStep.agent] = boots
    BY <1>1, <1>9, StepShape DEF InsertAgentScopedSecret, NoStep
  <2>2. UNCHANGED <<boots, todo, client, secret>> /\ mcpStep' = NoStep
        /\ grant' \in {grant, grant \union {mcpStep.agent}}
    BY <1>9 DEF InsertAgentScopedSecret, StepTo
  <2> QED
    BY <1>1, <2>1, <2>2 DEF NoStep
<1>10. CASE ReconcileDies
  BY <1>1, <1>10 DEF ReconcileDies, NoStep
<1> QED
  BY <1>4, <1>5, <1>6, <1>7, <1>8, <1>9, <1>10 DEF ReconcileNext

\* Every step at MCPJungle keeps McpInv.
LEMMA McpInvStep == McpInv /\ [RegistryNext \/ ReconcileNext]_mcpVars => McpInv'
<1> SUFFICES ASSUME McpInv, UNCHANGED mcpVars PROVE McpInv'
  BY RegistryStep, ReconcileStep
<1>1. McpTypeOK /\ McpTypeOK' /\ RegistryPart /\ ReconcilePart /\ faults' = faults /\ faults \in Int
  BY McpAssumption DEF McpInv, McpTypeOK, RegistryPart, ReconcilePart, mcpVars
<1>2. UNCHANGED registryVars /\ UNCHANGED reconcileVars
  BY DEF mcpVars, registryVars, reconcileVars
<1> QED
  BY <1>1, <1>2, RegistryUntouched, ReconcileUntouched DEF McpInv, RegistryPart, ReconcilePart

-----------------------------------------------------------------------------
(* Intake *)

\* The verb's tickets of the week, and the callers past the weekly gate.
VerbTickets(w) == {i \in DOMAIN w : w[i] = "verb"}
AllowedCallers(at) == {c \in Creators : at[c] = "allowed"}

Origins == {"ingress", "verb"}

\* A ticket more, a ticket less.
LEMMA VerbTicketsFinite ==
    ASSUME NEW w \in Seq(Origins)
    PROVE  /\ IsFiniteSet(VerbTickets(w)) /\ Cardinality(VerbTickets(w)) \in Nat
           /\ Cardinality(VerbTickets(w)) <= Len(w)
<1>1. Len(w) \in Nat /\ VerbTickets(w) \subseteq 1..Len(w)
  BY DEF VerbTickets
<1>2. \A n \in Nat : IsFiniteSet(1..n) /\ Cardinality(1..n) = n
  <2> SUFFICES ASSUME NEW n \in Nat PROVE IsFiniteSet(1..n) /\ Cardinality(1..n) = n
    OBVIOUS
  <2> QED
    BY FS_Interval, 1 \in Int, n \in Int
<1>3. IsFiniteSet(VerbTickets(w)) /\ Cardinality(VerbTickets(w)) <= Len(w)
  BY <1>1, <1>2, FS_Subset
<1> QED
  BY <1>3, FS_CardinalityType

\* A new ticket is one more of the verb, or none more for the ingress.
LEMMA VerbTicketsAppend ==
    ASSUME NEW w \in Seq(Origins)
    PROVE  /\ Cardinality(VerbTickets(Append(w, "verb"))) = Cardinality(VerbTickets(w)) + 1
           /\ VerbTickets(Append(w, "ingress")) = VerbTickets(w)
           /\ \A o \in Origins : Append(w, o) \in Seq(Origins) /\ Len(Append(w, o)) = Len(w) + 1
<1>1. \A o \in Origins : Append(w, o) \in Seq(Origins) /\ Len(Append(w, o)) = Len(w) + 1
  BY DEF Origins
<1>2. VerbTickets(Append(w, "verb")) = VerbTickets(w) \union {Len(w) + 1}
  BY DEF VerbTickets
<1>3. VerbTickets(Append(w, "ingress")) = VerbTickets(w)
  BY DEF VerbTickets
<1>4. Len(w) + 1 \notin VerbTickets(w)
  BY DEF VerbTickets
<1> QED
  BY <1>1, <1>2, <1>3, <1>4, VerbTicketsFinite, FS_AddElement

\* The oldest ticket leaves the week.
LEMMA VerbTicketsTail ==
    ASSUME NEW w \in Seq(Origins), w # <<>>
    PROVE  /\ Tail(w) \in Seq(Origins) /\ Len(Tail(w)) = Len(w) - 1
           /\ Cardinality(VerbTickets(Tail(w))) <= Cardinality(VerbTickets(w))
<1>1. Tail(w) \in Seq(Origins) /\ Len(Tail(w)) = Len(w) - 1
  OBVIOUS
<1>2. \A i \in 1..(Len(w) - 1) : Tail(w)[i] = w[i + 1]
  OBVIOUS
<1> DEFINE f == [i \in VerbTickets(Tail(w)) |-> i + 1]
<1>3. \A i \in VerbTickets(Tail(w)) : i \in Int /\ i + 1 \in VerbTickets(w)
  BY <1>1, <1>2 DEF VerbTickets
<1>4. f \in Injection(VerbTickets(Tail(w)), VerbTickets(w))
  BY <1>3 DEF Injection, IsInjective
<1>5. Cardinality(VerbTickets(Tail(w))) <= Cardinality(VerbTickets(w))
  BY <1>4, VerbTicketsFinite, FS_Injection
<1> QED
  BY <1>1, <1>5

\* One caller more, one caller less, never more than there are.
LEMMA AllowedFinite ==
    ASSUME NEW at
    PROVE  /\ IsFiniteSet(AllowedCallers(at))
           /\ Cardinality(AllowedCallers(at)) \in Nat
           /\ Cardinality(AllowedCallers(at)) <= Cardinality(Creators) 
           /\ Cardinality(Creators) \in Nat \ {0}
<1>1. AllowedCallers(at) \subseteq Creators /\ IsFiniteSet(Creators) /\ Creators # {}
  BY IntakeAssumption DEF AllowedCallers
<1> QED
  BY <1>1, FS_Subset, FS_CardinalityType, FS_EmptySet

\* One more caller that passed the gate.
LEMMA AllowedAdd ==
    ASSUME NEW at \in [Creators -> {"idle", "allowed", "rejected"}], NEW c \in Creators,
           at[c] # "allowed"
    PROVE  /\ Cardinality(AllowedCallers([at EXCEPT ![c] = "allowed"])) = Cardinality(AllowedCallers(at)) + 1
           /\ \A s : s # "allowed" => AllowedCallers([at EXCEPT ![c] = s]) = AllowedCallers(at)
<1>1. c \notin AllowedCallers(at)
  BY DEF AllowedCallers
<1>2. AllowedCallers([at EXCEPT ![c] = "allowed"]) = AllowedCallers(at) \union {c}
  BY DEF AllowedCallers
<1>3. \A s : s # "allowed" => AllowedCallers([at EXCEPT ![c] = s]) = AllowedCallers(at)
  BY DEF AllowedCallers
<1> QED
  BY <1>1, <1>2, <1>3, AllowedFinite, FS_AddElement

\* One caller less between the gate and its insert.
LEMMA AllowedRemove ==
    ASSUME NEW at \in [Creators -> {"idle", "allowed", "rejected"}], NEW c \in Creators,
           at[c] = "allowed"
    PROVE  Cardinality(AllowedCallers([at EXCEPT ![c] = "idle"])) = Cardinality(AllowedCallers(at)) - 1
<1>1. c \in AllowedCallers(at)
  BY DEF AllowedCallers
<1>2. AllowedCallers([at EXCEPT ![c] = "idle"]) = AllowedCallers(at) \ {c}
  BY DEF AllowedCallers
<1> QED
  BY <1>1, <1>2, AllowedFinite, FS_RemoveElement

\* A request record; its delivery id is empty only before the first request.
HttpType ==
    /\ http \in [Requests -> [pc: {"none", "read", "verified", "mapped", "inserted"} \union Answers,
                              guid: Guids \union {""}, kind: Kinds]]
    /\ \A r \in Requests : http[r].pc # "none" => http[r].guid \in Guids

\* The unique index: one open insert per delivery, and none of a recorded one.
InsertInv ==
    /\ \A r \in Requests : http[r].pc = "inserted" => http[r].guid \notin deliveries
    /\ \A r, k \in Requests :
         http[r].pc = "inserted" /\ http[k].pc = "inserted" /\ http[r].guid = http[k].guid => r = k

\* The week plus the callers about to add to it: whoever passed the gate saw
\* a week with room for one.
WeekInv ==
    Cardinality(VerbTickets(week)) + Cardinality(AllowedCallers(creating))
        <= WeeklyBudget + Cardinality(Creators) - 1

\* The week holds no more than was made, and what was made is within bounds.
WeekBounds ==
    /\ week \in Seq(Origins) /\ deliveries \subseteq Guids
    /\ Len(week) <= intakeBounds.created + Cardinality(deliveries)
    /\ intakeBounds.created + Cardinality(AllowedCallers(creating)) <= MaxCreated

IntakeRest ==
    /\ tokens \in 0..Burst
    /\ ingressMade \in [Guids -> Nat]
    /\ creating \in [Creators -> {"idle", "allowed", "rejected"}]
    /\ intakeBounds \in [created: 0..MaxCreated, noise: 0..MaxNoise, faults: 0..MaxIntakeFault]

\* What the webhook side knows.
WebhookInv == HttpType /\ InsertInv /\ OneTicketPerDelivery /\ AnswersAreTrue

IntakeInv == IntakeRest /\ WebhookInv /\ WeekInv /\ WeekBounds

\* IntakeInv implies what is checked of the intake.
LEMMA IntakeSafe == IntakeInv => IntakeTypeOK /\ IntakeIsCounted
<1> SUFFICES ASSUME IntakeInv PROVE IntakeTypeOK /\ IntakeIsCounted
  OBVIOUS
<1>1. IsFiniteSet(Guids) /\ Cardinality(Guids) \in Nat /\ deliveries \subseteq Guids
  BY IntakeAssumption, FS_CardinalityType DEF IntakeInv, WeekBounds
<1>2. Cardinality(deliveries) \in Nat /\ Cardinality(deliveries) <= Cardinality(Guids)
  BY <1>1, FS_Subset, FS_CardinalityType
<1>3. /\ Cardinality(AllowedCallers(creating)) \in Nat /\ Cardinality(VerbTickets(week)) \in Nat
      /\ Cardinality(Creators) \in Nat /\ Len(week) \in Nat /\ intakeBounds.created \in Nat
  BY AllowedFinite, VerbTicketsFinite, IntakeAssumption DEF IntakeInv, WeekBounds, IntakeRest
<1>4. WeeklyOvershoot
  BY <1>3, IntakeAssumption DEF IntakeInv, WeekInv, WeeklyOvershoot, VerbTickets
<1>5. Len(week) <= MaxCreated + Cardinality(Guids)
  BY <1>1, <1>2, <1>3, IntakeAssumption DEF IntakeInv, WeekBounds
<1>6. \A r \in Requests :
        /\ http[r].pc \in {"none", "read", "verified", "mapped", "inserted"} \union Answers
        /\ http[r].kind \in Kinds
        /\ http[r].pc # "none" => http[r].guid \in Guids
  BY DEF IntakeInv, WebhookInv, HttpType
<1>7. IntakeTypeOK
  BY <1>1, <1>5, <1>6 DEF IntakeInv, IntakeTypeOK, WeekBounds, IntakeRest, Origins
<1> QED
  BY <1>4, <1>7 DEF IntakeInv, WebhookInv, IntakeIsCounted

\* Nothing was sent or made yet.
LEMMA IntakeInvInit == IntakeInit => IntakeInv
<1> SUFFICES ASSUME IntakeInit PROVE IntakeInv
  OBVIOUS
<1> USE IntakeAssumption
<1>1. IntakeRest
  BY DEF IntakeInit, IntakeRest
<1>2. WebhookInv
  <2>1. NoRequest \in [pc: {"none", "read", "verified", "mapped", "inserted"} \union Answers,
                       guid: Guids \union {""}, kind: Kinds] /\ NoRequest.pc = "none"
    BY DEF NoRequest, Kinds
  <2>2. \A r \in Requests : http[r] = NoRequest
    BY DEF IntakeInit
  <2>3. HttpType
    BY <2>1, <2>2 DEF IntakeInit, HttpType
  <2>4. InsertInv /\ AnswersAreTrue
    BY <2>1, <2>2 DEF InsertInv, AnswersAreTrue
  <2>5. OneTicketPerDelivery
    BY DEF IntakeInit, OneTicketPerDelivery
  <2> QED
    BY <2>3, <2>4, <2>5 DEF WebhookInv
<1>3. VerbTickets(week) = {} /\ AllowedCallers(creating) = {} /\ week \in Seq(Origins) /\ Len(week) = 0
  BY DEF IntakeInit, VerbTickets, AllowedCallers
<1>4. Cardinality({}) = 0 /\ Cardinality(Creators) \in Nat \ {0}
  BY FS_EmptySet, AllowedFinite
<1>5. WeekInv
  BY <1>3, <1>4 DEF WeekInv
<1>6. WeekBounds
  <2>1. deliveries = {} /\ intakeBounds.created = 0
    BY DEF IntakeInit
  <2> QED
    BY <1>3, <1>4, <2>1 DEF WeekBounds
<1> QED
  BY <1>1, <1>2, <1>5, <1>6 DEF IntakeInv

\* A request that only changes its own place in the handler, outside the
\* transaction and without an answer that promises a ticket.
LEMMA RequestMoves ==
    ASSUME WebhookInv, NEW r \in Requests, UNCHANGED <<deliveries, ingressMade>>,
           NEW w \in [pc: {"none", "read", "verified", "mapped"} \union Answers, guid: Guids, kind: Kinds],
           http' = [http EXCEPT ![r] = w], 
           w.pc \in {"202", "duplicate"} => ingressMade[w.guid] = 1
    PROVE  WebhookInv'
<1>1. HttpType'
  BY DEF WebhookInv, HttpType
<1>2. http'[r] = w /\ w.pc # "inserted" /\ \A k \in Requests : k # r => http'[k] = http[k]
  BY DEF WebhookInv, HttpType, Answers
<1>3. InsertInv'
  BY <1>2 DEF WebhookInv, InsertInv
<1>4. OneTicketPerDelivery' /\ AnswersAreTrue'
  BY <1>2 DEF WebhookInv, OneTicketPerDelivery, AnswersAreTrue
<1> QED
  BY <1>1, <1>3, <1>4 DEF WebhookInv

\* The same for a reply of the handler.
LEMMA RequestReplies ==
    ASSUME WebhookInv, NEW r \in Requests, http[r].pc # "none", UNCHANGED <<deliveries, ingressMade>>,
           NEW code \in {"verified", "mapped"} \union Answers, Reply(r, code),
           code \in {"202", "duplicate"} => ingressMade[http[r].guid] = 1
    PROVE  WebhookInv'
<1>1. /\ http[r] \in [pc: {"none", "read", "verified", "mapped", "inserted"} \union Answers,
                      guid: Guids \union {""}, kind: Kinds]
      /\ http[r].guid \in Guids
  BY DEF WebhookInv, HttpType
<1>2. PICK w : w = [http[r] EXCEPT !.pc = code]
  OBVIOUS
<1>3. w \in [pc: {"none", "read", "verified", "mapped"} \union Answers, guid: Guids, kind: Kinds]
      /\ w.pc = code /\ w.guid = http[r].guid
  BY <1>1, <1>2
<1>4. http' = [http EXCEPT ![r] = w]
  BY <1>2 DEF Reply
<1> QED
  BY <1>3, <1>4, RequestMoves

\* Every step of the intake keeps what the webhook side knows.
LEMMA WebhookStep == IntakeRest /\ WebhookInv /\ IntakeNext => WebhookInv'
<1> SUFFICES ASSUME IntakeRest, WebhookInv, IntakeNext PROVE WebhookInv'
  OBVIOUS
<1>1. ASSUME NEW r \in Requests, NEW g \in Guids, Deliver(r, g) PROVE WebhookInv'
  <2>1. [pc |-> "read", guid |-> g, kind |-> "issue"]
          \in [pc: {"none", "read", "verified", "mapped"} \union Answers, guid: Guids, kind: Kinds]
    BY DEF Kinds
  <2>2. UNCHANGED <<deliveries, ingressMade>>
        /\ http' = [http EXCEPT ![r] = [pc |-> "read", guid |-> g, kind |-> "issue"]]
    BY <1>1 DEF Deliver
  <2> QED
    BY <2>1, <2>2, RequestMoves
<1>2. ASSUME NEW r \in Requests, NEW g \in Guids, NEW kind \in Kinds, DeliverOther(r, g, kind) PROVE WebhookInv'
  <2>1. [pc |-> "read", guid |-> g, kind |-> kind]
          \in [pc: {"none", "read", "verified", "mapped"} \union Answers, guid: Guids, kind: Kinds]
    OBVIOUS
  <2>2. UNCHANGED <<deliveries, ingressMade>>
        /\ http' = [http EXCEPT ![r] = [pc |-> "read", guid |-> g, kind |-> kind]]
    BY <1>2 DEF DeliverOther
  <2> QED
    BY <2>1, <2>2, RequestMoves
<1>3. ASSUME NEW r \in Requests, Authenticate(r) PROVE WebhookInv'
  <2>1. PICK code \in {"200", "401", "verified"} : Reply(r, code)
    BY <1>3 DEF Authenticate
  <2>2. http[r].pc # "none" /\ UNCHANGED <<deliveries, ingressMade>>
        /\ code \in {"verified", "mapped"} \union Answers /\ code \notin {"202", "duplicate"}
    BY <1>3 DEF Authenticate, Answers
  <2> QED
    BY <2>1, <2>2, RequestReplies
<1>4. ASSUME NEW r \in Requests, FilterAndCap(r) PROVE WebhookInv'
  <2>1. PICK code \in {"400", "200", "429", "500", "mapped"} : Reply(r, code)
    BY <1>4 DEF FilterAndCap, OverCap, MapEvent
  <2>2. http[r].pc # "none" /\ UNCHANGED <<deliveries, ingressMade>>
        /\ code \in {"verified", "mapped"} \union Answers /\ code \notin {"202", "duplicate"}
    BY <1>4 DEF FilterAndCap, OverCap, Answers
  <2> QED
    BY <2>1, <2>2, RequestReplies
<1>5. ASSUME NEW r \in Requests, IngressTxBegins(r) PROVE WebhookInv'
  <2>1. PICK g \in Guids : g = http[r].guid
    BY <1>5 DEF IngressTxBegins, WebhookInv, HttpType
  <2>2. UNCHANGED <<deliveries, ingressMade>> /\ http[r].pc # "none"
        /\ \A k \in Requests : k # r => ~(http[k].pc = "inserted" /\ http[k].guid = g)
    BY <1>5, <2>1 DEF IngressTxBegins, InsertDelivery
  <2>3. CASE g \in deliveries
    <3>1. Reply(r, "duplicate") /\ ingressMade[g] = 1
      BY <1>5, <2>1, <2>3 DEF IngressTxBegins, InsertDelivery, WebhookInv, OneTicketPerDelivery
    <3> QED
      BY <2>1, <2>2, <3>1, RequestReplies DEF Answers
  <2>4. CASE g \notin deliveries
    <3>1. http' = [http EXCEPT ![r].pc = "inserted"]
      BY <1>5, <2>1, <2>4 DEF IngressTxBegins, InsertDelivery, Reply
    <3>2. /\ http[r] \in [pc: {"none", "read", "verified", "mapped", "inserted"} \union Answers,
                          guid: Guids \union {""}, kind: Kinds]
          /\ http \in [Requests -> [pc: {"none", "read", "verified", "mapped", "inserted"} \union Answers,
                          guid: Guids \union {""}, kind: Kinds]]
      BY DEF WebhookInv, HttpType
    <3>3. http'[r].pc = "inserted" /\ http'[r].guid = g /\ \A k \in Requests : k # r => http'[k] = http[k]
      BY <2>1, <3>1, <3>2
    <3>4. http' \in [Requests -> [pc: {"none", "read", "verified", "mapped", "inserted"} \union Answers,
                                  guid: Guids \union {""}, kind: Kinds]]
      BY <3>1, <3>2
    <3>5. HttpType'
      BY <2>1, <3>3, <3>4 DEF WebhookInv, HttpType
    <3>6. InsertInv'
      BY <2>2, <2>4, <3>3 DEF WebhookInv, InsertInv
    <3>7. OneTicketPerDelivery' /\ AnswersAreTrue'
      BY <2>2, <3>3 DEF WebhookInv, OneTicketPerDelivery, AnswersAreTrue
    <3> QED
      BY <3>5, <3>6, <3>7 DEF WebhookInv
  <2> QED
    BY <2>3, <2>4
<1>6. ASSUME NEW r \in Requests, IngressTxCommits(r) PROVE WebhookInv'
  <2>1. PICK g \in Guids : g = http[r].guid /\ g \notin deliveries
    BY <1>6 DEF IngressTxCommits, WebhookInv, HttpType, InsertInv
  <2>2. /\ deliveries' = deliveries \union {g} /\ http' = [http EXCEPT ![r].pc = "202"]
        /\ http[r].pc = "inserted" /\ ingressMade[g] \in Nat
        /\ ingressMade'[g] = ingressMade[g] + 1 /\ \A h \in Guids : h # g => ingressMade'[h] = ingressMade[h]
    BY <1>6, <2>1 DEF IngressTxCommits, Reply, IntakeRest
  <2>3. /\ http[r] \in [pc: {"none", "read", "verified", "mapped", "inserted"} \union Answers,
                        guid: Guids \union {""}, kind: Kinds]
        /\ http \in [Requests -> [pc: {"none", "read", "verified", "mapped", "inserted"} \union Answers,
                        guid: Guids \union {""}, kind: Kinds]]
    BY DEF WebhookInv, HttpType
  <2>4. http'[r].pc = "202" /\ http'[r].guid = g /\ \A k \in Requests : k # r => http'[k] = http[k]
    BY <2>1, <2>2, <2>3
  <2>5. http' \in [Requests -> [pc: {"none", "read", "verified", "mapped", "inserted"} \union Answers,
                                guid: Guids \union {""}, kind: Kinds]]
    BY <2>2, <2>3 DEF Answers
  <2>6. HttpType'
    BY <2>1, <2>4, <2>5 DEF WebhookInv, HttpType
  <2>7. InsertInv'
    BY <2>1, <2>2, <2>4 DEF WebhookInv, InsertInv
  <2>8. ingressMade[g] = 0
    BY <2>1, <2>2 DEF WebhookInv, OneTicketPerDelivery
  <2>9. OneTicketPerDelivery'
    BY <2>1, <2>2, <2>8 DEF WebhookInv, OneTicketPerDelivery
  <2>10. AnswersAreTrue'
    <3> SUFFICES ASSUME NEW k \in Requests, http'[k].pc \in {"202", "duplicate"}
                 PROVE  ingressMade'[http'[k].guid] = 1
      BY DEF AnswersAreTrue
    <3>1. http'[k].guid \in Guids
      BY <2>6 DEF HttpType
    <3> QED
      BY <2>2, <2>4, <2>8, <3>1 DEF WebhookInv, AnswersAreTrue
  <2> QED
    BY <2>6, <2>7, <2>9, <2>10 DEF WebhookInv
<1>7. ASSUME NEW r \in Requests, IngressTxFails(r) PROVE WebhookInv'
  <2>1. http[r].pc # "none" /\ UNCHANGED <<deliveries, ingressMade>> /\ Reply(r, "500")
        /\ "500" \in {"verified", "mapped"} \union Answers
    BY <1>7 DEF IngressTxFails, Rollback, Answers
  <2> QED
    BY <2>1, RequestReplies
<1>8. CASE IntakeRestart
  <2>1. UNCHANGED <<deliveries, ingressMade>>
        /\ http' = [r \in Requests |-> IF InHandler(r) THEN NoRequest ELSE http[r]]
    BY <1>8 DEF IntakeRestart
  <2>2. NoRequest \in [pc: {"none", "read", "verified", "mapped", "inserted"} \union Answers,
                       guid: Guids \union {""}, kind: Kinds] /\ NoRequest.pc = "none"
    BY DEF NoRequest, Kinds
  <2>3. \A r \in Requests : http'[r].pc = "none" \/ (http'[r] = http[r] /\ http[r].pc # "inserted")
    BY <2>1, <2>2 DEF InHandler
  <2>4. HttpType'
    BY <2>1, <2>2, <2>3 DEF WebhookInv, HttpType
  <2>5. InsertInv'
    BY <2>3 DEF InsertInv
  <2>6. OneTicketPerDelivery' /\ AnswersAreTrue'
    BY <2>1, <2>3 DEF WebhookInv, OneTicketPerDelivery, AnswersAreTrue
  <2> QED
    BY <2>4, <2>5, <2>6 DEF WebhookInv
<1>9. CASE UNCHANGED <<http, deliveries, ingressMade>>
  BY <1>9 DEF WebhookInv, HttpType, InsertInv, OneTicketPerDelivery, AnswersAreTrue
<1> QED
  BY <1>1, <1>2, <1>3, <1>4, <1>5, <1>6, <1>7, <1>8, <1>9
     DEF IntakeNext, HandlerStep, Refill, PrepCreateTicket, InsertTicketM8, WriteDeptWeeklyRejection, WeekPasses

\* A step that touches neither the week nor the callers, the callers' count
\* or the deliveries.
LEMMA WeekUntouched ==
    ASSUME WeekInv, WeekBounds, UNCHANGED <<week, creating, deliveries>>,
           intakeBounds'.created = intakeBounds.created
    PROVE  WeekInv' /\ WeekBounds'
  BY DEF WeekInv, WeekBounds

\* Every step of the intake keeps the types and the count of the week.
LEMMA WeekStep == IntakeInv /\ IntakeNext => IntakeRest' /\ WeekInv' /\ WeekBounds'
<1> SUFFICES ASSUME IntakeInv, IntakeNext PROVE IntakeRest' /\ WeekInv' /\ WeekBounds'
  OBVIOUS
<1> USE IntakeAssumption
<1>1. IntakeRest /\ WebhookInv /\ WeekInv /\ WeekBounds
  BY DEF IntakeInv
<1>2. /\ intakeBounds.created \in 0..MaxCreated /\ intakeBounds.noise \in 0..MaxNoise
      /\ intakeBounds.faults \in 0..MaxIntakeFault
      /\ intakeBounds = [created |-> intakeBounds.created, noise |-> intakeBounds.noise, faults |-> intakeBounds.faults]
  BY <1>1 DEF IntakeRest
<1>3. /\ Cardinality(AllowedCallers(creating)) \in Nat /\ Cardinality(AllowedCallers(creating)) <= Cardinality(Creators)
      /\ Cardinality(Creators) \in Nat \ {0}
      /\ Cardinality(VerbTickets(week)) \in Nat /\ Cardinality(VerbTickets(week)) <= Len(week) /\ Len(week) \in Nat
  BY <1>1, AllowedFinite, VerbTicketsFinite DEF WeekBounds
<1>4. IsFiniteSet(deliveries) /\ Cardinality(deliveries) \in Nat
  BY <1>1, FS_Subset, FS_CardinalityType DEF WeekBounds
<1>5. CASE \E r \in Requests :
              \/ \E g \in Guids : Deliver(r, g)
              \/ Authenticate(r) \/ FilterAndCap(r) \/ IngressTxBegins(r)
  <2>1. UNCHANGED <<week, creating, deliveries, ingressMade, intakeBounds>> /\ tokens' \in {tokens, tokens - 1}
        /\ (tokens' # tokens => tokens > 0)
    BY <1>5 DEF Deliver, Authenticate, FilterAndCap, OverCap, IngressTxBegins
  <2> QED
    BY <1>1, <2>1, WeekUntouched DEF IntakeRest
<1>6. CASE \E r \in Requests, g \in Guids, kind \in Kinds : DeliverOther(r, g, kind)
  <2>1. UNCHANGED <<week, creating, deliveries, ingressMade, tokens>> /\ intakeBounds.noise < MaxNoise
        /\ intakeBounds' = [intakeBounds EXCEPT !.noise = @ + 1]
    BY <1>6 DEF DeliverOther
  <2>2. intakeBounds'.created = intakeBounds.created
        /\ intakeBounds' \in [created: 0..MaxCreated, noise: 0..MaxNoise, faults: 0..MaxIntakeFault]
    BY <1>2, <2>1
  <2> QED
    BY <1>1, <2>1, <2>2, WeekUntouched DEF IntakeRest
<1>7. CASE \E r \in Requests : IngressTxFails(r)
  <2>1. UNCHANGED <<week, creating, deliveries, ingressMade, tokens>> /\ IntakeFault
    BY <1>7 DEF IngressTxFails, Rollback
  <2>2. intakeBounds'.created = intakeBounds.created
        /\ intakeBounds' \in [created: 0..MaxCreated, noise: 0..MaxNoise, faults: 0..MaxIntakeFault]
    BY <1>2, <2>1 DEF IntakeFault
  <2> QED
    BY <1>1, <2>1, <2>2, WeekUntouched DEF IntakeRest
<1>8. CASE \E r \in Requests : IngressTxCommits(r)
  <2>1. PICK g \in Guids : /\ g \notin deliveries /\ deliveries' = deliveries \union {g}
                           /\ week' = Append(week, "ingress")
                           /\ ingressMade' = [ingressMade EXCEPT ![g] = @ + 1]
                           /\ UNCHANGED <<tokens, creating, intakeBounds>>
    <3>1. PICK r \in Requests : IngressTxCommits(r)
      BY <1>8
    <3>2. http[r].guid \in Guids /\ http[r].guid \notin deliveries
      BY <1>1, <3>1 DEF IngressTxCommits, WebhookInv, HttpType, InsertInv
    <3> QED
      BY <3>1, <3>2 DEF IngressTxCommits
  <2>2. IntakeRest'
    BY <1>1, <2>1 DEF IntakeRest
  <2>3. VerbTickets(week') = VerbTickets(week) /\ week' \in Seq(Origins) /\ Len(week') = Len(week) + 1
    BY <1>1, <2>1, VerbTicketsAppend DEF WeekBounds, Origins
  <2>4. Cardinality(deliveries') = Cardinality(deliveries) + 1 /\ deliveries' \subseteq Guids
    BY <1>1, <1>4, <2>1, FS_AddElement DEF WeekBounds
  <2>5. WeekInv'
    BY <1>1, <2>1, <2>3 DEF WeekInv
  <2>6. WeekBounds'
    BY <1>1, <1>2, <1>3, <1>4, <2>1, <2>3, <2>4 DEF WeekBounds
  <2> QED
    BY <2>2, <2>5, <2>6
<1>9. CASE Refill
  <2>1. UNCHANGED <<week, creating, deliveries, ingressMade, intakeBounds>> /\ tokens' \in 0..Burst
    BY <1>1, <1>9 DEF Refill, Refilled, IntakeRest
  <2> QED
    BY <1>1, <2>1, WeekUntouched DEF IntakeRest
<1>10. CASE IntakeRestart
  <2>1. UNCHANGED <<week, deliveries, ingressMade>> /\ tokens' = Burst /\ IntakeFault
        /\ creating' = [c \in Creators |-> "idle"]
    BY <1>10 DEF IntakeRestart
  <2>2. intakeBounds'.created = intakeBounds.created
        /\ intakeBounds' \in [created: 0..MaxCreated, noise: 0..MaxNoise, faults: 0..MaxIntakeFault]
    BY <1>2, <2>1 DEF IntakeFault
  <2>3. AllowedCallers(creating') = {}
    BY <2>1 DEF AllowedCallers
  <2>4. Cardinality(AllowedCallers(creating')) = 0
    BY <2>3, FS_EmptySet
  <2>5. WeekInv' /\ WeekBounds'
    BY <1>1, <1>2, <1>3, <2>1, <2>2, <2>4 DEF WeekInv, WeekBounds
  <2> QED
    BY <1>1, <2>1, <2>2, <2>5 DEF IntakeRest
<1>11. ASSUME NEW c \in Creators, PrepCreateTicket(c) PROVE IntakeRest' /\ WeekInv' /\ WeekBounds'
  <2>1. UNCHANGED <<tokens, deliveries, ingressMade, week, intakeBounds>> /\ creating[c] # "allowed"
        /\ intakeBounds.created + Cardinality(AllowedCallers(creating)) < MaxCreated
    BY <1>11 DEF PrepCreateTicket, AllowedCallers
  <2>2. CASE DeptWeeklyAllows(Len(week))
    <3>1. creating' = [creating EXCEPT ![c] = "allowed"]
      BY <1>11, <2>2 DEF PrepCreateTicket
    <3>2. Cardinality(AllowedCallers(creating')) = Cardinality(AllowedCallers(creating)) + 1
      BY <1>1, <2>1, <3>1, AllowedAdd DEF IntakeRest
    <3>3. Cardinality(AllowedCallers(creating')) <= Cardinality(Creators)
      BY AllowedFinite
    <3>4. Cardinality(VerbTickets(week)) + 1 <= WeeklyBudget
      BY <1>3, <2>2 DEF DeptWeeklyAllows
    <3>5. WeekInv'
      BY <1>3, <2>1, <3>2, <3>3, <3>4 DEF WeekInv
    <3>6. WeekBounds'
      BY <1>1, <1>2, <1>3, <2>1, <3>2 DEF WeekBounds
    <3> QED
      BY <1>1, <2>1, <3>1, <3>5, <3>6 DEF IntakeRest
  <2>3. CASE ~DeptWeeklyAllows(Len(week))
    <3>1. creating' = [creating EXCEPT ![c] = "rejected"]
      BY <1>11, <2>3 DEF PrepCreateTicket
    <3>2. AllowedCallers(creating') = AllowedCallers(creating)
      BY <1>1, <2>1, <3>1, AllowedAdd DEF IntakeRest
    <3> QED
      BY <1>1, <2>1, <3>1, <3>2 DEF IntakeRest, WeekInv, WeekBounds
  <2> QED
    BY <2>2, <2>3
<1>12. ASSUME NEW c \in Creators, InsertTicketM8(c) PROVE IntakeRest' /\ WeekInv' /\ WeekBounds'
  <2>1. UNCHANGED <<tokens, deliveries, ingressMade>> /\ creating[c] = "allowed"
        /\ creating' = [creating EXCEPT ![c] = "idle"] /\ week' = Append(week, "verb")
        /\ intakeBounds' = [intakeBounds EXCEPT !.created = @ + 1]
    BY <1>12 DEF InsertTicketM8
  <2>2. Cardinality(AllowedCallers(creating')) = Cardinality(AllowedCallers(creating)) - 1
    BY <1>1, <2>1, AllowedRemove DEF IntakeRest
  <2>3. Cardinality(AllowedCallers(creating')) \in Nat
    BY AllowedFinite
  <2>4. Cardinality(VerbTickets(week')) = Cardinality(VerbTickets(week)) + 1
        /\ week' \in Seq(Origins) /\ Len(week') = Len(week) + 1
    BY <1>1, <2>1, VerbTicketsAppend DEF WeekBounds, Origins
  <2>5. intakeBounds'.created = intakeBounds.created + 1 /\ intakeBounds'.created <= MaxCreated
    BY <1>1, <1>2, <1>3, <2>1, <2>2, <2>3 DEF WeekBounds
  <2>6. intakeBounds' \in [created: 0..MaxCreated, noise: 0..MaxNoise, faults: 0..MaxIntakeFault]
    BY <1>2, <2>1, <2>5
  <2>7. IntakeRest'
    BY <1>1, <2>1, <2>6 DEF IntakeRest
  <2>8. WeekInv'
    BY <1>1, <1>3, <2>2, <2>4 DEF WeekInv
  <2>9. WeekBounds'
    <3>1. /\ Len(week) <= intakeBounds.created + Cardinality(deliveries)
          /\ intakeBounds.created + Cardinality(AllowedCallers(creating)) <= MaxCreated
          /\ deliveries \subseteq Guids /\ intakeBounds.created \in Nat
      BY <1>1, <1>2 DEF WeekBounds
    <3>2. /\ Len(week') <= intakeBounds'.created + Cardinality(deliveries)
          /\ intakeBounds'.created + Cardinality(AllowedCallers(creating')) <= MaxCreated
      BY ONLY <1>3, <1>4, <2>2, <2>4, <2>5, <3>1, IntakeAssumption
    <3> QED
      BY ONLY <2>1, <2>4, <3>1, <3>2 DEF WeekBounds
  <2> QED
    BY <2>7, <2>8, <2>9
<1>13. ASSUME NEW c \in Creators, WriteDeptWeeklyRejection(c) PROVE IntakeRest' /\ WeekInv' /\ WeekBounds'
  <2>1. UNCHANGED <<tokens, deliveries, ingressMade, week, intakeBounds>> /\ creating[c] # "allowed"
        /\ creating' = [creating EXCEPT ![c] = "idle"]
    BY <1>13 DEF WriteDeptWeeklyRejection
  <2>2. AllowedCallers(creating') = AllowedCallers(creating)
    BY <1>1, <2>1, AllowedAdd DEF IntakeRest
  <2> QED
    BY <1>1, <2>1, <2>2 DEF IntakeRest, WeekInv, WeekBounds
<1>14. CASE WeekPasses
  <2>1. UNCHANGED <<tokens, deliveries, ingressMade, creating, intakeBounds>> /\ week # <<>> /\ week' = Tail(week)
    BY <1>14 DEF WeekPasses
  <2>2. /\ week' \in Seq(Origins) /\ Len(week') = Len(week) - 1
        /\ Cardinality(VerbTickets(week')) <= Cardinality(VerbTickets(week))
    BY <1>1, <2>1, VerbTicketsTail DEF WeekBounds
  <2>3. Cardinality(VerbTickets(week')) \in Nat
    BY <2>2, VerbTicketsFinite
  <2>4. WeekInv'
    BY <1>1, <1>3, <2>1, <2>2, <2>3 DEF WeekInv
  <2>5. WeekBounds'
    BY <1>1, <1>2, <1>3, <1>4, <2>1, <2>2 DEF WeekBounds
  <2> QED
    BY <1>1, <2>1, <2>4, <2>5 DEF IntakeRest
<1> QED
  BY <1>5, <1>6, <1>7, <1>8, <1>9, <1>10, <1>11, <1>12, <1>13, <1>14 DEF IntakeNext, HandlerStep

\* Every step of the intake keeps IntakeInv.
LEMMA IntakeInvStep == IntakeInv /\ [IntakeNext]_intakeVars => IntakeInv'
<1>1. IntakeInv /\ IntakeNext => IntakeInv'
  BY WebhookStep, WeekStep DEF IntakeInv
<1>2. ASSUME IntakeInv, UNCHANGED intakeVars PROVE IntakeInv'
  <2>1. IntakeRest' /\ WebhookInv'
    BY <1>2 DEF IntakeInv, intakeVars, IntakeRest, WebhookInv, HttpType, InsertInv, OneTicketPerDelivery, AnswersAreTrue
  <2>2. WeekInv' /\ WeekBounds'
    BY <1>2, WeekUntouched DEF IntakeInv, intakeVars
  <2> QED
    BY <2>1, <2>2 DEF IntakeInv
<1> QED
  BY <1>1, <1>2

-----------------------------------------------------------------------------
(* The verbs on a ticket *)

\* A verb call, and an entry of ticket_transitions.
VerbCall ==
    [pc: {"idle", "locked", "read"}, verb: {"none", "transition", "edit"},
     expected: Slugs \union {Any}, to: Slugs \union {Any}, from: Slugs \union {Any},
     field: Fields \union {"none"}, before: [Fields -> 0..MaxEdit]]
TrailEntry == [by: {"chat", "operator", "agent"}, expected: Slugs \union {Any}, from: Slugs, to: Slugs]

\* What the calls carry: a transition's target, an edit's field.
CallType ==
    /\ calls \in [Chats -> VerbCall]
    /\ \A c \in Chats : calls[c].pc # "idle" =>
         \/ calls[c].verb = "transition" /\ calls[c].to \in Slugs
         \/ calls[c].verb = "edit" /\ calls[c].field \in Fields

\* The row lock: an open call holds the row, so what it read is still there.
LockInv ==
    \A c \in Chats :
        /\ calls[c].pc # "idle" <=> rowLock = c
        /\ calls[c].pc = "read" /\ calls[c].verb = "transition" => calls[c].from = slug
        /\ calls[c].pc = "read" /\ calls[c].verb = "edit" => calls[c].before = ticketText

\* The ticket is where the last transition left it.
TrailInv ==
    /\ trail \in Seq(TrailEntry) /\ Len(trail) <= MaxTrail
    /\ slug = IF Len(trail) = 0 THEN FirstSlug ELSE trail[Len(trail)].to

VerbsRest ==
    /\ slug \in Slugs
    /\ ticketText \in [Fields -> 0..MaxEdit] /\ intent \in [Fields -> 0..MaxEdit]
    /\ rowLock \in Chats \union {Nobody}
    /\ drag \in [pc: {"idle", "checked"}, from: Slugs \union {Any}, to: Slugs \union {Any}]
    /\ drag.pc = "checked" => drag.from \in Slugs /\ drag.to \in Slugs
    /\ run \in Slugs \union {Any}
    /\ verbBounds \in [edits: 0..MaxEdit, faults: 0..MaxVerbFault]

VerbsInv == VerbsRest /\ CallType /\ LockInv /\ TrailInv /\ MovesAreFresh /\ NoLostEdit

\* VerbsInv implies what is checked of the verbs.
LEMMA VerbsSafe == VerbsInv => VerbsTypeOK /\ NothingOverwritten
<1> SUFFICES ASSUME VerbsInv PROVE VerbsTypeOK /\ NothingOverwritten
  OBVIOUS
<1>1. \A c \in Chats :
        /\ calls[c].pc \in {"idle", "locked", "read"}
        /\ calls[c].verb \in {"none", "transition", "edit"}
        /\ {calls[c].expected, calls[c].to, calls[c].from} \subseteq Slugs \union {Any}
  BY DEF VerbsInv, CallType, VerbCall
<1>2. \A i \in DOMAIN trail : trail[i] \in [by: {"chat", "operator", "agent"}, expected: Slugs \union {Any}, from: Slugs, to: Slugs]
  <2>1. \A i \in DOMAIN trail : trail[i] \in TrailEntry
    BY DEF VerbsInv, TrailInv
  <2> QED
    BY <2>1 DEF TrailEntry
<1> QED
  BY <1>1, <1>2 DEF VerbsInv, VerbsRest, TrailInv, VerbsTypeOK, NothingOverwritten

\* The idle call is a call.
LEMMA CallShapes == NoCall \in VerbCall /\ NoCall.pc = "idle"
<1>1. [f \in Fields |-> 0] \in [Fields -> 0..MaxEdit]
  BY VerbsAssumption
<1> QED
  BY <1>1 DEF NoCall, VerbCall

\* The ticket as it was created.
LEMMA VerbsInvInit == VerbsInit => VerbsInv
<1> SUFFICES ASSUME VerbsInit PROVE VerbsInv
  OBVIOUS
<1> USE VerbsAssumption
<1>1. VerbsRest
  BY DEF VerbsInit, VerbsRest, NoDrag
<1>2. \A c \in Chats : calls[c] = NoCall
  BY DEF VerbsInit
<1>3. CallType
  BY <1>2, CallShapes DEF VerbsInit, CallType
<1>4. LockInv
  BY <1>2, CallShapes DEF VerbsInit, LockInv
<1>5. TrailInv
  BY DEF VerbsInit, TrailInv
<1>6. MovesAreFresh /\ NoLostEdit
  BY DEF VerbsInit, MovesAreFresh, NoLostEdit
<1> QED
  BY <1>1, <1>3, <1>4, <1>5, <1>6 DEF VerbsInv

\* A transition that starts where the ticket is keeps the trail in order.
LEMMA TrailGrows ==
    ASSUME TrailInv, MovesAreFresh, slug \in Slugs, Len(trail) < MaxTrail,
           NEW by \in {"chat", "operator", "agent"}, NEW expected \in Slugs \union {Any},
           NEW from \in Slugs, NEW to \in Slugs, Moved(by, expected, from, to),
           by # "agent" => from = slug /\ expected \in {Any, from}
    PROVE  TrailInv' /\ MovesAreFresh' /\ slug' = to
<1> DEFINE m == [by |-> by, expected |-> expected, from |-> from, to |-> to]
<1>1. m \in TrailEntry /\ trail' = Append(trail, m) /\ slug' = to /\ trail \in Seq(TrailEntry)
  BY DEF TrailEntry, Moved, TrailInv
<1>2. m.by = by /\ m.expected = expected /\ m.from = from /\ m.to = to
  OBVIOUS
<1> HIDE DEF m
<1>3. /\ trail' \in Seq(TrailEntry) /\ Len(trail') = Len(trail) + 1 /\ trail'[Len(trail')] = m
      /\ Len(trail) \in Nat
      /\ \A i \in 1..Len(trail) : trail'[i] = trail[i]
  BY <1>1
<1>4. TrailInv'
  BY <1>1, <1>2, <1>3, VerbsAssumption DEF TrailInv
<1>5. MovesAreFresh'
  <2> SUFFICES ASSUME NEW i \in 1..(Len(trail) + 1), trail'[i].by # "agent"
               PROVE  /\ trail'[i].from = IF i = 1 THEN FirstSlug ELSE trail'[i - 1].to
                      /\ trail'[i].expected \in {Any, trail'[i].from}
    <3>1. DOMAIN trail' = 1..(Len(trail) + 1)
      BY <1>3
    <3> QED
      BY <3>1 DEF MovesAreFresh
  <2>1. CASE i = Len(trail) + 1
    <3>1. slug = IF i = 1 THEN FirstSlug ELSE trail'[i - 1].to
      BY <1>3, <2>1 DEF TrailInv
    <3>2. trail'[i] = m
      BY <1>3, <2>1
    <3> QED
      BY <1>2, <3>1, <3>2
  <2>2. CASE i \in 1..Len(trail)
    <3>1. DOMAIN trail = 1..Len(trail)
      BY <1>1
    <3>2. trail'[i] = trail[i] /\ (i # 1 => trail'[i - 1] = trail[i - 1])
      BY <1>3, <2>2
    <3> QED
      BY <2>2, <3>1, <3>2 DEF MovesAreFresh
  <2> QED
    BY <1>3, <2>1, <2>2
<1> QED
  BY <1>1, <1>4, <1>5

\* The end of a call frees the row, which nobody else was holding.
LEMMA CallEnds ==
    ASSUME VerbsInv, NEW c \in Chats, calls[c].pc # "idle", EndCall(c)
    PROVE  CallType' /\ LockInv' /\ rowLock' = Nobody
<1>1. rowLock = c /\ \A d \in Chats : d # c => calls[d].pc = "idle"
  BY DEF VerbsInv, LockInv
<1>2. /\ calls' \in [Chats -> VerbCall] /\ calls'[c] = NoCall
      /\ \A d \in Chats : d # c => calls'[d] = calls[d]
  BY CallShapes DEF VerbsInv, CallType, EndCall
<1>3. \A d \in Chats : calls'[d].pc = "idle"
  BY <1>1, <1>2, CallShapes
<1>4. rowLock' = Nobody /\ Nobody \notin Chats
  BY <1>1, VerbsAssumption DEF EndCall
<1> QED
  BY <1>2, <1>3, <1>4 DEF CallType, LockInv

\* A call that begins takes a free row or changes nothing.
LEMMA CallBegins ==
    ASSUME VerbsInv, NEW c \in Chats, NEW call \in VerbCall, LockTicketForUpdate(c, call), call.pc = "locked",
           \/ call.verb = "transition" /\ call.to \in Slugs
           \/ call.verb = "edit" /\ call.field \in Fields,
           UNCHANGED <<slug, ticketText>>
    PROVE  CallType' /\ LockInv' /\ rowLock' \in Chats \union {Nobody}
<1>1. CASE rowLock = Nobody
  <2>1. rowLock' = c /\ calls' = [calls EXCEPT ![c] = call] /\ \A d \in Chats : calls[d].pc = "idle"
    BY <1>1, VerbsAssumption DEF LockTicketForUpdate, VerbsInv, LockInv
  <2>2. calls' \in [Chats -> VerbCall] /\ calls'[c] = call /\ \A d \in Chats : d # c => calls'[d] = calls[d]
    BY <2>1 DEF VerbsInv, CallType
  <2> QED
    BY <2>1, <2>2 DEF CallType, LockInv
<1>2. CASE rowLock # Nobody
  <2>1. UNCHANGED <<calls, rowLock, slug, ticketText>>
    BY <1>2 DEF LockTicketForUpdate
  <2> QED
    BY <2>1 DEF VerbsInv, VerbsRest, CallType, LockInv
<1> QED
  BY <1>1, <1>2

\* Nobody holds the row: whoever changes it now is not seen by a call.
LEMMA FreeRow ==
    ASSUME VerbsInv, rowLock = Nobody, UNCHANGED <<calls, rowLock>>
    PROVE  CallType' /\ LockInv' /\ rowLock' = Nobody
<1>1. \A d \in Chats : calls[d].pc = "idle"
  BY VerbsAssumption DEF VerbsInv, LockInv
<1> QED
  BY <1>1 DEF VerbsInv, CallType, LockInv

\* The steps of an open call.
LEMMA VerbCallSteps == ASSUME VerbsInv, NEW c \in Chats, VerbStep(c) PROVE VerbsInv'
<1> USE VerbsAssumption
<1>1. /\ VerbsRest /\ CallType /\ LockInv /\ TrailInv /\ MovesAreFresh /\ NoLostEdit
      /\ calls[c] \in VerbCall
  BY DEF VerbsInv, CallType
<1>2. verbBounds.edits \in 0..MaxEdit /\ verbBounds.faults \in 0..MaxVerbFault
      /\ verbBounds = [edits |-> verbBounds.edits, faults |-> verbBounds.faults]
  BY <1>1 DEF VerbsRest
<1>3. CASE ReadRow(c)
  <2>1. UNCHANGED <<slug, ticketText, intent, rowLock, drag, run, trail, verbBounds>> /\ calls[c].pc = "locked"
    BY <1>3 DEF ReadRow
  <2>2. PICK w : /\ calls' = [calls EXCEPT ![c] = w]
                 /\ w = IF calls[c].verb = "edit" THEN [calls[c] EXCEPT !.pc = "read", !.before = ticketText]
                        ELSE [calls[c] EXCEPT !.pc = "read", !.from = slug]
    BY <1>3 DEF ReadRow
  <2>3. /\ w \in VerbCall /\ w.pc = "read" /\ w.verb = calls[c].verb /\ w.to = calls[c].to /\ w.field = calls[c].field
        /\ IF w.verb = "edit" THEN w.before = ticketText ELSE w.from = slug
    BY <1>1, <2>2 DEF VerbCall, VerbsRest
  <2>4. calls' \in [Chats -> VerbCall] /\ calls'[c] = w /\ \A d \in Chats : d # c => calls'[d] = calls[d]
    BY <1>1, <2>2, <2>3 DEF CallType
  <2>5. CallType'
    BY <1>1, <2>1, <2>3, <2>4 DEF CallType
  <2>6. LockInv'
    BY <1>1, <2>1, <2>3, <2>4 DEF LockInv
  <2>7. VerbsRest' /\ TrailInv' /\ MovesAreFresh' /\ NoLostEdit'
    BY <1>1, <2>1 DEF VerbsRest, TrailInv, MovesAreFresh, NoLostEdit
  <2> QED
    BY <2>5, <2>6, <2>7 DEF VerbsInv
<1>4. CASE TransitionRefused(c)
  <2>1. UNCHANGED <<slug, ticketText, intent, drag, run, trail, verbBounds>> /\ calls[c].pc # "idle" /\ EndCall(c)
    BY <1>4 DEF TransitionRefused
  <2>2. CallType' /\ LockInv' /\ rowLock' = Nobody
    BY <2>1, CallEnds
  <2>3. VerbsRest' /\ TrailInv' /\ MovesAreFresh' /\ NoLostEdit'
    BY <1>1, <2>1, <2>2 DEF VerbsRest, TrailInv, MovesAreFresh, NoLostEdit
  <2> QED
    BY <2>2, <2>3 DEF VerbsInv
<1>5. CASE CommitTransition(c)
  <2>1. /\ UNCHANGED <<ticketText, intent, drag, run, verbBounds>> /\ calls[c].pc # "idle" /\ EndCall(c)
        /\ Moved("chat", calls[c].expected, calls[c].from, calls[c].to) /\ Len(trail) < MaxTrail
    BY <1>5 DEF CommitTransition
  <2>2. CallType' /\ LockInv' /\ rowLock' = Nobody
    BY <2>1, CallEnds
  <2>3. /\ calls[c].expected \in Slugs \union {Any} /\ calls[c].from = slug /\ calls[c].to \in Slugs
        /\ calls[c].expected \in {Any, calls[c].from} /\ slug \in Slugs
    BY <1>1, <1>5 DEF CommitTransition, Stale, LockInv, CallType, VerbCall, VerbsRest
  <2>4. TrailInv' /\ MovesAreFresh' /\ slug' \in Slugs
    BY <1>1, <2>1, <2>3, TrailGrows
  <2>5. VerbsRest' /\ NoLostEdit'
    BY <1>1, <2>1, <2>2, <2>4 DEF VerbsRest, NoLostEdit
  <2> QED
    BY <2>2, <2>4, <2>5 DEF VerbsInv
<1>6. CASE CommitEdit(c)
  <2>a. PICK n \in 0..MaxEdit : n = verbBounds.edits + 1
    BY <1>2, <1>6 DEF CommitEdit
  <2>1. /\ ticketText' = [calls[c].before EXCEPT ![calls[c].field] = n]
        /\ intent' = [intent EXCEPT ![calls[c].field] = n]
        /\ verbBounds' = [verbBounds EXCEPT !.edits = n]
    BY <2>a, <1>6 DEF CommitEdit
  <2>2. UNCHANGED <<slug, drag, run, trail>> /\ calls[c].pc # "idle" /\ EndCall(c)
    BY <1>6 DEF CommitEdit
  <2>3. CallType' /\ LockInv' /\ rowLock' = Nobody
    BY <2>2, CallEnds
  <2>4. calls[c].before = ticketText /\ ticketText = intent /\ calls[c].field \in Fields
    BY <1>1, <1>6 DEF CommitEdit, LockInv, CallType, NoLostEdit
  <2>5. ticketText' = intent' /\ ticketText' \in [Fields -> 0..MaxEdit]
    BY <1>1, <2>1, <2>4 DEF VerbsRest
  <2>6. verbBounds' \in [edits: 0..MaxEdit, faults: 0..MaxVerbFault]
    BY <1>2, <2>1
  <2>7. VerbsRest' /\ TrailInv' /\ MovesAreFresh' /\ NoLostEdit'
    BY <1>1, <2>2, <2>3, <2>5, <2>6 DEF VerbsRest, TrailInv, MovesAreFresh, NoLostEdit
  <2> QED
    BY <2>3, <2>7 DEF VerbsInv
<1>7. CASE VerbFails(c)
  <2>1. UNCHANGED <<slug, ticketText, intent, drag, run, trail>> /\ calls[c].pc # "idle" /\ EndCall(c)
    BY <1>7 DEF VerbFails
  <2>2. CallType' /\ LockInv' /\ rowLock' = Nobody
    BY <2>1, CallEnds
  <2>3. verbBounds' \in [edits: 0..MaxEdit, faults: 0..MaxVerbFault]
    BY <1>2, <1>7 DEF VerbFails
  <2>4. VerbsRest' /\ TrailInv' /\ MovesAreFresh' /\ NoLostEdit'
    BY <1>1, <2>1, <2>2, <2>3 DEF VerbsRest, TrailInv, MovesAreFresh, NoLostEdit
  <2> QED
    BY <2>2, <2>4 DEF VerbsInv
<1> QED
  BY <1>3, <1>4, <1>5, <1>6, <1>7 DEF VerbStep

\* Every step on the ticket keeps VerbsInv.
LEMMA VerbsInvStep == VerbsInv /\ [VerbsNext]_verbVars => VerbsInv'
<1> SUFFICES ASSUME VerbsInv, [VerbsNext]_verbVars PROVE VerbsInv'
  OBVIOUS
<1> USE VerbsAssumption
<1>1. VerbsRest /\ CallType /\ LockInv /\ TrailInv /\ MovesAreFresh /\ NoLostEdit
  BY DEF VerbsInv
<1>2. verbBounds.edits \in 0..MaxEdit /\ verbBounds.faults \in 0..MaxVerbFault
      /\ verbBounds = [edits |-> verbBounds.edits, faults |-> verbBounds.faults]
  BY <1>1 DEF VerbsRest
<1>3. ASSUME NEW c \in Chats, NEW to \in Slugs, NEW expected \in Slugs \union {Any}, BeginTransition(c, to, expected)
      PROVE  VerbsInv'
  <2>1. PICK call : /\ call = [NoCall EXCEPT !.pc = "locked", !.verb = "transition", !.to = to, !.expected = expected]
                    /\ LockTicketForUpdate(c, call)
    BY <1>3 DEF BeginTransition
  <2>2. UNCHANGED <<slug, ticketText, intent, drag, run, trail, verbBounds>>
    BY <1>3 DEF BeginTransition
  <2>3. call \in VerbCall /\ call.pc = "locked" /\ call.verb = "transition" /\ call.to = to
    BY <2>1, CallShapes DEF VerbCall
  <2>4. CallType' /\ LockInv' /\ rowLock' \in Chats \union {Nobody}
    BY <2>1, <2>2, <2>3, CallBegins
  <2>5. VerbsRest' /\ TrailInv' /\ MovesAreFresh' /\ NoLostEdit'
    BY <1>1, <2>2, <2>4 DEF VerbsRest, TrailInv, MovesAreFresh, NoLostEdit
  <2> QED
    BY <2>4, <2>5 DEF VerbsInv
<1>4. ASSUME NEW c \in Chats, NEW field \in Fields, BeginEdit(c, field) PROVE VerbsInv'
  <2>1. PICK call : /\ call = [NoCall EXCEPT !.pc = "locked", !.verb = "edit", !.field = field]
                    /\ LockTicketForUpdate(c, call)
    BY <1>4 DEF BeginEdit
  <2>2. UNCHANGED <<slug, ticketText, intent, drag, run, trail, verbBounds>>
    BY <1>4 DEF BeginEdit
  <2>3. call \in VerbCall /\ call.pc = "locked" /\ call.verb = "edit" /\ call.field = field
    BY <2>1, CallShapes DEF VerbCall
  <2>4. CallType' /\ LockInv' /\ rowLock' \in Chats \union {Nobody}
    BY <2>1, <2>2, <2>3, CallBegins
  <2>5. VerbsRest' /\ TrailInv' /\ MovesAreFresh' /\ NoLostEdit'
    BY <1>1, <2>2, <2>4 DEF VerbsRest, TrailInv, MovesAreFresh, NoLostEdit
  <2> QED
    BY <2>4, <2>5 DEF VerbsInv
<1>5. ASSUME NEW to \in Slugs, DragChecks(to) PROVE VerbsInv'
  <2>1. UNCHANGED <<slug, ticketText, intent, rowLock, calls, run, trail, verbBounds>>
        /\ drag' = [pc |-> "checked", from |-> slug, to |-> to]
    BY <1>5 DEF DragChecks
  <2>2. VerbsRest'
    BY <1>1, <2>1 DEF VerbsRest
  <2>3. CallType' /\ LockInv' /\ TrailInv' /\ MovesAreFresh' /\ NoLostEdit'
    BY <1>1, <2>1 DEF CallType, LockInv, TrailInv, MovesAreFresh, NoLostEdit
  <2> QED
    BY <2>2, <2>3 DEF VerbsInv
<1>6. CASE DragMoves
  <2>1. UNCHANGED <<ticketText, intent, rowLock, calls, run, verbBounds>> /\ rowLock = Nobody /\ drag' = NoDrag
        /\ drag.from \in Slugs /\ drag.to \in Slugs
    BY <1>1, <1>6 DEF DragMoves, VerbsRest
  <2>2. CallType' /\ LockInv' /\ rowLock' = Nobody
    BY <2>1, FreeRow
  <2>3. TrailInv' /\ MovesAreFresh' /\ slug' \in Slugs
    <3>1. CASE slug = drag.from /\ Len(trail) < MaxTrail
      <4>1. Moved("operator", drag.from, drag.from, drag.to) /\ slug \in Slugs
        BY <1>1, <1>6, <3>1 DEF DragMoves, VerbsRest
      <4> QED
        BY <1>1, <2>1, <3>1, <4>1, TrailGrows
    <3>2. CASE ~(slug = drag.from /\ Len(trail) < MaxTrail)
      <4>1. UNCHANGED <<slug, trail>>
        BY <1>6, <3>2 DEF DragMoves
      <4> QED
        BY <1>1, <4>1 DEF TrailInv, MovesAreFresh, VerbsRest
    <3> QED
      BY <3>1, <3>2
  <2>4. VerbsRest' /\ NoLostEdit'
    BY <1>1, <2>1, <2>2, <2>3 DEF VerbsRest, NoLostEdit, NoDrag
  <2> QED
    BY <2>2, <2>3, <2>4 DEF VerbsInv
<1>7. ASSUME NEW field \in Fields, OperatorEdits(field) PROVE VerbsInv'
  <2>a. PICK n \in 0..MaxEdit : n = verbBounds.edits + 1
    BY <1>2, <1>7 DEF OperatorEdits
  <2>1. /\ ticketText' = [ticketText EXCEPT ![field] = n] /\ intent' = [intent EXCEPT ![field] = n]
        /\ verbBounds' = [verbBounds EXCEPT !.edits = n]
    BY <2>a, <1>7 DEF OperatorEdits
  <2>2. UNCHANGED <<slug, rowLock, calls, drag, run, trail>> /\ rowLock = Nobody
    BY <1>7 DEF OperatorEdits
  <2>3. CallType' /\ LockInv' /\ rowLock' = Nobody
    BY <2>2, FreeRow
  <2>4. ticketText' = intent' /\ ticketText' \in [Fields -> 0..MaxEdit]
    BY <1>1, <2>1 DEF VerbsRest, NoLostEdit
  <2>5. verbBounds' \in [edits: 0..MaxEdit, faults: 0..MaxVerbFault]
    BY <1>2, <2>1
  <2>6. VerbsRest' /\ TrailInv' /\ MovesAreFresh' /\ NoLostEdit'
    BY <1>1, <2>2, <2>3, <2>4, <2>5 DEF VerbsRest, TrailInv, MovesAreFresh, NoLostEdit
  <2> QED
    BY <2>3, <2>6 DEF VerbsInv
<1>8. CASE AgentStarts
  <2>1. UNCHANGED <<slug, ticketText, intent, rowLock, calls, drag, trail, verbBounds>> /\ run' = slug
    BY <1>8 DEF AgentStarts
  <2>2. VerbsRest'
    BY <1>1, <2>1 DEF VerbsRest
  <2>3. CallType' /\ LockInv' /\ TrailInv' /\ MovesAreFresh' /\ NoLostEdit'
    BY <1>1, <2>1 DEF CallType, LockInv, TrailInv, MovesAreFresh, NoLostEdit
  <2> QED
    BY <2>2, <2>3 DEF VerbsInv
<1>9. ASSUME NEW to \in Slugs, AgentFinalizes(to) PROVE VerbsInv'
  <2>1. /\ UNCHANGED <<ticketText, intent, rowLock, calls, drag, verbBounds>> /\ rowLock = Nobody /\ run' = Any
        /\ Moved("agent", Any, run, to) /\ Len(trail) < MaxTrail /\ run \in Slugs /\ slug \in Slugs
    BY <1>1, <1>9 DEF AgentFinalizes, VerbsRest
  <2>2. CallType' /\ LockInv' /\ rowLock' = Nobody
    BY <2>1, FreeRow
  <2>3. TrailInv' /\ MovesAreFresh' /\ slug' \in Slugs
    BY <1>1, <2>1, TrailGrows
  <2>4. VerbsRest' /\ NoLostEdit'
    BY <1>1, <2>1, <2>2, <2>3 DEF VerbsRest, NoLostEdit
  <2> QED
    BY <2>2, <2>3, <2>4 DEF VerbsInv
<1>10. CASE UNCHANGED verbVars
  <2>1. UNCHANGED <<slug, ticketText, intent, rowLock, calls, drag, run, trail, verbBounds>>
    BY <1>10 DEF verbVars
  <2>2. VerbsRest'
    BY <1>1, <2>1 DEF VerbsRest
  <2>3. CallType' /\ LockInv' /\ TrailInv' /\ MovesAreFresh' /\ NoLostEdit'
    BY <1>1, <2>1 DEF CallType, LockInv, TrailInv, MovesAreFresh, NoLostEdit
  <2> QED
    BY <2>2, <2>3 DEF VerbsInv
<1> QED
  BY <1>3, <1>4, <1>5, <1>6, <1>7, <1>8, <1>9, <1>10, VerbCallSteps DEF VerbsNext

-----------------------------------------------------------------------------
(* The finalize server *)

\* Any arguments that have the tool's shape, whatever their lengths.
ToolFields == {"json", "ticket_id", "outcome", "rationale", "artifacts", "blockers", "discoveries", "kg_triples"}
TripleShape == [subject: Nat, predicate: Nat, object: Nat, valid_from: {"now", "timestamp", "garbage"}]
DraftShape == [json: {"ok", "loose", "mistyped", "broken"}, ticket_id: {"absent", "garbage", "uuid"},
          outcome: Nat, rationale: Nat, artifacts: Seq(Nat), blockers: Seq(Nat),
          discoveries: Seq(Nat), kg_triples: Seq(TripleShape)]

\* The item i of array f, or the mark k of triple i, breaks the schema.
BadItem(d, f, i) == i \in DOMAIN d[f] /\ d[f][i] > 500
BadTriple(d, i, k) == i \in DOMAIN d.kg_triples /\ BadMark(d.kg_triples[i], k)

\* Nothing is wrong with what a cut at an array's bound takes away, and the
\* triples are at most one too many.
Tame(d) ==
    /\ Len(d.kg_triples) <= 101
    /\ \A f \in Arrays : \A i \in DOMAIN d[f] : i > 50 => ~BadItem(d, f, i)
    /\ \A i \in DOMAIN d.kg_triples, k \in Marks : i > 100 => ~BadTriple(d, i, k)

\* The faults of a draft, one by one.
LEMMA WrongIs ==
    ASSUME NEW d \in DraftShape, NEW x
    PROVE  x \in Wrong(d) <=>
              \/ \E f \in ToolFields : x = <<f>> /\ BadField(d, f)
              \/ \E f \in Arrays : \E i : x = <<f, i>> /\ BadItem(d, f, i)
              \/ \E i : \E k \in Marks : x = <<"kg_triples", i, k>> /\ BadTriple(d, i, k)
<1>1. DOMAIN d = ToolFields
  BY DEF DraftShape, ToolFields
<1>2. x \in WrongFields(d) <=> \E f \in ToolFields : x = <<f>> /\ BadField(d, f)
  BY <1>1 DEF WrongFields
<1>3. x \in WrongItems(d) <=> \E f \in Arrays : \E i : x = <<f, i>> /\ BadItem(d, f, i)
  BY DEF WrongItems, BadItem
<1>4. x \in WrongMarks(d) <=> \E i : \E k \in Marks : x = <<"kg_triples", i, k>> /\ BadTriple(d, i, k)
  BY DEF WrongMarks, BadTriple
<1> QED
  BY <1>2, <1>3, <1>4 DEF Wrong

\* m mends exactly the path p of d.
Mends(m, d, p) == m \in DraftShape /\ Tame(m) /\ p \in Wrong(d) /\ Wrong(m) = Wrong(d) \ {p}

\* When only field f was wrong and is not any more.
LEMMA MendsField ==
    ASSUME NEW m \in DraftShape, Tame(m), NEW d \in DraftShape, NEW f \in ToolFields,
           BadField(d, f), ~BadField(m, f),
           \A g \in ToolFields : g # f => (BadField(m, g) <=> BadField(d, g)),
           \A g \in Arrays : \A i : BadItem(m, g, i) <=> BadItem(d, g, i),
           \A k \in Marks : \A i : BadTriple(m, i, k) <=> BadTriple(d, i, k)
    PROVE  Mends(m, d, <<f>>)
<1>1. <<f>> \in Wrong(d)
  BY WrongIs
<1>2. ASSUME NEW x PROVE x \in Wrong(m) <=> x \in Wrong(d) /\ x # <<f>>
  <2>1. ASSUME x \in Wrong(m) PROVE x \in Wrong(d) /\ x # <<f>>
    <3>1. CASE \E g \in ToolFields : x = <<g>> /\ BadField(m, g)
      BY <3>1, WrongIs
    <3>2. CASE \E g \in Arrays : \E i : x = <<g, i>> /\ BadItem(m, g, i)
      BY <3>2, WrongIs
    <3>3. CASE \E i : \E k \in Marks : x = <<"kg_triples", i, k>> /\ BadTriple(m, i, k)
      BY <3>3, WrongIs
    <3> QED
      BY <2>1, <3>1, <3>2, <3>3, WrongIs
  <2>2. ASSUME x \in Wrong(d), x # <<f>> PROVE x \in Wrong(m)
    <3>1. CASE \E g \in ToolFields : x = <<g>> /\ BadField(d, g)
      BY <2>2, <3>1, WrongIs
    <3>2. CASE \E g \in Arrays : \E i : x = <<g, i>> /\ BadItem(d, g, i)
      BY <3>2, WrongIs
    <3>3. CASE \E i : \E k \in Marks : x = <<"kg_triples", i, k>> /\ BadTriple(d, i, k)
      BY <3>3, WrongIs
    <3> QED
      BY <2>2, <3>1, <3>2, <3>3, WrongIs
  <2> QED
    BY <2>1, <2>2
<1> QED
  BY <1>1, <1>2 DEF Mends

\* When only item n of array f was wrong and is not any more.
LEMMA MendsItem ==
    ASSUME NEW m \in DraftShape, Tame(m), NEW d \in DraftShape, NEW f \in Arrays, NEW n,
           BadItem(d, f, n), ~BadItem(m, f, n),
           \A g \in ToolFields : BadField(m, g) <=> BadField(d, g),
           \A g \in Arrays : \A i : ~(g = f /\ i = n) => (BadItem(m, g, i) <=> BadItem(d, g, i)),
           \A k \in Marks : \A i : BadTriple(m, i, k) <=> BadTriple(d, i, k)
    PROVE  Mends(m, d, <<f, n>>)
<1>1. <<f, n>> \in Wrong(d)
  BY WrongIs
<1>2. ASSUME NEW x PROVE x \in Wrong(m) <=> x \in Wrong(d) /\ x # <<f, n>>
  <2>1. ASSUME x \in Wrong(m) PROVE x \in Wrong(d) /\ x # <<f, n>>
    <3>1. CASE \E g \in ToolFields : x = <<g>> /\ BadField(m, g)
      BY <3>1, WrongIs
    <3>2. CASE \E g \in Arrays : \E i : x = <<g, i>> /\ BadItem(m, g, i)
      BY <3>2, WrongIs
    <3>3. CASE \E i : \E k \in Marks : x = <<"kg_triples", i, k>> /\ BadTriple(m, i, k)
      BY <3>3, WrongIs
    <3> QED
      BY <2>1, <3>1, <3>2, <3>3, WrongIs
  <2>2. ASSUME x \in Wrong(d), x # <<f, n>> PROVE x \in Wrong(m)
    <3>1. CASE \E g \in ToolFields : x = <<g>> /\ BadField(d, g)
      BY <3>1, WrongIs
    <3>2. CASE \E g \in Arrays : \E i : x = <<g, i>> /\ BadItem(d, g, i)
      BY <2>2, <3>2, WrongIs
    <3>3. CASE \E i : \E k \in Marks : x = <<"kg_triples", i, k>> /\ BadTriple(d, i, k)
      BY <3>3, WrongIs
    <3> QED
      BY <2>2, <3>1, <3>2, <3>3, WrongIs
  <2> QED
    BY <2>1, <2>2
<1> QED
  BY <1>1, <1>2 DEF Mends

\* When only mark q of triple n was wrong and is not any more.
LEMMA MendsMark ==
    ASSUME NEW m \in DraftShape, Tame(m), NEW d \in DraftShape, NEW n, NEW q \in Marks,
           BadTriple(d, n, q), ~BadTriple(m, n, q),
           \A g \in ToolFields : BadField(m, g) <=> BadField(d, g),
           \A g \in Arrays : \A i : BadItem(m, g, i) <=> BadItem(d, g, i),
           \A k \in Marks : \A i : ~(i = n /\ k = q) => (BadTriple(m, i, k) <=> BadTriple(d, i, k))
    PROVE  Mends(m, d, <<"kg_triples", n, q>>)
<1>1. <<"kg_triples", n, q>> \in Wrong(d)
  BY WrongIs
<1>2. ASSUME NEW x PROVE x \in Wrong(m) <=> x \in Wrong(d) /\ x # <<"kg_triples", n, q>>
  <2>1. ASSUME x \in Wrong(m) PROVE x \in Wrong(d) /\ x # <<"kg_triples", n, q>>
    <3>1. CASE \E g \in ToolFields : x = <<g>> /\ BadField(m, g)
      BY <3>1, WrongIs
    <3>2. CASE \E g \in Arrays : \E i : x = <<g, i>> /\ BadItem(m, g, i)
      BY <3>2, WrongIs
    <3>3. CASE \E i : \E k \in Marks : x = <<"kg_triples", i, k>> /\ BadTriple(m, i, k)
      BY <3>3, WrongIs
    <3> QED
      BY <2>1, <3>1, <3>2, <3>3, WrongIs
  <2>2. ASSUME x \in Wrong(d), x # <<"kg_triples", n, q>> PROVE x \in Wrong(m)
    <3>1. CASE \E g \in ToolFields : x = <<g>> /\ BadField(d, g)
      BY <3>1, WrongIs
    <3>2. CASE \E g \in Arrays : \E i : x = <<g, i>> /\ BadItem(d, g, i)
      BY <3>2, WrongIs
    <3>3. CASE \E i : \E k \in Marks : x = <<"kg_triples", i, k>> /\ BadTriple(d, i, k)
      BY <2>2, <3>3, WrongIs
    <3> QED
      BY <2>2, <3>1, <3>2, <3>3, WrongIs
  <2> QED
    BY <2>1, <2>2
<1> QED
  BY <1>1, <1>2 DEF Mends

\* m is d with another value in field f; a is s cut at n; a is s with another
\* value at n.
Replaces(m, d, f, v) == m \in DraftShape /\ m[f] = v /\ \A g \in ToolFields : g # f => m[g] = d[g]
CutTo(a, s, n) ==
    /\ Len(a) = n /\ \A i \in DOMAIN a : i \in DOMAIN s /\ a[i] = s[i] /\ ~(i > n)
    /\ \A i \in DOMAIN s : i \in DOMAIN a \/ i > n
SetAt(a, s, n, v) ==
    DOMAIN a = DOMAIN s /\ Len(a) = Len(s) /\ a[n] = v /\ \A i \in DOMAIN a : i # n => a[i] = s[i]

\* An array is wrong by its length.
LEMMA BadArray == ASSUME NEW d, NEW f \in Arrays PROVE BadField(d, f) <=> Len(d[f]) > 50
<1>1. f \notin {"json", "ticket_id", "outcome", "rationale", "kg_triples"}
  BY DEF Arrays
<1> QED
  BY <1>1 DEF BadField

\* What is wrong with a field depends on that field.
LEMMA BadFieldSame ==
    ASSUME NEW d, NEW m, NEW g \in ToolFields, m[g] = d[g]
    PROVE  BadField(m, g) <=> BadField(d, g)
<1>1. CASE g = "json"
  BY <1>1 DEF BadField, Decodes, Arrays
<1>2. CASE g = "ticket_id"
  BY <1>2 DEF BadField, Arrays
<1>3. CASE g = "outcome"
  BY <1>3 DEF BadField, Arrays
<1>4. CASE g = "rationale"
  BY <1>4 DEF BadField, Arrays
<1>5. CASE g = "kg_triples"
  BY <1>5 DEF BadField, Arrays
<1>6. CASE g \in Arrays
  BY <1>6, BadArray
<1> QED
  BY <1>1, <1>2, <1>3, <1>4, <1>5, <1>6 DEF ToolFields, Arrays

\* The other fields keep what is wrong with them.
LEMMA OthersKept ==
    ASSUME NEW d \in DraftShape, NEW m, NEW f \in ToolFields, NEW v, Replaces(m, d, f, v)
    PROVE  /\ \A g \in ToolFields : g # f => (BadField(m, g) <=> BadField(d, g))
           /\ \A g \in Arrays : g # f => \A i : BadItem(m, g, i) <=> BadItem(d, g, i)
           /\ f # "kg_triples" => m.kg_triples = d.kg_triples
           /\ f # "kg_triples" => \A k \in Marks : \A i : BadTriple(m, i, k) <=> BadTriple(d, i, k)
<1>1. \A g \in ToolFields : g # f => m[g] = d[g]
  BY DEF Replaces
<1>2. Arrays \subseteq ToolFields /\ "kg_triples" \in ToolFields
  BY DEF Arrays, ToolFields
<1>3. \A g \in ToolFields : g # f => (BadField(m, g) <=> BadField(d, g))
  BY <1>1, BadFieldSame
<1>4. \A g \in Arrays : g # f => \A i : BadItem(m, g, i) <=> BadItem(d, g, i)
  BY <1>1, <1>2 DEF BadItem
<1>5. f # "kg_triples" => \A k \in Marks : \A i : BadTriple(m, i, k) <=> BadTriple(d, i, k)
  <2> SUFFICES ASSUME f # "kg_triples", NEW k \in Marks, NEW i PROVE BadTriple(m, i, k) <=> BadTriple(d, i, k)
    OBVIOUS
  <2>1. m["kg_triples"] = d["kg_triples"]
    BY <1>1, <1>2
  <2> QED
    BY <2>1 DEF BadTriple
<1>6. f # "kg_triples" => m.kg_triples = d.kg_triples
  BY <1>1, <1>2
<1> QED
  BY <1>3, <1>4, <1>5, <1>6

\* A draft without new faults stays tame.
LEMMA TameKept ==
    ASSUME NEW d, Tame(d), NEW m, Len(m.kg_triples) <= 101,
           \A g \in Arrays : \A i : BadItem(m, g, i) => BadItem(d, g, i),
           \A k \in Marks : \A i : BadTriple(m, i, k) => BadTriple(d, i, k)
    PROVE  Tame(m)
<1>1. \A g \in Arrays : \A i \in DOMAIN m[g] : i > 50 => ~BadItem(m, g, i)
  <2> SUFFICES ASSUME NEW g \in Arrays, NEW i, i > 50, BadItem(m, g, i) PROVE FALSE
    OBVIOUS
  <2>1. BadItem(d, g, i)
    OBVIOUS
  <2>2. i \in DOMAIN d[g]
    BY <2>1 DEF BadItem
  <2> QED
    BY <2>1, <2>2 DEF Tame
<1>2. \A i \in DOMAIN m.kg_triples, k \in Marks : i > 100 => ~BadTriple(m, i, k)
  <2> SUFFICES ASSUME NEW i, NEW k \in Marks, i > 100, BadTriple(m, i, k) PROVE FALSE
    OBVIOUS
  <2>1. BadTriple(d, i, k)
    OBVIOUS
  <2>2. i \in DOMAIN d.kg_triples
    BY <2>1 DEF BadTriple
  <2> QED
    BY <2>1, <2>2 DEF Tame
<1> QED
  BY <1>1, <1>2 DEF Tame

\* json, the ticket and the two texts.
LEMMA MendsText ==
    ASSUME NEW d \in DraftShape, Tame(d), NEW f \in {"json", "ticket_id", "outcome", "rationale"},
           NEW v, NEW m, Replaces(m, d, f, v), BadField(d, f), ~BadField(m, f)
    PROVE  Mends(m, d, <<f>>)
<1>1. f \in ToolFields /\ f \notin Arrays /\ f # "kg_triples"
  BY DEF ToolFields, Arrays
<1>2. /\ \A g \in ToolFields : g # f => (BadField(m, g) <=> BadField(d, g))
      /\ \A g \in Arrays : \A i : BadItem(m, g, i) <=> BadItem(d, g, i)
      /\ \A k \in Marks : \A i : BadTriple(m, i, k) <=> BadTriple(d, i, k)
  BY <1>1, OthersKept
<1>3. Tame(m)
  <2>1. Len(m.kg_triples) <= 101
    BY <1>1, OthersKept DEF Tame
  <2> QED
    BY <1>2, <2>1, TameKept
<1>4. m \in DraftShape
  BY DEF Replaces
<1> QED
  BY <1>1, <1>2, <1>3, <1>4, MendsField

\* An array cut at its bound.
LEMMA MendsLength ==
    ASSUME NEW d \in DraftShape, Tame(d), NEW f \in Arrays, Len(d[f]) > 50, NEW a,
           CutTo(a, d[f], 50), NEW m, Replaces(m, d, f, a)
    PROVE  Mends(m, d, <<f>>)
<1>1. f \in ToolFields /\ f # "kg_triples" /\ f \notin {"json", "ticket_id", "outcome", "rationale"}
  BY DEF ToolFields, Arrays
<1>2. /\ \A g \in ToolFields : g # f => (BadField(m, g) <=> BadField(d, g))
      /\ \A g \in Arrays : g # f => \A i : BadItem(m, g, i) <=> BadItem(d, g, i)
      /\ \A k \in Marks : \A i : BadTriple(m, i, k) <=> BadTriple(d, i, k)
  BY <1>1, OthersKept
<1>3. m[f] = a /\ m \in DraftShape
  BY DEF Replaces
<1>4. ASSUME NEW i PROVE BadItem(m, f, i) <=> BadItem(d, f, i)
  <2>1. CASE i \in DOMAIN a
    <3>1. i \in DOMAIN d[f] /\ a[i] = d[f][i]
      BY <2>1 DEF CutTo
    <3> QED
      BY <1>3, <2>1, <3>1 DEF BadItem
  <2>2. CASE i \notin DOMAIN a
    <3>1. ~BadItem(m, f, i)
      BY <1>3, <2>2 DEF BadItem
    <3>2. ASSUME BadItem(d, f, i) PROVE FALSE
      <4>1. i \in DOMAIN d[f] /\ i > 50
        BY <2>2, <3>2 DEF BadItem, CutTo
      <4> QED
        BY <3>2, <4>1 DEF Tame
    <3> QED
      BY <3>1, <3>2
  <2> QED
    BY <2>1, <2>2
<1>5. \A g \in Arrays : \A i : BadItem(m, g, i) <=> BadItem(d, g, i)
  BY <1>2, <1>4
<1>6. Tame(m)
  <2>1. Len(m.kg_triples) <= 101
    BY <1>1, OthersKept DEF Tame
  <2> QED
    BY <1>2, <1>5, <2>1, TameKept
<1>7. BadField(d, f)
  BY DEF BadField
<1>8. ~BadField(m, f)
  <2>1. Len(m[f]) = 50
    BY <1>3 DEF CutTo
  <2>2. ~(Len(m[f]) > 50)
    BY <2>1
  <2> QED
    BY <1>1, <2>2 DEF BadField
<1> QED
  BY <1>1, <1>2, <1>3, <1>5, <1>6, <1>7, <1>8, MendsField

\* An item set to its bound.
LEMMA MendsOneItem ==
    ASSUME NEW d \in DraftShape, Tame(d), NEW f \in Arrays, NEW n, BadItem(d, f, n), NEW a,
           SetAt(a, d[f], n, 500), NEW m, Replaces(m, d, f, a)
    PROVE  Mends(m, d, <<f, n>>)
<1>1. f \in ToolFields /\ f # "kg_triples" /\ f \notin {"json", "ticket_id", "outcome", "rationale"}
  BY DEF ToolFields, Arrays
<1>2. /\ \A g \in ToolFields : g # f => (BadField(m, g) <=> BadField(d, g))
      /\ \A g \in Arrays : g # f => \A i : BadItem(m, g, i) <=> BadItem(d, g, i)
      /\ \A k \in Marks : \A i : BadTriple(m, i, k) <=> BadTriple(d, i, k)
  BY <1>1, OthersKept
<1>3. m[f] = a /\ m \in DraftShape
  BY DEF Replaces
<1>4. ASSUME NEW i, i # n PROVE BadItem(m, f, i) <=> BadItem(d, f, i)
  BY <1>3, <1>4 DEF BadItem, SetAt
<1>5. ~BadItem(m, f, n)
  <2>1. m[f][n] = 500
    BY <1>3 DEF SetAt
  <2> QED
    BY <2>1 DEF BadItem
<1>6. \A g \in Arrays : \A i : ~(g = f /\ i = n) => (BadItem(m, g, i) <=> BadItem(d, g, i))
  BY <1>2, <1>4
<1>7. \A g \in Arrays : \A i : BadItem(m, g, i) => BadItem(d, g, i)
  BY <1>5, <1>6
<1>8. Tame(m)
  <2>1. Len(m.kg_triples) <= 101
    BY <1>1, OthersKept DEF Tame
  <2> QED
    BY <1>2, <1>7, <2>1, TameKept
<1>9. BadField(m, f) <=> BadField(d, f)
  <2>1. Len(m[f]) = Len(d[f])
    BY <1>3 DEF SetAt
  <2> QED
    BY ONLY f \in Arrays, <2>1, BadArray
<1>10. \A g \in ToolFields : BadField(m, g) <=> BadField(d, g)
  BY <1>2, <1>9
<1> QED
  BY <1>2, <1>3, <1>5, <1>6, <1>8, <1>10, MendsItem

\* The triple an agent adds when it is told to.
LEMMA GoodIsGood == GoodTriple \in TripleShape /\ \A k \in Marks : ~BadMark(GoodTriple, k)
<1>1. GoodTriple \in TripleShape
  BY DEF GoodTriple, TripleShape
<1>2. ASSUME NEW k \in Marks PROVE ~BadMark(GoodTriple, k)
  <2>1. CASE k = "valid_from"
    BY <2>1 DEF BadMark, GoodTriple
  <2>2. CASE k # "valid_from"
    <3>1. GoodTriple[k] = 3 \/ GoodTriple[k] = 500
      BY <2>2 DEF Marks, GoodTriple
    <3>2. GoodTriple[k] \in 3..500
      BY <3>1
    <3> QED
      BY <2>2, <3>2 DEF BadMark
  <2> QED
    BY <2>1, <2>2
<1> QED
  BY <1>1, <1>2

\* A first triple where there was none.
LEMMA MendsEmpty ==
    ASSUME NEW d \in DraftShape, Tame(d), d.kg_triples = <<>>, NEW m,
           Replaces(m, d, "kg_triples", <<GoodTriple>>)
    PROVE  Mends(m, d, <<"kg_triples">>)
<1>1. "kg_triples" \in ToolFields /\ "kg_triples" \notin Arrays
  BY DEF ToolFields, Arrays
<1>2. /\ \A g \in ToolFields : g # "kg_triples" => (BadField(m, g) <=> BadField(d, g))
      /\ \A g \in Arrays : \A i : BadItem(m, g, i) <=> BadItem(d, g, i)
  BY <1>1, OthersKept
<1>3. m.kg_triples = <<GoodTriple>> /\ m \in DraftShape
  BY DEF Replaces
<1>4. \A k \in Marks : ~BadMark(GoodTriple, k)
  BY GoodIsGood
<1>5. \A k \in Marks : \A i : ~BadTriple(m, i, k)
  <2> SUFFICES ASSUME NEW k \in Marks, NEW i, BadTriple(m, i, k) PROVE FALSE
    OBVIOUS
  <2>1. i \in DOMAIN <<GoodTriple>> /\ BadMark(<<GoodTriple>>[i], k)
    BY <1>3 DEF BadTriple
  <2>2. i = 1 /\ <<GoodTriple>>[i] = GoodTriple
    BY <2>1
  <2> QED
    BY <1>4, <2>1, <2>2
<1>6. \A k \in Marks : \A i : ~BadTriple(d, i, k)
  BY DEF BadTriple
<1>7. Tame(m)
  <2>1. Len(m.kg_triples) <= 101
    BY <1>3
  <2> QED
    BY <1>2, <1>5, <2>1, TameKept
<1>8. BadField(d, "kg_triples")
  <2>1. Len(d.kg_triples) = 0
    OBVIOUS
  <2> QED
    BY <2>1 DEF BadField
<1>9. ~BadField(m, "kg_triples")
  <2>1. Len(m.kg_triples) = 1
    BY <1>3
  <2> QED
    BY <1>1, <2>1 DEF BadField
<1> QED
  BY <1>1, <1>2, <1>3, <1>5, <1>6, <1>7, <1>8, <1>9, MendsField

\* The triples cut at their bound.
LEMMA MendsCount ==
    ASSUME NEW d \in DraftShape, Tame(d), Len(d.kg_triples) > 100, NEW a, CutTo(a, d.kg_triples, 100),
           NEW m, Replaces(m, d, "kg_triples", a)
    PROVE  Mends(m, d, <<"kg_triples">>)
<1>1. "kg_triples" \in ToolFields /\ "kg_triples" \notin Arrays
  BY DEF ToolFields, Arrays
<1>2. /\ \A g \in ToolFields : g # "kg_triples" => (BadField(m, g) <=> BadField(d, g))
      /\ \A g \in Arrays : \A i : BadItem(m, g, i) <=> BadItem(d, g, i)
  BY <1>1, OthersKept
<1>3. m.kg_triples = a /\ m \in DraftShape
  BY DEF Replaces
<1>4. ASSUME NEW k \in Marks, NEW i PROVE BadTriple(m, i, k) <=> BadTriple(d, i, k)
  <2>1. CASE i \in DOMAIN a
    <3>1. i \in DOMAIN d.kg_triples /\ a[i] = d.kg_triples[i]
      BY <2>1 DEF CutTo
    <3> QED
      BY <1>3, <2>1, <3>1 DEF BadTriple
  <2>2. CASE i \notin DOMAIN a
    <3>1. ~BadTriple(m, i, k)
      BY <1>3, <2>2 DEF BadTriple
    <3>2. ASSUME BadTriple(d, i, k) PROVE FALSE
      <4>1. i \in DOMAIN d.kg_triples /\ i > 100
        BY <2>2, <3>2 DEF BadTriple, CutTo
      <4> QED
        BY <3>2, <4>1 DEF Tame
    <3> QED
      BY <3>1, <3>2
  <2> QED
    BY <2>1, <2>2
<1>5. Tame(m)
  <2>1. Len(m.kg_triples) = 100
    BY <1>3 DEF CutTo
  <2>2. Len(m.kg_triples) <= 101
    BY <2>1
  <2> QED
    BY <1>2, <1>4, <2>2, TameKept
<1>6. BadField(d, "kg_triples")
  <2>1. Len(d.kg_triples) \in Nat
    BY DEF DraftShape
  <2>2. \A c \in Nat : c > 100 => c \notin 1..100
    OBVIOUS
  <2>3. Len(d.kg_triples) \notin 1..100
    BY <2>1, <2>2
  <2> QED
    BY <2>3 DEF BadField
<1>7. ~BadField(m, "kg_triples")
  <2>1. Len(m.kg_triples) = 100
    BY <1>3 DEF CutTo
  <2> QED
    BY <1>1, <2>1 DEF BadField
<1> QED
  BY <1>1, <1>2, <1>3, <1>4, <1>5, <1>6, <1>7, MendsField

\* A mark of a triple set to something that fits.
LEMMA MendsOneMark ==
    ASSUME NEW d \in DraftShape, Tame(d), NEW n, NEW q \in Marks, BadTriple(d, n, q), NEW t, ~BadMark(t, q),
           \A k \in Marks : k # q => t[k] = d.kg_triples[n][k],
           NEW a, SetAt(a, d.kg_triples, n, t), NEW m, Replaces(m, d, "kg_triples", a)
    PROVE  Mends(m, d, <<"kg_triples", n, q>>)
<1>1. "kg_triples" \in ToolFields /\ "kg_triples" \notin Arrays
  BY DEF ToolFields, Arrays
<1>2. /\ \A g \in ToolFields : g # "kg_triples" => (BadField(m, g) <=> BadField(d, g))
      /\ \A g \in Arrays : \A i : BadItem(m, g, i) <=> BadItem(d, g, i)
  BY <1>1, OthersKept
<1>3. m.kg_triples = a /\ m \in DraftShape
  BY DEF Replaces
<1>4. DOMAIN a = DOMAIN d.kg_triples /\ Len(a) = Len(d.kg_triples) /\ a[n] = t
      /\ \A i \in DOMAIN a : i # n => a[i] = d.kg_triples[i]
  BY DEF SetAt
<1>5. ~BadTriple(m, n, q)
  BY <1>3, <1>4 DEF BadTriple
<1>6. ASSUME NEW k \in Marks, NEW i, ~(i = n /\ k = q) PROVE BadTriple(m, i, k) <=> BadTriple(d, i, k)
  <2>1. CASE i # n
    BY <1>3, <1>4, <2>1 DEF BadTriple
  <2>2. CASE i = n /\ k # q
    <3>1. t[k] = d.kg_triples[n][k]
      BY <2>2
    <3>2. BadMark(t, k) <=> BadMark(d.kg_triples[n], k)
      BY <3>1 DEF BadMark
    <3> QED
      BY <1>3, <1>4, <2>2, <3>2 DEF BadTriple
  <2> QED
    BY <1>6, <2>1, <2>2
<1>7. \A k \in Marks : \A i : BadTriple(m, i, k) => BadTriple(d, i, k)
  BY <1>5, <1>6
<1>8. Tame(m)
  <2>1. Len(m.kg_triples) <= 101
    BY <1>3, <1>4 DEF Tame
  <2> QED
    BY <1>2, <1>7, <2>1, TameKept
<1>9. BadField(m, "kg_triples") <=> BadField(d, "kg_triples")
  <2>1. Len(m.kg_triples) = Len(d.kg_triples)
    BY <1>3, <1>4
  <2> QED
    BY <1>1, <2>1 DEF BadField
<1>10. \A g \in ToolFields : BadField(m, g) <=> BadField(d, g)
  BY <1>2, <1>9
<1> QED
  BY <1>2, <1>3, <1>5, <1>6, <1>8, <1>10, MendsMark

\* The two ways an agent changes a value, and what it makes of a rejection.
WithValue(s, i, v) == [s EXCEPT ![i] = v]
MendsTo(d, e, m) == Mended(d, e) = m
CutOff(s, n) == SubSeq(s, 1, n)

\* A set of positions has a first one.
LEMMA LeastFault ==
    ASSUME NEW S, S \subseteq Nat, S # {}
    PROVE  \E m \in S : \A k \in S : m <= k
<1> DEFINE R == OpToRel(<, Nat)
<1>1. \E m \in S : \A k \in S : ~(<<k, m>> \in R)
  BY NatLessThanWellFounded, WFMin
<1>2. \A k, m \in S : <<k, m>> \in R <=> k < m
  BY DEF OpToRel
<1> HIDE DEF R
<1>3. PICK m \in S : \A k \in S : ~(<<k, m>> \in R)
  BY <1>1
<1>4. \A k \in S : ~(k < m)
  BY <1>2, <1>3
<1> QED
  BY <1>4

\* FirstOf is nil when every check is, and else the answer of one of them.
LEMMA FirstOfIs ==
    ASSUME NEW checks, DOMAIN checks \subseteq Nat
    PROVE  \/ FirstOf(checks) = NoError /\ \A i \in DOMAIN checks : checks[i] = NoError
           \/ FirstOf(checks) # NoError /\ \E i \in DOMAIN checks : FirstOf(checks) = checks[i]
<1> DEFINE failed == {i \in DOMAIN checks : checks[i] # NoError}
<1>1. CASE failed = {}
  BY <1>1 DEF FirstOf
<1>2. CASE failed # {}
  <2>1. failed \subseteq Nat
    OBVIOUS
  <2>2. \E i \in failed : \A j \in failed : i <= j
    BY ONLY <1>2, <2>1, LeastFault
  <2>3. PICK c : c = CHOOSE k \in failed : \A j \in failed : k <= j
    OBVIOUS
  <2>4. c \in failed
    BY <2>2, <2>3
  <2>5. FirstOf(checks) = checks[c]
    BY <1>2, <2>3 DEF FirstOf
  <2> QED
    BY <2>4, <2>5
<1> QED
  BY <1>1, <1>2

\* What a rejection says when the agent follows it.
LEMMA MendedText ==
    ASSUME NEW d, NEW f \in {"outcome", "rationale"}, NEW c \in {"min_length", "max_length"}, NEW v
    PROVE  Mended(d, ValidationError(<<f>>, c, v)) = WithValue(d, f, v)
<1>1. <<f>> # <<>> /\ <<f>> # <<"ticket_id">> /\ Len(<<f>>) = 1 /\ <<f>>[1] = f
  OBVIOUS
<1>2. c # "min_items" /\ c # "max_items" /\ c # "format"
  OBVIOUS
<1> QED
  BY <1>1, <1>2 DEF Mended, ValidationError, WithValue, CutOff

\* ... to shorten an array.
LEMMA MendedCut ==
    ASSUME NEW d, NEW f, f # "ticket_id", NEW n
    PROVE  Mended(d, ValidationError(<<f>>, "max_items", n)) = WithValue(d, f, CutOff(d[f], n))
<1>1. <<f>> # <<>> /\ <<f>> # <<"ticket_id">> /\ Len(<<f>>) = 1 /\ <<f>>[1] = f
  OBVIOUS
<1> QED
  BY <1>1 DEF Mended, ValidationError, WithValue, CutOff

\* ... to shorten an item.
LEMMA MendedItem ==
    ASSUME NEW d, NEW f, NEW n, NEW v
    PROVE  Mended(d, ValidationError(<<f, n>>, "max_length", v)) = WithValue(d, f, WithValue(d[f], n, v))
<1>1. <<f, n>> # <<>> /\ <<f, n>> # <<"ticket_id">> /\ Len(<<f, n>>) = 2 /\ <<f, n>>[1] = f /\ <<f, n>>[2] = n
  OBVIOUS
<1> QED
  BY <1>1 DEF Mended, ValidationError, WithValue, CutOff

\* ... to change a text of a triple.
LEMMA MendedMark ==
    ASSUME NEW d, NEW n, NEW k, NEW c \in {"min_length", "max_length"}, NEW v
    PROVE  MendsTo(d, ValidationError(<<"kg_triples", n, k>>, c, v),
                   WithValue(d, "kg_triples", WithValue(d.kg_triples, n, WithValue(d.kg_triples[n], k, v))))
<1> DEFINE p == <<"kg_triples", n, k>>
<1>1. p # <<>> /\ p # <<"ticket_id">> /\ Len(p) = 3 /\ p[1] = "kg_triples" /\ p[2] = n /\ p[3] = k
  OBVIOUS
<1>2. c # "min_items" /\ c # "max_items" /\ c # "format"
  OBVIOUS
<1> QED
  BY <1>1, <1>2 DEF Mended, ValidationError, WithValue, CutOff, MendsTo

\* ... to write a time that parses.
LEMMA MendedFormat ==
    ASSUME NEW d, NEW n
    PROVE  Mended(d, ValidationError(<<"kg_triples", n, "valid_from">>, "format", 0))
              = WithValue(d, "kg_triples", WithValue(d.kg_triples, n, WithValue(d.kg_triples[n], "valid_from", "now")))
<1> DEFINE p == <<"kg_triples", n, "valid_from">>
<1>1. p # <<>> /\ p # <<"ticket_id">> /\ p[2] = n
  OBVIOUS
<1> QED
  BY <1>1 DEF Mended, ValidationError, WithValue, CutOff

\* ... to add a triple.
LEMMA MendedEmpty ==
    ASSUME NEW d, NEW n
    PROVE  Mended(d, ValidationError(<<"kg_triples">>, "min_items", n))
              = WithValue(d, "kg_triples", Append(d.kg_triples, GoodTriple))
<1>1. <<"kg_triples">> # <<>> /\ <<"kg_triples">> # <<"ticket_id">>
  OBVIOUS
<1> QED
  BY <1>1 DEF Mended, ValidationError, WithValue, CutOff

\* ... to write, or to leave out, the ticket's id.
LEMMA MendedTicket ==
    ASSUME NEW d, NEW c
    PROVE  Mended(d, ValidationError(<<"ticket_id">>, c, 0))
              = WithValue(d, "ticket_id", IF c = "unknown_field" THEN "absent" ELSE "uuid")
<1>1. <<"ticket_id">> # <<>>
  OBVIOUS
<1> QED
  BY <1>1 DEF Mended, ValidationError, WithValue, CutOff

\* The same in the terms of the mending lemmas.
LEMMA ReplacedIs ==
    ASSUME NEW d \in DraftShape, NEW f \in ToolFields, NEW v, WithValue(d, f, v) \in DraftShape
    PROVE  Replaces(WithValue(d, f, v), d, f, v)
<1>1. DOMAIN d = ToolFields
  BY DEF DraftShape, ToolFields
<1>2. WithValue(d, f, v)[f] = v /\ \A g \in ToolFields : g # f => WithValue(d, f, v)[g] = d[g]
  BY <1>1 DEF WithValue
<1> QED
  BY <1>2 DEF Replaces

\* WithValue in a sequence.
LEMMA SetAtIs ==
    ASSUME NEW S, NEW s \in Seq(S), NEW n \in DOMAIN s, NEW v \in S
    PROVE  WithValue(s, n, v) \in Seq(S) /\ SetAt(WithValue(s, n, v), s, n, v)
<1> PICK a : a = [s EXCEPT ![n] = v]
  OBVIOUS
<1>1. DOMAIN a = DOMAIN s /\ a[n] = v /\ \A i \in DOMAIN a : i # n => a[i] = s[i]
  OBVIOUS
<1>2. a \in Seq(S) /\ Len(a) = Len(s)
  OBVIOUS
<1> QED
  BY <1>1, <1>2 DEF SetAt, WithValue

\* CutOff at a length that is exceeded.
LEMMA CutToIs ==
    ASSUME NEW S, NEW s \in Seq(S), NEW n \in Nat, Len(s) > n
    PROVE  CutOff(s, n) \in Seq(S) /\ CutTo(CutOff(s, n), s, n)
<1> PICK a : a = SubSeq(s, 1, n)
  OBVIOUS
<1>1. a = [i \in 1..n |-> s[i]]
  OBVIOUS
<1>2. n \in Nat /\ n < Len(s) /\ s \in Seq(S)
  OBVIOUS
<1>3. a \in Seq(S) /\ Len(a) = n
  BY ONLY <1>1, <1>2
<1>4. \A i \in DOMAIN a : i \in DOMAIN s /\ a[i] = s[i]
  BY ONLY <1>1, <1>2
<1>5. DOMAIN a = 1..n /\ DOMAIN s = 1..Len(s) /\ Len(s) \in Nat
  BY ONLY <1>1, <1>2
<1>6. \A i \in DOMAIN a : ~(i > n)
  BY ONLY <1>2, <1>5
<1>7. \A i \in DOMAIN s : i \in DOMAIN a \/ i > n
  BY ONLY <1>2, <1>5
<1> QED
  BY <1>3, <1>4, <1>6, <1>7 DEF CutTo, CutOff

\* The rejection e is right about d: what it asks for mends one fault of d
\* and makes no other.
MendsByIt(d, e) == e # NoError => \E p : Mends(Mended(d, e), d, p)

\* The first of several right rejections is right.
LEMMA FirstIsRight ==
    ASSUME NEW d, NEW checks, DOMAIN checks \subseteq Nat, \A i \in DOMAIN checks : MendsByIt(d, checks[i])
    PROVE  MendsByIt(d, FirstOf(checks))
BY FirstOfIs DEF MendsByIt

\* An error is never nil: it has a path.
LEMMA ErrorIsError ==
    ASSUME NEW path, path # <<>>, NEW c, NEW v
    PROVE  ValidationError(path, c, v) # NoError
BY DEF ValidationError, NoError

\* The ticket's id, in either mode.
LEMMA TicketRight ==
    ASSUME NEW d \in DraftShape, Tame(d), toolMode \in {"ticket", "oneshot"}
    PROVE  /\ MendsByIt(d, IF toolMode = "oneshot" THEN refuseTicketID(d.ticket_id) ELSE validateTicketID(d.ticket_id))
           /\ (IF toolMode = "oneshot" THEN refuseTicketID(d.ticket_id) ELSE validateTicketID(d.ticket_id)) = NoError
              => ~BadField(d, "ticket_id")
<1>1. d.ticket_id \in {"absent", "garbage", "uuid"} /\ "ticket_id" \in ToolFields /\ "ticket_id" \notin Arrays
  BY DEF DraftShape, ToolFields, Arrays
<1>2. PICK good \in {"absent", "uuid"} : good = IF toolMode = "ticket" THEN "uuid" ELSE "absent"
  OBVIOUS
<1>3. PICK m : m = WithValue(d, "ticket_id", good)
  OBVIOUS
<1>4. m \in DraftShape
  BY <1>3 DEF DraftShape, WithValue
<1>5. Replaces(m, d, "ticket_id", good)
  BY ONLY <1>1, <1>3, <1>4, d \in DraftShape, ReplacedIs
<1>6. m.ticket_id = good
  BY <1>5 DEF Replaces
<1>7. ~BadField(m, "ticket_id")
  BY <1>1, <1>2, <1>6 DEF BadField
<1>8. BadField(d, "ticket_id") <=> d.ticket_id # good
  BY <1>1, <1>2 DEF BadField
<1>9. ASSUME d.ticket_id # good PROVE Mends(m, d, <<"ticket_id">>)
  BY <1>5, <1>7, <1>8, <1>9, MendsText
<1>10. PICK e : e = IF toolMode = "oneshot" THEN refuseTicketID(d.ticket_id) ELSE validateTicketID(d.ticket_id)
  OBVIOUS
<1>11. CASE d.ticket_id = good
  BY <1>1, <1>2, <1>8, <1>10, <1>11 DEF MendsByIt, refuseTicketID, validateTicketID
<1>12. CASE d.ticket_id # good
  <2>1. PICK c : e = ValidationError(<<"ticket_id">>, c, 0) /\ (c = "unknown_field" <=> toolMode = "oneshot")
    BY <1>1, <1>2, <1>10, <1>12 DEF refuseTicketID, validateTicketID
  <2>2. Mended(d, e) = m
    BY <1>2, <1>3, <2>1, MendedTicket
  <2>3. e # NoError
    BY <2>1, ErrorIsError
  <2> QED
    BY <1>9, <1>10, <1>12, <2>2, <2>3 DEF MendsByIt
<1> QED
  BY <1>11, <1>12

\* outcome and rationale against their bounds.
BoundsOf(f, lo, hi) == \A x \in DraftShape : BadField(x, f) <=> x[f] \notin lo..hi

\* The two texts.
LEMMA TextRight ==
    ASSUME NEW d \in DraftShape, Tame(d), NEW f \in {"outcome", "rationale"}, NEW lo \in Nat, NEW hi \in Nat, lo <= hi,
           BoundsOf(f, lo, hi)
    PROVE  /\ MendsByIt(d, Ranged(d[f], lo, hi, <<f>>))
           /\ Ranged(d[f], lo, hi, <<f>>) = NoError => ~BadField(d, f)
<1>1. d[f] \in Nat /\ f \in ToolFields
  BY DEF DraftShape, ToolFields
<1>2. ASSUME NEW c \in {"min_length", "max_length"}, NEW v \in lo..hi, d[f] \notin lo..hi
      PROVE  \E p : Mends(Mended(d, ValidationError(<<f>>, c, v)), d, p)
  <2>1. PICK m : m = WithValue(d, f, v)
    OBVIOUS
  <2>2. v \in Nat
    OBVIOUS
  <2>3. m \in DraftShape
    BY <2>1, <2>2 DEF DraftShape, WithValue
  <2>4. Replaces(m, d, f, v)
    BY ONLY <1>1, <2>1, <2>3, d \in DraftShape, ReplacedIs
  <2>5. m[f] = v
    BY <2>4 DEF Replaces
  <2>6. BadField(d, f) /\ ~BadField(m, f)
    BY <1>2, <2>3, <2>5 DEF BoundsOf
  <2>7. Mends(m, d, <<f>>)
    BY <2>4, <2>6, MendsText
  <2>8. Mended(d, ValidationError(<<f>>, c, v)) = m
    BY <2>1, MendedText
  <2> QED
    BY <2>7, <2>8
<1>3. <<f>> # <<>>
  OBVIOUS
<1>4. lo \in lo..hi /\ hi \in lo..hi
  OBVIOUS
<1>5. CASE d[f] < lo
  <2>1. Ranged(d[f], lo, hi, <<f>>) = ValidationError(<<f>>, "min_length", lo)
    BY <1>1, <1>5 DEF Ranged
  <2>2. d[f] \notin lo..hi
    BY <1>1, <1>5
  <2> QED
    BY <1>2, <1>3, <1>4, <2>1, <2>2, ErrorIsError DEF MendsByIt
<1>6. CASE d[f] > hi
  <2>1. Ranged(d[f], lo, hi, <<f>>) = ValidationError(<<f>>, "max_length", hi)
    BY <1>1, <1>6 DEF Ranged
  <2>2. d[f] \notin lo..hi
    BY <1>1, <1>6
  <2> QED
    BY <1>2, <1>3, <1>4, <2>1, <2>2, ErrorIsError DEF MendsByIt
<1>7. CASE d[f] \in lo..hi
  <2>1. Ranged(d[f], lo, hi, <<f>>) = NoError
    BY <1>1, <1>7 DEF Ranged
  <2> QED
    BY <1>7, <2>1 DEF MendsByIt, BoundsOf
<1> QED
  BY <1>1, <1>5, <1>6, <1>7

\* An array's length and its items.
LEMMA ArrayRight ==
    ASSUME NEW d \in DraftShape, Tame(d), NEW f \in Arrays
    PROVE  /\ MendsByIt(d, validateStringArray(d[f], f))
           /\ validateStringArray(d[f], f) = NoError => ~BadField(d, f) /\ \A i : ~BadItem(d, f, i)
<1>1. d[f] \in Seq(Nat) /\ f \in ToolFields /\ f \notin {"json", "ticket_id", "outcome", "rationale", "kg_triples"}
  BY DEF DraftShape, ToolFields, Arrays
<1>2. Len(d[f]) \in Nat /\ DOMAIN d[f] \subseteq Nat
  BY <1>1
<1>3. ASSUME NEW a \in Seq(Nat) PROVE WithValue(d, f, a) \in DraftShape
  BY DEF WithValue, DraftShape, Arrays
<1>4. CASE Len(d[f]) > 50
  <2>1. validateStringArray(d[f], f) = ValidationError(<<f>>, "max_items", 50)
    BY <1>4 DEF validateStringArray, ArtifactArrayMax
  <2>2. PICK a : a = CutOff(d[f], 50)
    OBVIOUS
  <2>3. PICK m : m = WithValue(d, f, a)
    OBVIOUS
  <2>4. 50 \in Nat
    OBVIOUS
  <2>5. a \in Seq(Nat) /\ CutTo(a, d[f], 50)
    BY ONLY <1>1, <1>4, <2>2, <2>4, CutToIs
  <2>6. m \in DraftShape
    BY ONLY <1>3, <2>3, <2>5
  <2>7. Replaces(m, d, f, a)
    BY ONLY <1>1, <2>3, <2>6, d \in DraftShape, ReplacedIs
  <2>8. Mends(m, d, <<f>>)
    BY <1>4, <2>5, <2>7, MendsLength
  <2>9. Mended(d, ValidationError(<<f>>, "max_items", 50)) = m
    BY <1>1, <2>2, <2>3, MendedCut
  <2>10. <<f>> # <<>>
    OBVIOUS
  <2> QED
    BY <2>1, <2>8, <2>9, <2>10, ErrorIsError DEF MendsByIt
<1>5. CASE ~(Len(d[f]) > 50)
  <2>1. PICK checks : checks = [i \in DOMAIN d[f] |->
            IF d[f][i] > 500 THEN ValidationError(<<f, i>>, "max_length", 500) ELSE NoError]
    OBVIOUS
  <2>2. DOMAIN checks = DOMAIN d[f]
    BY <2>1
  <2>3. validateStringArray(d[f], f) = FirstOf(checks)
    BY <1>5, <2>1 DEF validateStringArray, ArtifactArrayMax, ArtifactItemMax
  <2>4. ASSUME NEW n \in DOMAIN checks, BadItem(d, f, n)
        PROVE  checks[n] # NoError /\ MendsByIt(d, checks[n])
    <3>1. checks[n] = ValidationError(<<f, n>>, "max_length", 500) /\ n \in DOMAIN d[f]
      BY <2>1, <2>2, <2>4 DEF BadItem
    <3>2. PICK a : a = WithValue(d[f], n, 500)
      OBVIOUS
    <3>3. 500 \in Nat
      OBVIOUS
    <3>4. a \in Seq(Nat) /\ SetAt(a, d[f], n, 500)
      BY ONLY <1>1, <3>1, <3>2, <3>3, SetAtIs
    <3>5. PICK m : m = WithValue(d, f, a)
      OBVIOUS
    <3>6. m \in DraftShape
      BY ONLY <1>3, <3>4, <3>5
    <3>7. Replaces(m, d, f, a)
      BY ONLY <1>1, <3>5, <3>6, d \in DraftShape, ReplacedIs
    <3>8. Mends(m, d, <<f, n>>)
      BY <2>4, <3>4, <3>7, MendsOneItem
    <3>9. Mended(d, checks[n]) = m
      BY <3>1, <3>2, <3>5, MendedItem
    <3>10. <<f, n>> # <<>>
      OBVIOUS
    <3>11. checks[n] # NoError
      <4>1. ValidationError(<<f, n>>, "max_length", 500) # NoError
        BY ONLY <3>10, ErrorIsError
      <4> QED
        BY ONLY <3>1, <4>1
    <3> QED
      BY ONLY <3>8, <3>9, <3>11 DEF MendsByIt
  <2>5. ASSUME NEW n \in DOMAIN checks, ~BadItem(d, f, n) PROVE checks[n] = NoError
    BY <2>1, <2>2, <2>5 DEF BadItem
  <2>6. \A n \in DOMAIN checks : MendsByIt(d, checks[n])
    BY <2>4, <2>5 DEF MendsByIt
  <2>7. MendsByIt(d, FirstOf(checks))
    BY <1>2, <2>2, <2>6, FirstIsRight
  <2>8. ASSUME FirstOf(checks) = NoError, NEW i PROVE ~BadItem(d, f, i)
    <3>1. \A n \in DOMAIN checks : checks[n] = NoError
      BY <1>2, <2>2, <2>8, FirstOfIs
    <3>2. CASE i \in DOMAIN d[f]
      BY <2>2, <2>4, <3>1, <3>2
    <3>3. CASE i \notin DOMAIN d[f]
      BY <3>3 DEF BadItem
    <3> QED
      BY <3>2, <3>3
  <2>9. ~BadField(d, f)
    BY <1>1, <1>5 DEF BadField
  <2> QED
    BY <2>3, <2>7, <2>8, <2>9
<1> QED
  BY <1>4, <1>5

\* The number of triples.
LEMMA CountRight ==
    ASSUME NEW d \in DraftShape, Tame(d)
    PROVE  /\ MendsByIt(d, validateKGTripleCount(Len(d.kg_triples)))
           /\ validateKGTripleCount(Len(d.kg_triples)) = NoError => ~BadField(d, "kg_triples")
<1>1. d.kg_triples \in Seq(TripleShape) /\ "kg_triples" \in ToolFields /\ "kg_triples" \notin Arrays
  BY DEF DraftShape, ToolFields, Arrays
<1>2. Len(d.kg_triples) \in Nat
  BY <1>1
<1>3. ASSUME NEW a \in Seq(TripleShape) PROVE WithValue(d, "kg_triples", a) \in DraftShape
  BY DEF WithValue, DraftShape
<1>4. <<"kg_triples">> # <<>>
  OBVIOUS
<1>5. CASE Len(d.kg_triples) < 1
  <2>1. validateKGTripleCount(Len(d.kg_triples)) = ValidationError(<<"kg_triples">>, "min_items", 1)
    BY <1>2, <1>5 DEF validateKGTripleCount, KGTripleArrayMin, KGTripleArrayMax
  <2>2. d.kg_triples = <<>>
    BY <1>1, <1>2, <1>5
  <2>3. Append(d.kg_triples, GoodTriple) = <<GoodTriple>>
    BY <2>2
  <2>4. GoodTriple \in TripleShape
    BY DEF GoodTriple, TripleShape
  <2>5. <<GoodTriple>> \in Seq(TripleShape)
    BY <2>4
  <2>6. PICK m : m = WithValue(d, "kg_triples", <<GoodTriple>>)
    OBVIOUS
  <2>7. m \in DraftShape
    BY ONLY <1>3, <2>5, <2>6
  <2>8. Replaces(m, d, "kg_triples", <<GoodTriple>>)
    BY ONLY <1>1, <2>6, <2>7, d \in DraftShape, ReplacedIs
  <2>9. Mends(m, d, <<"kg_triples">>)
    BY ONLY d \in DraftShape, Tame(d), <2>2, <2>8, MendsEmpty
  <2>10. Mended(d, ValidationError(<<"kg_triples">>, "min_items", 1)) = m
    BY ONLY <2>3, <2>6, MendedEmpty
  <2> QED
    BY ONLY <1>4, <2>1, <2>9, <2>10, ErrorIsError DEF MendsByIt
<1>6. CASE Len(d.kg_triples) > 100
  <2>1. validateKGTripleCount(Len(d.kg_triples)) = ValidationError(<<"kg_triples">>, "max_items", 100)
    BY <1>2, <1>6 DEF validateKGTripleCount, KGTripleArrayMin, KGTripleArrayMax
  <2>2. PICK a : a = CutOff(d.kg_triples, 100)
    OBVIOUS
  <2>3. PICK m : m = WithValue(d, "kg_triples", a)
    OBVIOUS
  <2>4. 100 \in Nat
    OBVIOUS
  <2>5. a \in Seq(TripleShape) /\ CutTo(a, d.kg_triples, 100)
    BY ONLY <1>1, <1>6, <2>2, <2>4, CutToIs
  <2>6. m \in DraftShape
    BY ONLY <1>3, <2>3, <2>5
  <2>7. Replaces(m, d, "kg_triples", a)
    BY ONLY <1>1, <2>3, <2>6, d \in DraftShape, ReplacedIs
  <2>8. Mends(m, d, <<"kg_triples">>)
    BY <1>6, <2>5, <2>7, MendsCount
  <2>9. Mended(d, ValidationError(<<"kg_triples">>, "max_items", 100)) = m
    BY <1>1, <2>2, <2>3, MendedCut
  <2> QED
    BY <1>4, <2>1, <2>8, <2>9, ErrorIsError DEF MendsByIt
<1>7. CASE ~(Len(d.kg_triples) < 1) /\ ~(Len(d.kg_triples) > 100)
  <2>1. validateKGTripleCount(Len(d.kg_triples)) = NoError
    BY <1>7 DEF validateKGTripleCount, KGTripleArrayMin, KGTripleArrayMax
  <2>2. Len(d.kg_triples) \in 1..100
    <3>1. \A c \in Nat : ~(c < 1) /\ ~(c > 100) => c \in 1..100
      OBVIOUS
    <3> QED
      BY <1>2, <1>7, <3>1
  <2>3. ~BadField(d, "kg_triples")
    BY <1>1, <2>2 DEF BadField
  <2> QED
    BY <2>1, <2>3 DEF MendsByIt
<1> QED
  BY <1>5, <1>6, <1>7

\* Setting a mark to something that fits.
LEMMA MarkSet ==
    ASSUME NEW d \in DraftShape, Tame(d), NEW n \in DOMAIN d.kg_triples, NEW q \in Marks, BadTriple(d, n, q),
           NEW v, NEW t, t = WithValue(d.kg_triples[n], q, v), t \in TripleShape, ~BadMark(t, q)
    PROVE  Mends(WithValue(d, "kg_triples", WithValue(d.kg_triples, n, t)), d, <<"kg_triples", n, q>>)
<1>1. d.kg_triples \in Seq(TripleShape) /\ "kg_triples" \in ToolFields
  BY DEF DraftShape, ToolFields
<1>2. d.kg_triples[n] \in TripleShape
  BY <1>1
<1>3. \A k \in Marks : k # q => t[k] = d.kg_triples[n][k]
  BY <1>2 DEF WithValue, TripleShape, Marks
<1>4. PICK a : a = WithValue(d.kg_triples, n, t)
  OBVIOUS
<1>5. a \in Seq(TripleShape) /\ SetAt(a, d.kg_triples, n, t)
  BY ONLY <1>1, <1>4, n \in DOMAIN d.kg_triples, t \in TripleShape, SetAtIs
<1>6. PICK m : m = WithValue(d, "kg_triples", a)
  OBVIOUS
<1>7. m \in DraftShape
  BY <1>5, <1>6 DEF WithValue, DraftShape
<1>8. Replaces(m, d, "kg_triples", a)
  BY ONLY <1>1, <1>6, <1>7, d \in DraftShape, ReplacedIs
<1>9. Mends(m, d, <<"kg_triples", n, q>>)
  BY ONLY d \in DraftShape, Tame(d), q \in Marks, BadTriple(d, n, q), ~BadMark(t, q), <1>3, <1>5, <1>8, MendsOneMark
<1> QED
  BY ONLY <1>4, <1>6, <1>9

\* The three texts of a triple.
LEMMA TripleTextRight ==
    ASSUME NEW d \in DraftShape, Tame(d), NEW n \in DOMAIN d.kg_triples, NEW q \in {"subject", "predicate", "object"}
    PROVE  /\ MendsByIt(d, validateTripleField(d.kg_triples[n], n, q))
           /\ validateTripleField(d.kg_triples[n], n, q) = NoError => ~BadTriple(d, n, q)
<1>1. q \in Marks /\ q # "valid_from"
  BY DEF Marks
<1>2. d.kg_triples \in Seq(TripleShape)
  BY DEF DraftShape
<1>3. PICK t \in TripleShape : t = d.kg_triples[n]
  BY <1>2
<1>4. t[q] \in Nat
  BY DEF TripleShape
<1>5. BadTriple(d, n, q) <=> t[q] \notin 3..500
  BY <1>1, <1>3 DEF BadTriple, BadMark
<1>6. ASSUME NEW c \in {"min_length", "max_length"}, NEW v \in 3..500, t[q] \notin 3..500
      PROVE  \E p : Mends(Mended(d, ValidationError(<<"kg_triples", n, q>>, c, v)), d, p)
  <2>1. PICK u : u = WithValue(t, q, v)
    OBVIOUS
  <2>2. v \in Nat /\ v \in 3..500
    OBVIOUS
  <2>3. u \in TripleShape
    BY <2>1, <2>2 DEF WithValue, TripleShape
  <2>4. u[q] = v
    BY <1>1, <2>1 DEF WithValue, TripleShape, Marks
  <2>5. ~BadMark(u, q)
    BY <1>1, <2>2, <2>4 DEF BadMark
  <2>6. u = WithValue(d.kg_triples[n], q, v)
    BY <1>3, <2>1
  <2>7. Mends(WithValue(d, "kg_triples", WithValue(d.kg_triples, n, u)), d, <<"kg_triples", n, q>>)
    <3>1. BadTriple(d, n, q)
      BY <1>5, <1>6
    <3>2. q \in Marks
      BY <1>1
    <3> QED
      BY ONLY d \in DraftShape, Tame(d), n \in DOMAIN d.kg_triples, <2>3, <2>5, <2>6, <3>1, <3>2, MarkSet
  <2>8. Mended(d, ValidationError(<<"kg_triples", n, q>>, c, v)) = WithValue(d, "kg_triples", WithValue(d.kg_triples, n, u))
    <3>1. MendsTo(d, ValidationError(<<"kg_triples", n, q>>, c, v),
                  WithValue(d, "kg_triples", WithValue(d.kg_triples, n, WithValue(d.kg_triples[n], q, v))))
      BY MendedMark
    <3> QED
      BY ONLY <2>6, <3>1 DEF MendsTo
  <2> QED
    BY <2>7, <2>8
<1>7. <<"kg_triples", n, q>> # <<>>
  OBVIOUS
<1>8. validateTripleField(d.kg_triples[n], n, q) = Ranged(t[q], 3, 500, <<"kg_triples", n, q>>)
  BY <1>3 DEF validateTripleField, TripleFieldMin, TripleFieldMax
<1>9. /\ 3 \in Nat /\ 500 \in Nat /\ 3 <= 500 /\ 3 \in 3..500 /\ 500 \in 3..500
      /\ "min_length" \in {"min_length", "max_length"} /\ "max_length" \in {"min_length", "max_length"}
  OBVIOUS
<1>10. \A x \in Nat : \A p :
         /\ x < 3 => Ranged(x, 3, 500, p) = ValidationError(p, "min_length", 3)
         /\ x > 500 => Ranged(x, 3, 500, p) = ValidationError(p, "max_length", 500)
         /\ x \in 3..500 => Ranged(x, 3, 500, p) = NoError
  BY ONLY DEF Ranged
<1>11. CASE t[q] < 3
  <2>1. Ranged(t[q], 3, 500, <<"kg_triples", n, q>>) = ValidationError(<<"kg_triples", n, q>>, "min_length", 3)
    BY ONLY <1>4, <1>11, <1>10
  <2>2. t[q] \notin 3..500
    BY <1>4, <1>11
  <2> QED
    <3>1. ValidationError(<<"kg_triples", n, q>>, "min_length", 3) # NoError
      BY <1>7, ErrorIsError
    <3>2. \E p : Mends(Mended(d, ValidationError(<<"kg_triples", n, q>>, "min_length", 3)), d, p)
      <4>1. PICK c \in {"min_length", "max_length"}, v \in 3..500 : c = "min_length" /\ v = 3
        BY ONLY <1>9
      <4>2. \E p : Mends(Mended(d, ValidationError(<<"kg_triples", n, q>>, c, v)), d, p)
        BY ONLY <1>6, <2>2
      <4> QED
        BY ONLY <4>1, <4>2
    <3> QED
      BY ONLY <1>8, <2>1, <3>1, <3>2 DEF MendsByIt
<1>12. CASE t[q] > 500
  <2>1. Ranged(t[q], 3, 500, <<"kg_triples", n, q>>) = ValidationError(<<"kg_triples", n, q>>, "max_length", 500)
    BY ONLY <1>4, <1>12, <1>10
  <2>2. t[q] \notin 3..500
    BY <1>4, <1>12
  <2> QED
    <3>1. ValidationError(<<"kg_triples", n, q>>, "max_length", 500) # NoError
      BY <1>7, ErrorIsError
    <3>2. \E p : Mends(Mended(d, ValidationError(<<"kg_triples", n, q>>, "max_length", 500)), d, p)
      <4>1. PICK c \in {"min_length", "max_length"}, v \in 3..500 : c = "max_length" /\ v = 500
        BY ONLY <1>9
      <4>2. \E p : Mends(Mended(d, ValidationError(<<"kg_triples", n, q>>, c, v)), d, p)
        BY ONLY <1>6, <2>2
      <4> QED
        BY ONLY <4>1, <4>2
    <3> QED
      BY ONLY <1>8, <2>1, <3>1, <3>2 DEF MendsByIt
<1>13. CASE t[q] \in 3..500
  <2>1. Ranged(t[q], 3, 500, <<"kg_triples", n, q>>) = NoError
    BY ONLY <1>4, <1>13, <1>10
  <2> QED
    BY <1>5, <1>8, <1>13, <2>1 DEF MendsByIt
<1> QED
  BY <1>4, <1>11, <1>12, <1>13

\* valid_from.
LEMMA TripleTimeRight ==
    ASSUME NEW d \in DraftShape, Tame(d), NEW n \in DOMAIN d.kg_triples
    PROVE  /\ MendsByIt(d, parseValidFrom(d.kg_triples[n].valid_from, n))
           /\ parseValidFrom(d.kg_triples[n].valid_from, n) = NoError => ~BadTriple(d, n, "valid_from")
<1>1. "valid_from" \in Marks
  BY DEF Marks
<1>2. d.kg_triples \in Seq(TripleShape)
  BY DEF DraftShape
<1>3. PICK t \in TripleShape : t = d.kg_triples[n]
  BY <1>2
<1>4. t.valid_from \in {"now", "timestamp", "garbage"}
  BY DEF TripleShape
<1>5. BadTriple(d, n, "valid_from") <=> t.valid_from = "garbage"
  BY <1>3 DEF BadTriple, BadMark
<1>6. CASE t.valid_from = "garbage"
  <2>1. PICK u : u = WithValue(t, "valid_from", "now")
    OBVIOUS
  <2>2. u \in TripleShape
    BY <2>1 DEF WithValue, TripleShape
  <2>3. u["valid_from"] = "now"
    BY <2>1 DEF WithValue, TripleShape
  <2>4. ~BadMark(u, "valid_from")
    BY <2>3 DEF BadMark
  <2>5. u = WithValue(d.kg_triples[n], "valid_from", "now")
    BY <1>3, <2>1
  <2>6. Mends(WithValue(d, "kg_triples", WithValue(d.kg_triples, n, u)), d, <<"kg_triples", n, "valid_from">>)
    BY ONLY d \in DraftShape, Tame(d), n \in DOMAIN d.kg_triples, <1>1, <1>5, <1>6, <2>2, <2>4, <2>5, MarkSet
  <2>7. parseValidFrom(d.kg_triples[n].valid_from, n) = ValidationError(<<"kg_triples", n, "valid_from">>, "format", 0)
    BY <1>3, <1>6 DEF parseValidFrom
  <2>8. Mended(d, ValidationError(<<"kg_triples", n, "valid_from">>, "format", 0)) = WithValue(d, "kg_triples", WithValue(d.kg_triples, n, u))
    BY ONLY <2>5, MendedFormat
  <2>9. <<"kg_triples", n, "valid_from">> # <<>>
    OBVIOUS
  <2> QED
    BY <2>6, <2>7, <2>8, <2>9, ErrorIsError DEF MendsByIt
<1>7. CASE t.valid_from # "garbage"
  <2>1. parseValidFrom(d.kg_triples[n].valid_from, n) = NoError
    BY <1>3, <1>4, <1>7 DEF parseValidFrom
  <2> QED
    BY <1>5, <1>7, <2>1 DEF MendsByIt
<1> QED
  BY <1>6, <1>7

\* Four checks in a row.
LEMMA OneMore ==
    ASSUME NEW S, NEW s \in Seq(S), Len(s) = 3, NEW v \in S, NEW m, m = s \o <<v>>
    PROVE  DOMAIN m = 1..4 /\ m[1] = s[1] /\ m[2] = s[2] /\ m[3] = s[3] /\ m[4] = v
<1>1. <<v>> \in Seq(S) /\ Len(<<v>>) = 1 /\ <<v>>[1] = v
  OBVIOUS
<1>2. PICK w \in Seq(S) : w = <<v>> /\ Len(w) = 1 /\ w[1] = v
  BY <1>1
<1>3. m = s \o w
  BY ONLY m = s \o <<v>>, <1>2
<1>4. m \in Seq(S) /\ Len(m) = Len(s) + Len(w)
  BY ONLY <1>2, <1>3, s \in Seq(S)
<1>5. Len(m) = 4 /\ DOMAIN m = 1..4
  BY ONLY <1>2, <1>4, Len(s) = 3
<1>6. \A i \in 1..Len(s) : m[i] = s[i]
  BY ONLY <1>2, <1>3, s \in Seq(S)
<1>7. m[Len(s) + 1] = w[1]
  BY ONLY <1>2, <1>3, s \in Seq(S)
<1> QED
  BY ONLY <1>2, <1>5, <1>6, <1>7, Len(s) = 3

\* The triples, each through its three texts and its time.
LEMMA TriplesRight ==
    ASSUME NEW d \in DraftShape, Tame(d)
    PROVE  /\ MendsByIt(d, validateKGTriples(d.kg_triples))
           /\ validateKGTriples(d.kg_triples) = NoError => \A i : \A k \in Marks : ~BadTriple(d, i, k)
<1>1. d.kg_triples \in Seq(TripleShape)
  BY DEF DraftShape
<1>2. DOMAIN d.kg_triples \subseteq Nat
  BY <1>1
<1>3. PICK marks : marks = [n \in DOMAIN d.kg_triples |->
         [k \in 1..3 |-> validateTripleField(d.kg_triples[n], n, TripleFields[k])]
            \o <<parseValidFrom(d.kg_triples[n].valid_from, n)>>]
  OBVIOUS
<1>4. PICK checks : checks = [n \in DOMAIN d.kg_triples |-> FirstOf(marks[n])]
  OBVIOUS
<1>5. DOMAIN checks = DOMAIN d.kg_triples /\ \A n \in DOMAIN d.kg_triples : checks[n] = FirstOf(marks[n])
  BY <1>4
<1>6. validateKGTriples(d.kg_triples) = FirstOf(checks)
  BY <1>3, <1>4 DEF validateKGTriples
<1>7. ASSUME NEW n \in DOMAIN d.kg_triples
      PROVE  MendsByIt(d, checks[n]) /\ (checks[n] = NoError => \A k \in Marks : ~BadTriple(d, n, k))
  <2>1. PICK s : s = validateTripleField(d.kg_triples[n], n, "subject")
    OBVIOUS
  <2>2. PICK p : p = validateTripleField(d.kg_triples[n], n, "predicate")
    OBVIOUS
  <2>3. PICK o : o = validateTripleField(d.kg_triples[n], n, "object")
    OBVIOUS
  <2>4. PICK v : v = parseValidFrom(d.kg_triples[n].valid_from, n)
    OBVIOUS
  <2>5. MendsByIt(d, s) /\ (s = NoError => ~BadTriple(d, n, "subject"))
    BY <2>1, TripleTextRight
  <2>6. MendsByIt(d, p) /\ (p = NoError => ~BadTriple(d, n, "predicate"))
    BY <2>2, TripleTextRight
  <2>7. MendsByIt(d, o) /\ (o = NoError => ~BadTriple(d, n, "object"))
    BY <2>3, TripleTextRight
  <2>8. MendsByIt(d, v) /\ (v = NoError => ~BadTriple(d, n, "valid_from"))
    BY <2>4, TripleTimeRight
  <2>9. PICK m : m = marks[n]
    OBVIOUS
  <2>10. PICK three : three = [k \in 1..3 |-> validateTripleField(d.kg_triples[n], n, TripleFields[k])]
    OBVIOUS
  <2>11. three[1] = s /\ three[2] = p /\ three[3] = o /\ DOMAIN three = 1..3
    BY <2>1, <2>2, <2>3, <2>10 DEF TripleFields
  <2>12. m = three \o <<v>>
    BY <1>3, <2>4, <2>9, <2>10
  <2>14. DOMAIN m = 1..4 /\ m[1] = s /\ m[2] = p /\ m[3] = o /\ m[4] = v
    <3>1. PICK S : S = {s, p, o, v}
      OBVIOUS
    <3>2. three \in Seq(S) /\ Len(three) = 3 /\ v \in S
      BY ONLY <2>10, <2>11, <3>1
    <3>3. DOMAIN m = 1..4 /\ m[1] = three[1] /\ m[2] = three[2] /\ m[3] = three[3] /\ m[4] = v
      BY ONLY <2>12, <3>2, OneMore
    <3> QED
      BY ONLY <2>11, <3>3
  <2>15. DOMAIN m \subseteq Nat
    BY ONLY <2>14
  <2>16. \A i \in DOMAIN m : MendsByIt(d, m[i])
    BY ONLY <2>5, <2>6, <2>7, <2>8, <2>14
  <2>17. MendsByIt(d, FirstOf(m))
    BY ONLY <2>15, <2>16, FirstIsRight
  <2>18. ASSUME FirstOf(m) = NoError PROVE \A k \in Marks : ~BadTriple(d, n, k)
    <3>1. \A i \in DOMAIN m : m[i] = NoError
      BY ONLY <2>15, <2>18, FirstOfIs
    <3>2. s = NoError /\ p = NoError /\ o = NoError /\ v = NoError
      BY ONLY <2>14, <3>1
    <3> QED
      BY <2>5, <2>6, <2>7, <2>8, <3>2 DEF Marks
  <2>19. checks[n] = FirstOf(m)
    BY <1>5, <2>9
  <2> QED
    BY <2>17, <2>18, <2>19
<1>8. MendsByIt(d, FirstOf(checks))
  BY <1>2, <1>5, <1>7, FirstIsRight
<1>9. ASSUME FirstOf(checks) = NoError, NEW i, NEW k \in Marks PROVE ~BadTriple(d, i, k)
  <2>1. \A n \in DOMAIN checks : checks[n] = NoError
    BY <1>2, <1>5, <1>9, FirstOfIs
  <2>2. CASE i \in DOMAIN d.kg_triples
    BY <1>5, <1>7, <2>1, <2>2
  <2>3. CASE i \notin DOMAIN d.kg_triples
    BY <2>3 DEF BadTriple
  <2> QED
    BY <2>2, <2>3
<1> QED
  BY <1>6, <1>8, <1>9

\* The diary entry.
LEMMA DiaryRight ==
    ASSUME NEW d \in DraftShape, Tame(d)
    PROVE  /\ MendsByIt(d, validateDiaryEntry(d))
           /\ validateDiaryEntry(d) = NoError =>
                 /\ ~BadField(d, "rationale")
                 /\ \A f \in Arrays : ~BadField(d, f) /\ \A i : ~BadItem(d, f, i)
<1>1. PICK r : r = Ranged(d.rationale, RationaleMin, RationaleMax, <<"rationale">>)
  OBVIOUS
<1>2. MendsByIt(d, r) /\ (r = NoError => ~BadField(d, "rationale"))
  <2>1. BoundsOf("rationale", 50, 4000)
    BY DEF BoundsOf, BadField, Arrays
  <2>2. 50 \in Nat /\ 4000 \in Nat /\ 50 <= 4000
    OBVIOUS
  <2>3. /\ MendsByIt(d, Ranged(d["rationale"], 50, 4000, <<"rationale">>))
        /\ Ranged(d["rationale"], 50, 4000, <<"rationale">>) = NoError => ~BadField(d, "rationale")
    BY <2>1, <2>2, TextRight
  <2> QED
    BY <1>1, <2>3 DEF RationaleMin, RationaleMax
<1>3. PICK a : a = validateStringArray(d.artifacts, "artifacts")
  OBVIOUS
<1>4. PICK b : b = validateStringArray(d.blockers, "blockers")
  OBVIOUS
<1>5. PICK c : c = validateStringArray(d.discoveries, "discoveries")
  OBVIOUS
<1>6. MendsByIt(d, a) /\ (a = NoError => ~BadField(d, "artifacts") /\ \A i : ~BadItem(d, "artifacts", i))
  BY <1>3, ArrayRight DEF Arrays
<1>7. MendsByIt(d, b) /\ (b = NoError => ~BadField(d, "blockers") /\ \A i : ~BadItem(d, "blockers", i))
  BY <1>4, ArrayRight DEF Arrays
<1>8. MendsByIt(d, c) /\ (c = NoError => ~BadField(d, "discoveries") /\ \A i : ~BadItem(d, "discoveries", i))
  BY <1>5, ArrayRight DEF Arrays
<1>9. PICK m : m = <<r, a, b, c>>
  OBVIOUS
<1>10. DOMAIN m = 1..4 /\ m[1] = r /\ m[2] = a /\ m[3] = b /\ m[4] = c
  BY ONLY <1>9
<1>11. validateDiaryEntry(d) = FirstOf(m)
  BY <1>1, <1>3, <1>4, <1>5, <1>9 DEF validateDiaryEntry
<1>12. DOMAIN m \subseteq Nat
  BY ONLY <1>10
<1>13. \A i \in DOMAIN m : MendsByIt(d, m[i])
  BY ONLY <1>2, <1>6, <1>7, <1>8, <1>10
<1>14. MendsByIt(d, FirstOf(m))
  BY ONLY <1>12, <1>13, FirstIsRight
<1>15. ASSUME FirstOf(m) = NoError
       PROVE  ~BadField(d, "rationale") /\ \A f \in Arrays : ~BadField(d, f) /\ \A i : ~BadItem(d, f, i)
  <2>1. \A i \in DOMAIN m : m[i] = NoError
    BY ONLY <1>12, <1>15, FirstOfIs
  <2>2. r = NoError /\ a = NoError /\ b = NoError /\ c = NoError
    BY ONLY <1>10, <2>1
  <2> QED
    BY <1>2, <1>6, <1>7, <1>8, <2>2 DEF Arrays
<1> QED
  BY <1>11, <1>14, <1>15

\* Every rejection mends one fault, and a draft that decodes and passes has
\* none (tool.go, Validate and ValidateOneshot).
LEMMA ValidateRight ==
    ASSUME NEW d \in DraftShape, Tame(d), toolMode \in {"ticket", "oneshot"}
    PROVE  MendsByIt(d, Validate(d)) /\ (Validate(d) = NoError /\ Decodes(d) => Wrong(d) = {})
<1>1. PICK t : t = IF toolMode = "oneshot" THEN refuseTicketID(d.ticket_id) ELSE validateTicketID(d.ticket_id)
  OBVIOUS
<1>2. MendsByIt(d, t) /\ (t = NoError => ~BadField(d, "ticket_id"))
  BY <1>1, TicketRight
<1>3. PICK o : o = validateOutcome(d.outcome)
  OBVIOUS
<1>4. MendsByIt(d, o) /\ (o = NoError => ~BadField(d, "outcome"))
  <2>1. BoundsOf("outcome", 10, 500)
    BY DEF BoundsOf, BadField, Arrays
  <2>2. 10 \in Nat /\ 500 \in Nat /\ 10 <= 500
    OBVIOUS
  <2>3. /\ MendsByIt(d, Ranged(d["outcome"], 10, 500, <<"outcome">>))
        /\ Ranged(d["outcome"], 10, 500, <<"outcome">>) = NoError => ~BadField(d, "outcome")
    BY <2>1, <2>2, TextRight
  <2> QED
    BY <1>3, <2>3 DEF validateOutcome, OutcomeMin, OutcomeMax
<1>5. PICK e : e = validateDiaryEntry(d)
  OBVIOUS
<1>6. /\ MendsByIt(d, e)
      /\ e = NoError =>
            /\ ~BadField(d, "rationale")
            /\ \A f \in Arrays : ~BadField(d, f) /\ \A i : ~BadItem(d, f, i)
  BY <1>5, DiaryRight
<1>7. PICK n : n = validateKGTripleCount(Len(d.kg_triples))
  OBVIOUS
<1>8. MendsByIt(d, n) /\ (n = NoError => ~BadField(d, "kg_triples"))
  BY <1>7, CountRight
<1>9. PICK k : k = validateKGTriples(d.kg_triples)
  OBVIOUS
<1>10. MendsByIt(d, k) /\ (k = NoError => \A i : \A q \in Marks : ~BadTriple(d, i, q))
  BY <1>9, TriplesRight
<1>11. PICK m : m = <<t, o, e, n, k>>
  OBVIOUS
<1>12. DOMAIN m = 1..5 /\ m[1] = t /\ m[2] = o /\ m[3] = e /\ m[4] = n /\ m[5] = k
  BY ONLY <1>11
<1>13. Validate(d) = FirstOf(m)
  BY <1>1, <1>3, <1>5, <1>7, <1>9, <1>11 DEF Validate
<1>14. DOMAIN m \subseteq Nat
  BY ONLY <1>12
<1>15. \A i \in DOMAIN m : MendsByIt(d, m[i])
  BY ONLY <1>2, <1>4, <1>6, <1>8, <1>10, <1>12
<1>16. MendsByIt(d, FirstOf(m))
  BY ONLY <1>14, <1>15, FirstIsRight
<1>17. ASSUME FirstOf(m) = NoError, Decodes(d) PROVE Wrong(d) = {}
  <2>1. \A i \in DOMAIN m : m[i] = NoError
    BY ONLY <1>14, <1>17, FirstOfIs
  <2>2. t = NoError /\ o = NoError /\ e = NoError /\ n = NoError /\ k = NoError
    BY ONLY <1>12, <2>1
  <2>3. ~BadField(d, "json")
    BY <1>17 DEF BadField, Arrays
  <2>4. \A f \in ToolFields : ~BadField(d, f)
    BY <1>2, <1>4, <1>6, <1>8, <2>2, <2>3 DEF ToolFields, Arrays
  <2>5. \A f \in Arrays : \A i : ~BadItem(d, f, i)
    BY <1>6, <2>2
  <2>6. \A i : \A q \in Marks : ~BadTriple(d, i, q)
    BY <1>10, <2>2
  <2> QED
    BY <2>4, <2>5, <2>6, WrongIs
<1> QED
  BY <1>13, <1>16, <1>17

\* What a function makes of a finite set.
LEMMA ImageFinite ==
    ASSUME NEW S, IsFiniteSet(S), NEW f, f = [x \in S |-> f[x]]
    PROVE  IsFiniteSet({f[x] : x \in S})
<1>1. f \in Surjection(S, {f[x] : x \in S})
  BY DEF Surjection
<1> QED
  BY <1>1, FS_Surjection

\* Four names are finitely many.
LEMMA FourFinite ==
    ASSUME NEW a, NEW b, NEW c, NEW d
    PROVE  IsFiniteSet({a, b, c, d})
<1>1. IsFiniteSet({a}) /\ IsFiniteSet({b}) /\ IsFiniteSet({c}) /\ IsFiniteSet({d})
  BY FS_Singleton
<1>2. IsFiniteSet(({a} \union {b}) \union ({c} \union {d}))
  BY <1>1, FS_Union
<1>3. {a, b, c, d} = ({a} \union {b}) \union ({c} \union {d})
  OBVIOUS
<1> QED
  BY ONLY <1>2, <1>3

\* A draft has only so many faults.
LEMMA WrongFinite ==
    ASSUME NEW d \in DraftShape
    PROVE  IsFiniteSet(Wrong(d))
<1>1. PICK N \in Nat : (\A f \in Arrays : DOMAIN d[f] \subseteq 1..N) /\ DOMAIN d.kg_triples \subseteq 1..N
  <2>1. PICK a \in Seq(Nat) : a = d.artifacts
    BY DEF DraftShape
  <2>2. PICK b \in Seq(Nat) : b = d.blockers
    BY DEF DraftShape
  <2>3. PICK c \in Seq(Nat) : c = d.discoveries
    BY DEF DraftShape
  <2>4. PICK k \in Seq(TripleShape) : k = d.kg_triples
    BY DEF DraftShape
  <2>5. PICK la, lb, lc, lk \in Nat : DOMAIN a = 1..la /\ DOMAIN b = 1..lb /\ DOMAIN c = 1..lc /\ DOMAIN k = 1..lk
    OBVIOUS
  <2>6. PICK M \in Nat : la <= M /\ lb <= M /\ lc <= M /\ lk <= M
    <3> WITNESS la + lb + lc + lk \in Nat
    <3> QED
      OBVIOUS
  <2>7. 1..la \subseteq 1..M /\ 1..lb \subseteq 1..M /\ 1..lc \subseteq 1..M /\ 1..lk \subseteq 1..M
    BY <2>6
  <2>8. \A f \in Arrays : DOMAIN d[f] \subseteq 1..M
    BY <2>1, <2>2, <2>3, <2>5, <2>7 DEF Arrays
  <2>9. DOMAIN d.kg_triples \subseteq 1..M
    BY <2>4, <2>5, <2>7
  <2> QED
    BY <2>8, <2>9
<1>2. IsFiniteSet(1..N)
  BY FS_Interval
<1>3. IsFiniteSet(ToolFields) /\ IsFiniteSet(Arrays) /\ IsFiniteSet(Marks)
  <2>1. IsFiniteSet({"json", "ticket_id", "outcome", "rationale"} \union {"artifacts", "blockers", "discoveries", "kg_triples"})
    BY FourFinite, FS_Union
  <2>2. ToolFields = {"json", "ticket_id", "outcome", "rationale"} \union {"artifacts", "blockers", "discoveries", "kg_triples"}
    BY DEF ToolFields
  <2>3. IsFiniteSet({"artifacts", "blockers", "discoveries", "discoveries"})
    BY FourFinite
  <2>4. Arrays = {"artifacts", "blockers", "discoveries", "discoveries"}
    BY DEF Arrays
  <2>5. IsFiniteSet({"subject", "predicate", "object", "valid_from"})
    BY FourFinite
  <2> QED
    BY <2>1, <2>2, <2>3, <2>4, <2>5 DEF Marks
<1>4. PICK ones : ones = {<<f>> : f \in ToolFields}
  OBVIOUS
<1>5. IsFiniteSet(ones)
  <2>1. PICK g : g = [f \in ToolFields |-> <<f>>]
    OBVIOUS
  <2>2. g = [x \in ToolFields |-> g[x]] /\ ones = {g[x] : x \in ToolFields}
    BY <1>4, <2>1
  <2> QED
    BY ONLY <1>3, <2>2, ImageFinite
<1>6. PICK twos : twos = Arrays \X (1..N)
  OBVIOUS
<1>7. IsFiniteSet(twos)
  BY <1>2, <1>3, <1>6, FS_Product
<1>8. PICK P : P = (1..N) \X Marks
  OBVIOUS
<1>9. IsFiniteSet(P)
  BY <1>2, <1>3, <1>8, FS_Product
<1>10. PICK threes : threes = {<<"kg_triples", x[1], x[2]>> : x \in P}
  OBVIOUS
<1>11. IsFiniteSet(threes)
  <2>1. PICK g : g = [x \in P |-> <<"kg_triples", x[1], x[2]>>]
    OBVIOUS
  <2>2. g = [x \in P |-> g[x]] /\ threes = {g[x] : x \in P}
    BY <1>10, <2>1
  <2> QED
    BY ONLY <1>9, <2>2, ImageFinite
<1>12. IsFiniteSet((ones \union twos) \union threes)
  BY <1>5, <1>7, <1>11, FS_Union
<1>13. ASSUME NEW x \in Wrong(d) PROVE x \in (ones \union twos) \union threes
  <2>1. CASE \E f \in ToolFields : x = <<f>> /\ BadField(d, f)
    BY <1>4, <2>1
  <2>2. CASE \E f \in Arrays : \E i : x = <<f, i>> /\ BadItem(d, f, i)
    <3>1. PICK f \in Arrays : \E i : x = <<f, i>> /\ BadItem(d, f, i)
      BY <2>2
    <3>2. PICK i : x = <<f, i>> /\ BadItem(d, f, i)
      BY <3>1
    <3>3. i \in 1..N
      BY <1>1, <3>2 DEF BadItem
    <3> QED
      BY <1>6, <3>2, <3>3
  <2>3. CASE \E i : \E k \in Marks : x = <<"kg_triples", i, k>> /\ BadTriple(d, i, k)
    <3>1. PICK i : \E k \in Marks : x = <<"kg_triples", i, k>> /\ BadTriple(d, i, k)
      BY <2>3
    <3>2. PICK k \in Marks : x = <<"kg_triples", i, k>> /\ BadTriple(d, i, k)
      BY <3>1
    <3>3. i \in 1..N
      BY <1>1, <3>2 DEF BadTriple
    <3>4. <<i, k>> \in P /\ x = <<"kg_triples", <<i, k>>[1], <<i, k>>[2]>>
      BY <1>8, <3>2, <3>3
    <3> QED
      BY <1>10, <3>4
  <2> QED
    BY <2>1, <2>2, <2>3, WrongIs
<1>14. Wrong(d) \in SUBSET ((ones \union twos) \union threes)
  BY <1>13
<1> QED
  BY ONLY <1>12, <1>14, FS_Subset

\* Mending takes one fault away.
LEMMA MendsOne ==
    ASSUME NEW d \in DraftShape, NEW m, NEW p, Mends(m, d, p)
    PROVE  /\ m \in DraftShape /\ Tame(m) /\ Cardinality(Wrong(d)) \in Nat
           /\ Cardinality(Wrong(m)) = Cardinality(Wrong(d)) - 1
<1>1. IsFiniteSet(Wrong(d))
  BY WrongFinite
<1>2. m \in DraftShape /\ Tame(m) /\ p \in Wrong(d) /\ Wrong(m) = Wrong(d) \ {p}
  BY DEF Mends
<1>3. Cardinality(Wrong(d) \ {p}) = Cardinality(Wrong(d)) - 1
  BY <1>1, <1>2, FS_RemoveElement
<1> QED
  BY <1>1, <1>2, <1>3, FS_CardinalityType

-----------------------------------------------------------------------------
\* v is a value field f of a first draft may have.
FitsField(f, v) ==
    /\ f = "json" => v \in {"ok", "loose", "mistyped", "broken"}
    /\ f = "ticket_id" => v \in {"absent", "garbage", "uuid"}
    /\ f \in {"outcome", "rationale"} => v \in Nat
    /\ f \in Arrays => v \in Seq(Nat) /\ \A i \in DOMAIN v : i > 50 => ~(v[i] > 500)
    /\ f = "kg_triples" =>
          v \in Seq(TripleShape) /\ Len(v) <= 101 /\ \A i \in DOMAIN v : \A k \in Marks : i > 100 => ~BadMark(v[i], k)

\* A tame draft stays one with such a value.
LEMMA PutFits ==
    ASSUME NEW d \in DraftShape, Tame(d), NEW f \in ToolFields, NEW v, FitsField(f, v)
    PROVE  WithValue(d, f, v) \in DraftShape /\ Tame(WithValue(d, f, v))
<1>1. PICK m : m = WithValue(d, f, v)
  OBVIOUS
<1>2. m \in DraftShape
  <2>1. CASE f = "json"
    <3>1. v \in {"ok", "loose", "mistyped", "broken"}
      BY <2>1 DEF FitsField
    <3> QED
      BY <1>1, <2>1, <3>1 DEF WithValue, DraftShape
  <2>2. CASE f = "ticket_id"
    <3>1. v \in {"absent", "garbage", "uuid"}
      BY <2>2 DEF FitsField
    <3> QED
      BY <1>1, <2>2, <3>1 DEF WithValue, DraftShape
  <2>3. CASE f \in {"outcome", "rationale"}
    <3>1. v \in Nat
      BY <2>3 DEF FitsField
    <3> QED
      BY <1>1, <2>3, <3>1 DEF WithValue, DraftShape
  <2>4. CASE f \in Arrays
    <3>1. v \in Seq(Nat)
      BY <2>4 DEF FitsField
    <3> QED
      BY <1>1, <2>4, <3>1 DEF WithValue, DraftShape, Arrays
  <2>5. CASE f = "kg_triples"
    <3>1. v \in Seq(TripleShape)
      BY <2>5 DEF FitsField
    <3> QED
      BY <1>1, <2>5, <3>1 DEF WithValue, DraftShape
  <2> QED
    BY <2>1, <2>2, <2>3, <2>4, <2>5 DEF ToolFields, Arrays
<1>3. Replaces(m, d, f, v)
  BY ONLY d \in DraftShape, f \in ToolFields, <1>1, <1>2, ReplacedIs
<1>4. m[f] = v /\ \A g \in ToolFields : g # f => m[g] = d[g]
  BY <1>3 DEF Replaces
<1>5. "kg_triples" \in ToolFields /\ Arrays \subseteq ToolFields
  BY DEF ToolFields, Arrays
<1>6. Len(m.kg_triples) <= 101
  BY <1>4, <1>5 DEF FitsField, Tame
<1>7. ASSUME NEW g \in Arrays, NEW i \in DOMAIN m[g], i > 50 PROVE ~BadItem(m, g, i)
  <2>1. CASE g = f
    BY <1>4, <1>7, <2>1 DEF FitsField, BadItem
  <2>2. CASE g # f
    BY <1>4, <1>5, <1>7, <2>2 DEF Tame, BadItem
  <2> QED
    BY <2>1, <2>2
<1>8. ASSUME NEW i \in DOMAIN m.kg_triples, NEW k \in Marks, i > 100 PROVE ~BadTriple(m, i, k)
  <2>1. CASE f = "kg_triples"
    BY <1>4, <1>8, <2>1 DEF FitsField, BadTriple
  <2>2. CASE f # "kg_triples"
    BY <1>4, <1>5, <1>8, <2>2 DEF Tame, BadTriple
  <2> QED
    BY <2>1, <2>2
<1>9. Tame(m)
  BY <1>6, <1>7, <1>8 DEF Tame
<1> QED
  BY <1>1, <1>2, <1>9

\* v is x, n times.
Uniform(v, S, n, x) == v \in Seq(S) /\ Len(v) = n /\ DOMAIN v = 1..n /\ \A i \in 1..n : v[i] = x

\* An array of n equal items.
LEMMA TimesIs ==
    ASSUME NEW S, NEW x \in S, NEW n \in Nat
    PROVE  Uniform(Times(n, x), S, n, x)
BY DEF Times, Uniform

\* The arrays of first drafts.
LEMMA ItemsFit ==
    ASSUME NEW f \in Arrays, NEW v \in Items
    PROVE  FitsField(f, v)
<1>1. v \in Seq(Nat) /\ \A i \in DOMAIN v : i > 50 => ~(v[i] > 500)
  <2>1. CASE v = Times(50, 500)
    <3>1. Uniform(v, Nat, 50, 500)
      BY <2>1, TimesIs
    <3> QED
      BY ONLY <3>1 DEF Uniform
  <2>2. CASE v = Times(51, 0)
    <3>1. Uniform(v, Nat, 51, 0)
      BY <2>2, TimesIs
    <3> QED
      BY ONLY <3>1 DEF Uniform
  <2>3. CASE v = <<0, 501>>
    <3>1. v \in Seq(Nat) /\ DOMAIN v = 1..2
      BY <2>3
    <3> QED
      BY <3>1
  <2> QED
    BY <2>1, <2>2, <2>3 DEF Items
<1>2. f \notin {"json", "ticket_id", "outcome", "rationale", "kg_triples"}
  BY DEF Arrays
<1> QED
  BY <1>1, <1>2 DEF FitsField

\* The triples of first drafts.
LEMMA TriplesFit ==
    ASSUME NEW v \in DraftValues["kg_triples"]
    PROVE  FitsField("kg_triples", v)
<1>1. ASSUME v \in Seq(TripleShape), NEW n \in 0..100, DOMAIN v = 1..n, Len(v) = n PROVE FitsField("kg_triples", v)
  <2>1. \A i \in DOMAIN v : ~(i > 100)
    BY <1>1
  <2>2. Len(v) <= 101
    BY <1>1
  <2>3. "kg_triples" \notin Arrays
    BY DEF Arrays
  <2> QED
    BY <1>1, <2>1, <2>2, <2>3 DEF FitsField
<1>2. CASE v = <<>>
  <2>1. v \in Seq(TripleShape) /\ 0 \in 0..100 /\ DOMAIN v = 1..0 /\ Len(v) = 0
    BY <1>2
  <2> QED
    BY <1>1, <2>1
<1>3. CASE v = Times(100, GoodTriple)
  <2>1. v \in Seq(TripleShape) /\ DOMAIN v = 1..100 /\ Len(v) = 100
    <3>1. Uniform(v, TripleShape, 100, GoodTriple)
      BY <1>3, GoodIsGood, TimesIs
    <3> QED
      BY ONLY <3>1 DEF Uniform
  <2>2. 100 \in 0..100
    OBVIOUS
  <2> QED
    BY <1>1, <2>1, <2>2
<1>4. CASE v = Times(101, GoodTriple)
  <2>1. v \in Seq(TripleShape) /\ DOMAIN v = 1..101 /\ Len(v) = 101 /\ \A i \in 1..101 : v[i] = GoodTriple
    <3>1. Uniform(v, TripleShape, 101, GoodTriple)
      BY <1>4, GoodIsGood, TimesIs
    <3> QED
      BY ONLY <3>1 DEF Uniform
  <2>2. \A i \in DOMAIN v : \A k \in Marks : ~BadMark(v[i], k)
    BY <2>1, GoodIsGood
  <2>3. Len(v) <= 101 /\ "kg_triples" \notin Arrays
    BY <2>1 DEF Arrays
  <2> QED
    BY <2>1, <2>2, <2>3 DEF FitsField
<1>5. ASSUME NEW g \in {"subject", "predicate", "object"}, NEW n \in {2, 501},
             v = <<GoodTriple, [GoodTriple EXCEPT ![g] = n]>>
      PROVE  FitsField("kg_triples", v)
  <2>1. PICK t \in TripleShape : t = [GoodTriple EXCEPT ![g] = n]
    <3>1. PICK G \in TripleShape : G = GoodTriple
      BY GoodIsGood
    <3>2. n \in Nat
      OBVIOUS
    <3>3. [G EXCEPT ![g] = n] \in TripleShape
      BY <3>2 DEF TripleShape
    <3> QED
      BY <3>1, <3>3
  <2>2. v = <<GoodTriple, t>>
    BY <1>5, <2>1
  <2>3. v \in Seq(TripleShape) /\ DOMAIN v = 1..2 /\ Len(v) = 2
    BY ONLY <2>2, GoodIsGood, t \in TripleShape
  <2>4. 2 \in 0..100
    OBVIOUS
  <2> QED
    BY <1>1, <2>3, <2>4
<1>6. ASSUME NEW w \in {"timestamp", "garbage"}, v = <<[GoodTriple EXCEPT !.valid_from = w]>>
      PROVE  FitsField("kg_triples", v)
  <2>1. PICK t \in TripleShape : t = [GoodTriple EXCEPT !.valid_from = w]
    <3>1. PICK G \in TripleShape : G = GoodTriple
      BY GoodIsGood
    <3>2. [G EXCEPT !.valid_from = w] \in TripleShape
      BY DEF TripleShape
    <3> QED
      BY <3>1, <3>2
  <2>2. v = <<t>>
    BY <1>6, <2>1
  <2>3. v \in Seq(TripleShape) /\ DOMAIN v = 1..1 /\ Len(v) = 1
    BY ONLY <2>2, t \in TripleShape
  <2>4. 1 \in 0..100
    OBVIOUS
  <2> QED
    BY <1>1, <2>3, <2>4
<1>7. v \in {<<>>, Times(100, GoodTriple), Times(101, GoodTriple)} \union
        {<<GoodTriple, [GoodTriple EXCEPT ![f] = n]>> : f \in {"subject", "predicate", "object"}, n \in {2, 501}}
        \union {<<[GoodTriple EXCEPT !.valid_from = w]>> : w \in {"timestamp", "garbage"}}
  BY DEF DraftValues
<1> QED
  BY <1>2, <1>3, <1>4, <1>5, <1>6, <1>7

\* Every value that is enumerated fits its field.
LEMMA ValuesFit ==
    ASSUME NEW f \in DOMAIN DraftValues, NEW v \in DraftValues[f]
    PROVE  f \in ToolFields /\ FitsField(f, v)
<1>1. DOMAIN DraftValues = ToolFields
  BY DEF DraftValues, ToolFields
<1>2. CASE f = "json"
  <2>1. v \in {"ok", "loose", "mistyped", "broken"}
    <3>1. DraftValues["json"] = {"loose", "mistyped", "broken"}
      BY DEF DraftValues
    <3> QED
      BY <1>2, <3>1
  <2> QED
    BY <1>2, <2>1 DEF FitsField, Arrays, ToolFields
<1>3. CASE f = "ticket_id"
  <2>1. v \in {"absent", "garbage", "uuid"}
    <3>1. DraftValues["ticket_id"] = {"absent", "garbage", "uuid"}
      BY DEF DraftValues
    <3> QED
      BY <1>3, <3>1
  <2> QED
    BY <1>3, <2>1 DEF FitsField, Arrays, ToolFields
<1>4. CASE f = "outcome"
  <2>1. v \in Nat
    <3>1. DraftValues["outcome"] = {9, 500, 501}
      BY DEF DraftValues
    <3> QED
      BY <1>4, <3>1
  <2> QED
    BY <1>4, <2>1 DEF FitsField, Arrays, ToolFields
<1>5. CASE f = "rationale"
  <2>1. v \in Nat
    <3>1. DraftValues["rationale"] = {49, 4000, 4001}
      BY DEF DraftValues
    <3> QED
      BY <1>5, <3>1
  <2> QED
    BY <1>5, <2>1 DEF FitsField, Arrays, ToolFields
<1>6. CASE f \in Arrays
  <2>1. v \in Items
    BY <1>6 DEF DraftValues, Arrays
  <2> QED
    BY <1>6, <2>1, ItemsFit DEF Arrays, ToolFields
<1>7. CASE f = "kg_triples"
  BY <1>7, TriplesFit DEF ToolFields
<1> QED
  BY <1>1, <1>2, <1>3, <1>4, <1>5, <1>6, <1>7 DEF ToolFields, Arrays

\* Every first draft has the tool's shape.
LEMMA FirstDraftsFit ==
    ASSUME NEW mode \in {"ticket", "oneshot"}, NEW d \in FirstDrafts(mode)
    PROVE  d \in DraftShape /\ Tame(d)
<1>1. PICK s : s = SoundDraft(mode)
  OBVIOUS
<1>2. s \in DraftShape
  <2>1. <<GoodTriple>> \in Seq(TripleShape) /\ <<>> \in Seq(Nat)
    BY GoodIsGood
  <2> QED
    BY <1>1, <2>1 DEF SoundDraft, DraftShape
<1>3. Tame(s)
  <2>1. s.kg_triples = <<GoodTriple>> /\ s.artifacts = <<>> /\ s.blockers = <<>> /\ s.discoveries = <<>>
    BY <1>1 DEF SoundDraft
  <2>2. Len(s.kg_triples) = 1 /\ DOMAIN s.kg_triples = 1..1
    BY <2>1
  <2>3. \A f \in Arrays : DOMAIN s[f] = {}
    BY <2>1 DEF Arrays
  <2> QED
    BY <2>2, <2>3 DEF Tame
<1>4. PICK f \in DOMAIN DraftValues, g \in DOMAIN DraftValues :
         \E v \in DraftValues[f], w \in DraftValues[g] : d = [s EXCEPT ![f] = v, ![g] = w]
  BY <1>1 DEF FirstDrafts
<1>5. PICK v \in DraftValues[f], w \in DraftValues[g] : d = [s EXCEPT ![f] = v, ![g] = w]
  BY <1>4
<1>6. f \in ToolFields /\ FitsField(f, v) /\ g \in ToolFields /\ FitsField(g, w)
  BY ValuesFit
<1>7. PICK m : m = WithValue(s, f, v)
  OBVIOUS
<1>8. m \in DraftShape /\ Tame(m)
  BY ONLY <1>2, <1>3, <1>6, <1>7, PutFits
<1>9. d = WithValue(m, g, w)
  <2>1. DOMAIN s = ToolFields
    BY <1>2 DEF DraftShape, ToolFields
  <2> QED
    BY <1>5, <1>7, <2>1 DEF WithValue
<1> QED
  BY ONLY <1>6, <1>8, <1>9, PutFits

\* The line breaks among the first n bytes, and the bytes after the last one.
BreaksIn(text, n) == {i \in 1..n : text[i] = "newline"}
AfterBreaks(text, n) == {i \in 1..n : \A b \in BreaksIn(text, n) : b < i}

\* Where the walk of decodePosition is after n bytes, said without walking.
PlaceAfter(text, n) ==
    [line |-> Cardinality(BreaksIn(text, n)) + 1, column |-> Cardinality(AfterBreaks(text, n)) + 1]

\* Lines and columns are numbers.
LEMMA PlacesFinite ==
    ASSUME NEW text, NEW n \in Nat
    PROVE  /\ IsFiniteSet(BreaksIn(text, n)) /\ Cardinality(BreaksIn(text, n)) \in Nat
           /\ IsFiniteSet(AfterBreaks(text, n)) /\ Cardinality(AfterBreaks(text, n)) \in Nat
<1>1. IsFiniteSet(1..n)
  BY FS_Interval
<1>2. BreaksIn(text, n) \subseteq 1..n /\ AfterBreaks(text, n) \subseteq 1..n
  BY DEF BreaksIn, AfterBreaks
<1> QED
  BY <1>1, <1>2, FS_Subset, FS_CardinalityType

\* One byte more: a line break starts a line, another byte a column.
LEMMA PlaceStep ==
    ASSUME NEW text, NEW n \in Nat \ {0}
    PROVE  PlaceAfter(text, n) =
              IF text[n] = "newline" THEN [line |-> PlaceAfter(text, n - 1).line + 1, column |-> 1]
              ELSE [PlaceAfter(text, n - 1) EXCEPT !.column = @ + 1]
<1>1. PICK m \in Nat : m = n - 1
  OBVIOUS
<1>2. \A i : i \in 1..n <=> i \in 1..m \/ i = n
  BY <1>1
<1>3. n \notin 1..m /\ \A i \in 1..m : i < n
  BY <1>1
<1>4. PICK B : B = BreaksIn(text, m)
  OBVIOUS
<1>5. PICK A : A = AfterBreaks(text, m)
  OBVIOUS
<1>6. B \subseteq 1..m /\ A \subseteq 1..m
  BY <1>4, <1>5 DEF BreaksIn, AfterBreaks
<1>7. IsFiniteSet(B) /\ Cardinality(B) \in Nat /\ IsFiniteSet(A) /\ Cardinality(A) \in Nat
  BY <1>4, <1>5, PlacesFinite
<1>8. CASE text[n] = "newline"
  <2>1. BreaksIn(text, n) = B \union {n}
    BY <1>2, <1>4, <1>8 DEF BreaksIn
  <2>2. Cardinality(B \union {n}) = Cardinality(B) + 1
    BY <1>3, <1>6, <1>7, FS_AddElement
  <2>3. AfterBreaks(text, n) = {}
    <3>1. n \in BreaksIn(text, n)
      BY <2>1
    <3>2. \A i \in 1..n : ~(n < i)
      OBVIOUS
    <3> QED
      BY <3>1, <3>2 DEF AfterBreaks
  <2>4. Cardinality(AfterBreaks(text, n)) + 1 = 1
    BY <2>3, FS_EmptySet
  <2> QED
    BY <1>1, <1>4, <1>8, <2>1, <2>2, <2>4 DEF PlaceAfter
<1>9. CASE text[n] # "newline"
  <2>1. BreaksIn(text, n) = B
    BY <1>2, <1>4, <1>9 DEF BreaksIn
  <2>2. AfterBreaks(text, n) = A \union {n}
    <3>1. AfterBreaks(text, n) = {i \in 1..n : \A b \in B : b < i}
      BY <2>1 DEF AfterBreaks
    <3>2. A = {i \in 1..m : \A b \in B : b < i}
      BY <1>4, <1>5 DEF AfterBreaks
    <3>3. \A b \in B : b < n
      BY <1>3, <1>6
    <3> QED
      BY <1>2, <3>1, <3>2, <3>3
  <2>3. Cardinality(A \union {n}) = Cardinality(A) + 1
    BY <1>3, <1>6, <1>7, FS_AddElement
  <2>4. PICK c \in Nat : c = Cardinality(A)
    BY <1>7
  <2>5. PlaceAfter(text, n) = [line |-> Cardinality(B) + 1, column |-> (c + 1) + 1]
    BY <2>1, <2>2, <2>3, <2>4 DEF PlaceAfter
  <2>6. PlaceAfter(text, n - 1) = [line |-> Cardinality(B) + 1, column |-> c + 1]
    BY <1>1, <1>4, <1>5, <2>4 DEF PlaceAfter
  <2> QED
    BY <1>9, <2>5, <2>6
<1> QED
  BY <1>8, <1>9

\* f follows the walk of decodePosition over the text.
WalksOver(f, text) ==
    f = [n \in 0..Len(text) |->
            IF n = 0 THEN [line |-> 1, column |-> 1]
            ELSE IF text[n] = "newline" THEN [line |-> f[n - 1].line + 1, column |-> 1]
            ELSE [f[n - 1] EXCEPT !.column = @ + 1]]

\* Before the first byte.
LEMMA PlaceStart ==
    ASSUME NEW text
    PROVE  PlaceAfter(text, 0) = [line |-> 1, column |-> 1]
<1>1. BreaksIn(text, 0) = {} /\ AfterBreaks(text, 0) = {}
  BY DEF BreaksIn, AfterBreaks
<1> QED
  BY <1>1, FS_EmptySet DEF PlaceAfter

\* The walk exists: it is where the places are.
LEMMA WalkExists ==
    ASSUME NEW text, Len(text) \in Nat
    PROVE  \E f : WalksOver(f, text)
<1>1. PICK f : f = [n \in 0..Len(text) |-> PlaceAfter(text, n)]
  OBVIOUS
<1>2. PICK g : g = [n \in 0..Len(text) |->
            IF n = 0 THEN [line |-> 1, column |-> 1]
            ELSE IF text[n] = "newline" THEN [line |-> f[n - 1].line + 1, column |-> 1]
            ELSE [f[n - 1] EXCEPT !.column = @ + 1]]
  OBVIOUS
<1>3. ASSUME NEW n \in 0..Len(text) PROVE f[n] = g[n]
  <2>1. CASE n = 0
    BY <1>1, <1>2, <2>1, PlaceStart
  <2>2. CASE n # 0
    <3>1. n \in Nat \ {0} /\ n - 1 \in 0..Len(text)
      BY <2>2
    <3>2. f[n] = PlaceAfter(text, n) /\ f[n - 1] = PlaceAfter(text, n - 1)
      BY <1>1, <3>1
    <3> QED
      BY <1>2, <2>2, <3>1, <3>2, PlaceStep
  <2> QED
    BY <2>1, <2>2
<1>4. f = g
  BY <1>1, <1>2, <1>3
<1> QED
  BY <1>2, <1>4 DEF WalksOver

\* Every walk is there: a least place where it is not would follow one where it is.
LEMMA WalkIsPlace ==
    ASSUME NEW text, Len(text) \in Nat, NEW f, WalksOver(f, text), NEW m \in 0..Len(text)
    PROVE  f[m] = PlaceAfter(text, m)
<1> SUFFICES ASSUME f[m] # PlaceAfter(text, m) PROVE FALSE
  OBVIOUS
<1> DEFINE R == OpToRel(<, Nat)
<1>1. PICK T : T = {n \in 0..Len(text) : f[n] # PlaceAfter(text, n)}
  OBVIOUS
<1>2. T \subseteq Nat /\ T # {}
  BY <1>1
<1>3. \E x \in T : \A y \in T : ~(<<y, x>> \in R)
  BY <1>2, NatLessThanWellFounded, WFMin
<1>4. \A x, y \in T : <<y, x>> \in R <=> y < x
  BY <1>2 DEF OpToRel
<1> HIDE DEF R
<1>5. PICK x \in T : \A y \in T : ~(y < x)
  BY <1>3, <1>4
<1>6. x \in 0..Len(text) /\ f[x] # PlaceAfter(text, x)
  BY <1>1, <1>5
<1>7. PICK g : g = [n \in 0..Len(text) |->
            IF n = 0 THEN [line |-> 1, column |-> 1]
            ELSE IF text[n] = "newline" THEN [line |-> f[n - 1].line + 1, column |-> 1]
            ELSE [f[n - 1] EXCEPT !.column = @ + 1]]
  OBVIOUS
<1>8. f = g
  BY <1>7 DEF WalksOver
<1>9. x # 0
  <2>1. g[0] = [line |-> 1, column |-> 1]
    BY <1>7
  <2> QED
    BY <1>6, <1>8, <2>1, PlaceStart
<1>10. x \in Nat \ {0} /\ x - 1 \in 0..Len(text)
  BY <1>6, <1>9
<1>11. x - 1 \notin T
  BY <1>5, <1>10
<1>12. f[x - 1] = PlaceAfter(text, x - 1)
  BY <1>1, <1>10, <1>11
<1>13. g[x] = IF text[x] = "newline" THEN [line |-> f[x - 1].line + 1, column |-> 1]
              ELSE [f[x - 1] EXCEPT !.column = @ + 1]
  BY <1>6, <1>7, <1>9
<1>14. g[x] = PlaceAfter(text, x)
  BY <1>10, <1>12, <1>13, PlaceStep
<1> QED
  BY <1>6, <1>8, <1>14

\* decodePosition finds the place of the byte it stops at.
LEMMA PositionFound ==
    ASSUME NEW text, Len(text) \in Nat \ {0}, text # <<>>, NEW offset \in Nat \ {0},
           NEW at, at = decodePosition(text, offset)
    PROVE  /\ at.line = PlaceAfter(text, Least(offset, Len(text))).line
           /\ at.column = PlaceAfter(text, Least(offset, Len(text))).column
           /\ 0 <= at.from /\ at.to <= Len(text)
           /\ at.from < at.to /\ at.to - at.from <= 2 * ExcerptHalf
           /\ Least(offset, Len(text)) \in at.from..at.to
<1> USE ToolAssumption
<1>1. PICK g : WalksOver(g, text) /\
         LET here == g[Least(offset, Len(text))]
         IN  decodePosition(text, offset) =
               IF text = <<>> \/ offset <= 0 THEN [line |-> 1, column |-> 1, from |-> 0, to |-> 0]
               ELSE IF offset > Len(text)
               THEN [line |-> here.line, column |-> here.column,
                     from |-> Most(Len(text) - 2 * ExcerptHalf, 0), to |-> Len(text)]
               ELSE [line |-> here.line, column |-> here.column,
                     from |-> Most(offset - ExcerptHalf, 0), to |-> Least(offset + ExcerptHalf, Len(text))]
  BY WalkExists DEF decodePosition, WalksOver
<1>2. Least(offset, Len(text)) \in 0..Len(text)
  BY DEF Least
<1>3. g[Least(offset, Len(text))] = PlaceAfter(text, Least(offset, Len(text)))
  BY <1>1, <1>2, WalkIsPlace
<1>4. CASE offset > Len(text)
  <2>1. at = [line |-> PlaceAfter(text, Least(offset, Len(text))).line, column |-> PlaceAfter(text, Least(offset, Len(text))).column,
              from |-> Most(Len(text) - 2 * ExcerptHalf, 0), to |-> Len(text)]
    BY <1>1, <1>3, <1>4
  <2>2. Least(offset, Len(text)) = Len(text)
    BY <1>4 DEF Least
  <2> QED
    BY <2>1, <2>2 DEF Most
<1>5. CASE ~(offset > Len(text))
  <2>1. at = [line |-> PlaceAfter(text, Least(offset, Len(text))).line, column |-> PlaceAfter(text, Least(offset, Len(text))).column,
              from |-> Most(offset - ExcerptHalf, 0), to |-> Least(offset + ExcerptHalf, Len(text))]
    BY <1>1, <1>3, <1>5
  <2>2. Least(offset, Len(text)) = offset
    BY <1>5 DEF Least
  <2> QED
    BY <1>5, <2>1, <2>2 DEF Most, Least
<1> QED
  BY <1>4, <1>5

\* What PositionIsRight says of one answer.
Pointed(w) ==
    w.text # <<>> /\ w.offset > 0 =>
        LET seen == 1..Least(w.offset, Len(w.text))
            breaks == {i \in seen : w.text[i] = "newline"}
        IN  /\ w.at.line = Cardinality(breaks) + 1
            /\ w.at.column = Cardinality({i \in seen : \A b \in breaks : b < i}) + 1
            /\ 0 <= w.at.from /\ w.at.to <= Len(w.text)
            /\ w.at.from < w.at.to /\ w.at.to - w.at.from <= 2 * ExcerptHalf
            /\ Least(w.offset, Len(w.text)) \in w.at.from..w.at.to

\* The answers there are.
AnswerKinds == Rejections \union {"none", "ok", "state", "dberror", "rpc"}

\* The inductive invariant of the finalize server: the faults that are left
\* and those that were told are the first draft's, and an ok can still be
\* late only while a call is past the check.
ToolInv ==
    /\ toolMode \in {"ticket", "oneshot"} /\ toolUp \in BOOLEAN
    /\ toolCall \in {"none", "read", "open"} /\ toolAnswer.kind \in AnswerKinds
    /\ attempts \in Nat /\ told \in Nat /\ lateOk \in Nat
    /\ finalized \in BOOLEAN /\ accepted \in BOOLEAN /\ toolFaults \in 0..MaxToolFault
    /\ draft \in DraftShape /\ Tame(draft)
    /\ told + Cardinality(Wrong(draft)) = draftFaults
    /\ toolAnswer.kind = "ok" => Wrong(draft) = {}
    /\ Pointed(toolAnswer.where)
    /\ toolCall = "open" => lateOk = 0
    /\ ~finalized => lateOk = 0
    /\ lateOk <= 1

\* What is wrong with a draft does not depend on the step.
LEMMA WrongStill ==
    ASSUME toolMode' = toolMode, NEW m, m = draft'
    PROVE  Wrong(draft)' = Wrong(m)
BY DEF Wrong, WrongFields, WrongItems, WrongMarks, BadField, BadMark, Arrays, Marks

\* Nor does what a draft may look like.
LEMMA TameStill ==
    ASSUME NEW m, m = draft'
    PROVE  Tame(draft)' <=> Tame(m)
BY DEF Tame, BadItem, BadTriple, BadMark, Arrays, Marks

\* The position of a decode error.
LEMMA DecodedRight ==
    ASSUME NEW text \in Texts, NEW offset \in 0..MaxText + 1, NEW w,
           w = [text |-> text, offset |-> offset, at |-> decodePosition(text, offset)]
    PROVE  Pointed(w)
<1>1. w.text = text /\ w.offset = offset /\ w.at = decodePosition(text, offset)
  OBVIOUS
<1> SUFFICES ASSUME text # <<>>, offset > 0 PROVE Pointed(w)
  BY <1>1 DEF Pointed
<1>2. PICK n \in Nat : text \in [1..n -> {"newline", "byte"}]
  BY ToolAssumption DEF Texts
<1>3. Len(text) = n
  BY <1>2
<1>4. n # 0
  BY <1>2, <1>3
<1>5. Len(text) \in Nat \ {0}
  BY <1>3, <1>4
<1>6. offset \in Nat \ {0}
  BY ToolAssumption
<1>7. PICK at : at = decodePosition(text, offset)
  OBVIOUS
<1>8. /\ at.line = PlaceAfter(text, Least(offset, Len(text))).line
      /\ at.column = PlaceAfter(text, Least(offset, Len(text))).column
      /\ 0 <= at.from /\ at.to <= Len(text)
      /\ at.from < at.to /\ at.to - at.from <= 2 * ExcerptHalf
      /\ Least(offset, Len(text)) \in at.from..at.to
  BY ONLY <1>5, <1>6, <1>7, text # <<>>, PositionFound
<1>9. w.at = at
  BY ONLY <1>1, <1>7
<1> QED
  BY ONLY <1>1, <1>8, <1>9 DEF Pointed, PlaceAfter, BreaksIn, AfterBreaks

\* Other answers give no position.
LEMMA NoTextPointed == \A k, e : LET a == Answer(k, e, NoText) IN a.kind = k /\ Pointed(a.where)
BY DEF Answer, NoText, Pointed

\* The invariant holds when the server starts.
LEMMA ToolInvInit ==
    ASSUME ToolInit
    PROVE  ToolInv
<1> USE ToolAssumption DEF ToolInit
<1>1. draft \in DraftShape /\ Tame(draft)
  BY FirstDraftsFit
<1>2. IsFiniteSet(Wrong(draft))
  BY <1>1, WrongFinite
<1>3. Cardinality(Wrong(draft)) \in Nat
  BY <1>2, FS_CardinalityType
<1>4. toolAnswer.kind = "none" /\ Pointed(toolAnswer.where)
  BY NoTextPointed
<1>5. toolUp \in BOOLEAN /\ finalized \in BOOLEAN /\ accepted \in BOOLEAN
  OBVIOUS
<1>6. told + Cardinality(Wrong(draft)) = draftFaults
  BY <1>3
<1>7. toolAnswer.kind \in AnswerKinds /\ toolAnswer.kind # "ok"
  BY <1>4 DEF AnswerKinds
<1>8. toolMode \in {"ticket", "oneshot"} /\ toolCall = "none" /\ attempts = 0 /\ told = 0 /\ lateOk = 0 /\ toolFaults = 0
  OBVIOUS
<1> QED
  BY ONLY <1>1, <1>4, <1>5, <1>6, <1>7, <1>8, ToolAssumption DEF ToolInv

\* Every step of the server, the agent and the supervisor keeps it.
LEMMA ToolInvStep ==
    ASSUME ToolInv, [ToolNext]_toolVars
    PROVE  ToolInv'
<1> USE ToolAssumption
<1>1. PICK m : m = draft'
  OBVIOUS
<1>2. ASSUME toolMode' = toolMode, draft' = draft PROVE (draft \in DraftShape)' /\ Tame(draft)' /\ Wrong(draft)' = Wrong(draft)
  <2>1. Wrong(draft)' = Wrong(draft)
    BY <1>2, WrongStill
  <2>2. Tame(draft)' <=> Tame(draft)
    BY <1>2, TameStill
  <2> QED
    BY <1>2, <2>1, <2>2 DEF ToolInv
<1>3. CASE UNCHANGED toolVars
  BY <1>2, <1>3 DEF ToolInv, toolVars
<1>4. CASE ToolsCall
  BY <1>2, <1>4 DEF ToolInv, ToolsCall, AgentCalls
<1>5. CASE OtherRequest
  BY <1>2, <1>5, NoTextPointed DEF ToolInv, OtherRequest, AgentCalls, AnswerKinds
<1>6. CASE LoopEnds
  <2>1. toolUp' \in BOOLEAN
    BY <1>6 DEF LoopEnds
  <2>2. UNCHANGED <<toolMode, draft, draftFaults, toolCall, attempts, finalized, toolAnswer, told, accepted, lateOk>>
    BY <1>6 DEF LoopEnds
  <2>3. toolFaults' \in 0..MaxToolFault
    BY <1>6 DEF LoopEnds, ToolInv
  <2> QED
    BY <1>2, <2>1, <2>2, <2>3 DEF ToolInv, Pointed
<1>7. CASE CheckCommitted
  BY <1>2, <1>7, NoTextPointed DEF ToolInv, CheckCommitted, AnswerKinds
<1>8. CASE CheckFails
  BY <1>2, <1>8, NoTextPointed DEF ToolInv, CheckFails, AnswerKinds
<1>9. CASE SupervisorCommits
  BY <1>2, <1>9 DEF ToolInv, SupervisorCommits
<1>10. CASE Accept
  <2>1. Wrong(draft) = {}
    BY <1>10, ValidateRight DEF ToolInv, Accept
  <2> QED
    BY <1>2, <1>10, <2>1, NoTextPointed DEF ToolInv, Accept, AnswerKinds
<1>11. ASSUME toolMode' = toolMode, NEW p, Mends(m, draft, p)
       PROVE  /\ (draft \in DraftShape)' /\ Tame(draft)'
              /\ Cardinality(Wrong(draft))' = Cardinality(Wrong(draft)) - 1 /\ Cardinality(Wrong(draft)) \in Nat
  <2>1. draft \in DraftShape
    BY DEF ToolInv
  <2>2. /\ m \in DraftShape /\ Tame(m) /\ Cardinality(Wrong(draft)) \in Nat
        /\ Cardinality(Wrong(m)) = Cardinality(Wrong(draft)) - 1
    BY <1>11, <2>1, MendsOne
  <2>3. Wrong(draft)' = Wrong(m)
    BY <1>1, <1>11, WrongStill
  <2>4. Tame(draft)'
    BY <1>1, <2>2, TameStill
  <2> QED
    BY <1>1, <2>2, <2>3, <2>4
<1>12. CASE DecodeFails
  <2>1. m = WithValue(draft, "json", "ok")
    BY <1>1, <1>12 DEF DecodeFails, WithValue
  <2>2. draft \in DraftShape /\ Tame(draft) /\ ~Decodes(draft)
    BY <1>12 DEF ToolInv, DecodeFails
  <2>3. m \in DraftShape
    BY <2>1, <2>2 DEF WithValue, DraftShape
  <2>4. "json" \in ToolFields
    BY DEF ToolFields
  <2>5. Replaces(m, draft, "json", "ok")
    BY ONLY <2>1, <2>2, <2>3, <2>4, ReplacedIs
  <2>6. m.json = "ok"
    BY <2>5 DEF Replaces
  <2>7. BadField(draft, "json") /\ ~BadField(m, "json")
    BY <2>2, <2>6 DEF BadField, Decodes, Arrays
  <2>8. Mends(m, draft, <<"json">>)
    BY <2>2, <2>5, <2>7, MendsText
  <2>9. toolAnswer'.kind \in {"decode", "validation"} /\ Pointed(toolAnswer'.where)
    <3>1. CASE \E text \in Texts, offset \in 0..MaxText + 1 :
             toolAnswer' = Answer("decode", NoError, [text |-> text, offset |-> offset, at |-> decodePosition(text, offset)])
      <4>1. PICK text \in Texts, offset \in 0..MaxText + 1 :
             toolAnswer' = Answer("decode", NoError, [text |-> text, offset |-> offset, at |-> decodePosition(text, offset)])
        BY <3>1
      <4>2. PICK w : w = [text |-> text, offset |-> offset, at |-> decodePosition(text, offset)]
        OBVIOUS
      <4>3. toolAnswer' = Answer("decode", NoError, w)
        BY ONLY <4>1, <4>2
      <4>4. Pointed(w)
        BY ONLY <4>2, text \in Texts, offset \in 0..MaxText + 1, DecodedRight
      <4> QED
        BY ONLY <4>3, <4>4 DEF Answer
    <3>2. CASE toolAnswer' = Answer("validation", NoError, NoText)
      BY <3>2, NoTextPointed
    <3> QED
      BY <1>12, <3>1, <3>2 DEF DecodeFails
  <2> QED
    BY <1>11, <1>12, <2>8, <2>9 DEF ToolInv, DecodeFails, AnswerKinds, Rejections, Pointed
<1>13. CASE ValidateFails
  <2>1. draft \in DraftShape /\ Tame(draft) /\ toolMode \in {"ticket", "oneshot"}
    BY DEF ToolInv
  <2>2. PICK p : Mends(m, draft, p)
    BY <1>1, <1>13, <2>1, ValidateRight DEF ValidateFails, MendsByIt
  <2>3. toolAnswer'.kind = "validation" /\ Pointed(toolAnswer'.where)
    BY <1>13, NoTextPointed DEF ValidateFails
  <2> QED
    BY <1>11, <1>13, <2>2, <2>3 DEF ToolInv, ValidateFails, AnswerKinds, Rejections, Pointed
<1> QED
  BY <1>3, <1>4, <1>5, <1>6, <1>7, <1>8, <1>9, <1>10, <1>12, <1>13 DEF ToolNext, ToolStep

\* Where the published schema and the validator's rules differ, for any draft.
LEMMA ToolSchemaGap ==
    ASSUME draft \in DraftShape, toolMode \in {"ticket", "oneshot"}
    PROVE  /\ Wrong(draft) = {} => Published(draft) \/ draft.json = "loose"
           /\ Published(draft) => Wrong(draft) \subseteq {<<"ticket_id">>} \union WrongMarks(draft)
<1>1. /\ OutcomeMin = 10 /\ OutcomeMax = 500 /\ RationaleMin = 50 /\ RationaleMax = 4000
      /\ ArtifactArrayMax = 50 /\ ArtifactItemMax = 500 /\ KGTripleArrayMin = 1
      /\ KGTripleArrayMax = 100 /\ TripleFieldMin = 3
  BY DEF OutcomeMin, OutcomeMax, RationaleMin, RationaleMax, ArtifactArrayMax, ArtifactItemMax,
         KGTripleArrayMin, KGTripleArrayMax, TripleFieldMin
<1>2. /\ draft.json \in {"ok", "loose", "mistyped", "broken"} /\ draft.ticket_id \in {"absent", "garbage", "uuid"}
      /\ draft.outcome \in Nat /\ draft.rationale \in Nat
      /\ \A f \in Arrays : draft[f] \in Seq(Nat)
      /\ draft.kg_triples \in Seq(TripleShape)
  BY DEF DraftShape, Arrays
<1>3. ASSUME Wrong(draft) = {}, draft.json # "loose"
      PROVE  Published(draft)
  <2>1. \A f \in ToolFields : ~BadField(draft, f)
    BY <1>3, WrongIs
  <2>2. \A f \in Arrays : \A i : ~BadItem(draft, f, i)
    BY <1>3, WrongIs
  <2>3. \A i : \A k \in Marks : ~BadTriple(draft, i, k)
    BY <1>3, WrongIs
  <2>4. draft.json = "ok"
    BY <1>2, <1>3, <2>1 DEF BadField, ToolFields, Decodes
  <2>5. (draft.ticket_id = "absent") = (toolMode = "oneshot")
    BY <2>1 DEF BadField, ToolFields
  <2>6. draft.outcome \in 10..500 /\ draft.rationale \in 50..4000 /\ Len(draft.kg_triples) \in 1..100
    BY <2>1 DEF BadField, ToolFields
  <2>7. ASSUME NEW f \in Arrays
        PROVE  Len(draft[f]) <= 50 /\ \A i \in DOMAIN draft[f] : draft[f][i] <= 500
    <3>1. ~(Len(draft[f]) > 50)
      BY <2>1 DEF BadField, ToolFields, Arrays
    <3>2. draft[f] \in Seq(Nat)
      BY <1>2
    <3>3. \A i \in DOMAIN draft[f] : ~(draft[f][i] > 500)
      BY <2>2 DEF BadItem
    <3> QED
      BY <3>1, <3>2, <3>3
  <2>8. ASSUME NEW i \in DOMAIN draft.kg_triples, NEW f \in {"subject", "predicate", "object"}
        PROVE  draft.kg_triples[i][f] >= 3
    <3>1. draft.kg_triples[i][f] \in 3..500
      BY <2>3 DEF BadTriple, BadMark, Marks
    <3> QED
      BY <3>1
  <2> QED
    BY <1>1, <2>4, <2>5, <2>6, <2>7, <2>8 DEF Published
<1>4. ASSUME Published(draft), NEW x \in Wrong(draft)
      PROVE  x \in {<<"ticket_id">>} \union WrongMarks(draft)
  <2>1. ASSUME NEW f \in ToolFields, x = <<f>>, BadField(draft, f), f # "ticket_id" PROVE FALSE
    BY <1>1, <1>2, <1>4, <2>1 DEF BadField, ToolFields, Arrays, Decodes, Published
  <2>2. ASSUME NEW f \in Arrays, NEW i, BadItem(draft, f, i) PROVE FALSE
    BY <1>1, <1>2, <1>4, <2>2 DEF BadItem, Published
  <2>3. ASSUME NEW i, NEW k \in Marks, x = <<"kg_triples", i, k>>, BadTriple(draft, i, k)
        PROVE  x \in WrongMarks(draft)
    BY <2>3 DEF BadTriple, WrongMarks
  <2> QED
    BY <1>4, <2>1, <2>2, <2>3, WrongIs
<1> QED
  BY <1>3, <1>4

\* What the invariant says of the answers.
LEMMA ToolSafe ==
    ASSUME ToolInv
    PROVE  ToolTypeOK /\ AnswersAreRight
<1>1. ToolTypeOK
  <2>1. draft.json \in {"ok", "loose", "mistyped", "broken"} /\ Len(draft.kg_triples) \in Nat
    BY DEF ToolInv, DraftShape
  <2>2. Len(draft.kg_triples) <= 101
    BY DEF ToolInv, Tame
  <2>3. \A n \in Nat : n <= 101 => n \in 0..101
    OBVIOUS
  <2>4. Len(draft.kg_triples) \in 0..101
    BY <2>1, <2>2, <2>3
  <2> QED
    BY <2>1, <2>4 DEF ToolInv, ToolTypeOK, AnswerKinds
<1>2. MendingConverges /\ LateOkBound
  BY DEF ToolInv, MendingConverges, LateOkBound
<1>3. PositionIsRight
  BY DEF ToolInv, Pointed, PositionIsRight
<1>4. SchemaGap
  BY ToolSchemaGap DEF ToolInv, SchemaGap
<1> QED
  BY <1>1, <1>2, <1>3, <1>4 DEF AnswersAreRight
=============================================================================
