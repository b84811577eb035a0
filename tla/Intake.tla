------------------------------- MODULE Intake -------------------------------
(***************************************************************************)
(* How tickets come in besides the operator's form: GitHub webhooks        *)
(* (internal/ingress) and the create_ticket verb of chats and agents       *)
(* (internal/garrisonmutate, internal/throttle).  Webhook requests run     *)
(* concurrently, and an operator may have GitHub send a delivery again;    *)
(* verb calls count the department's week and insert at READ COMMITTED.    *)
(***************************************************************************)
EXTENDS Integers, Sequences, FiniteSets

CONSTANTS
    Guids,          \* X-GitHub-Delivery values
    Requests,       \* concurrent webhook requests
    Creators,       \* concurrent create_ticket callers
    Burst,          \* capacity of the connector's token bucket
    WeeklyBudget,   \* departments.weekly_ticket_budget
    MaxCreated,     \* bound on tickets of the verb
    MaxNoise,       \* bound on requests that are not accepted events
    MaxIntakeFault  \* bound on failed transactions and restarts

ASSUME IntakeAssumption ==
    /\ IsFiniteSet(Guids) /\ IsFiniteSet(Creators) /\ Creators # {}
    /\ Burst \in Nat \ {0} /\ WeeklyBudget \in Nat
    /\ MaxCreated \in Nat /\ MaxNoise \in Nat /\ MaxIntakeFault \in Nat

VARIABLES
    http,          \* webhook requests in the handler
    tokens,        \* RateCap's bucket
    deliveries,    \* ingress_deliveries committed
    ingressMade,   \* tickets committed per delivery
    week,          \* origins of the department's tickets of the last 7 days
    creating,      \* create_ticket calls
    intakeBounds   \* verb tickets, noise and faults so far

intakeVars == <<http, tokens, deliveries, ingressMade, week, creating, intakeBounds>>

\* What a request carries: an accepted event, or one of the reasons to stop.
Kinds == {"issue", "forged", "unsubscribed", "noise", "nokey", "unrouted", "malformed"}
Answers == {"202", "200", "duplicate", "400", "401", "429", "500"}
NoRequest == [pc |-> "none", guid |-> "", kind |-> "issue"]

IntakeTypeOK ==
    /\ \A r \in Requests :
        /\ http[r].pc \in {"none", "read", "verified", "mapped", "inserted"} \union Answers
        /\ http[r].kind \in Kinds
        /\ http[r].pc # "none" => http[r].guid \in Guids
    /\ tokens \in 0..Burst
    /\ deliveries \subseteq Guids
    /\ ingressMade \in [Guids -> Nat]
    /\ week \in Seq({"ingress", "verb"}) /\ Len(week) <= MaxCreated + Cardinality(Guids)
    /\ creating \in [Creators -> {"idle", "allowed", "rejected"}]
    /\ intakeBounds \in [created: 0..MaxCreated, noise: 0..MaxNoise, faults: 0..MaxIntakeFault]

IntakeInit ==
    /\ http = [r \in Requests |-> NoRequest]
    /\ tokens = Burst
    /\ deliveries = {}
    /\ ingressMade = [g \in Guids |-> 0]
    /\ week = <<>>
    /\ creating = [c \in Creators |-> "idle"]
    /\ intakeBounds = [created |-> 0, noise |-> 0, faults |-> 0]

IntakeFault ==
    /\ intakeBounds.faults < MaxIntakeFault
    /\ intakeBounds' = [intakeBounds EXCEPT !.faults = @ + 1]

Reply(r, code) == http' = [http EXCEPT ![r].pc = code]
InHandler(r) == http[r].pc \in {"read", "verified", "mapped", "inserted"}

-----------------------------------------------------------------------------
(* The webhook handler *)

\* GitHub sends a delivery, or an operator has it sent again from the
\* webhook's page; what was answered as taken is not sent again.
Deliver(r, g) ==
    /\ ~InHandler(r)
    /\ ~\E k \in Requests : http[k].guid = g /\ http[k].kind = "issue" /\ http[k].pc \in {"202", "duplicate"}
    /\ http' = [http EXCEPT ![r] = [pc |-> "read", guid |-> g, kind |-> "issue"]]
    /\ UNCHANGED <<tokens, deliveries, ingressMade, week, creating, intakeBounds>>

\* Anything else that reaches the port, under any delivery id.
DeliverOther(r, g, kind) ==
    /\ ~InHandler(r)
    /\ kind # "issue"
    /\ intakeBounds.noise < MaxNoise
    /\ intakeBounds' = [intakeBounds EXCEPT !.noise = @ + 1]
    /\ http' = [http EXCEPT ![r] = [pc |-> "read", guid |-> g, kind |-> kind]]
    /\ UNCHANGED <<tokens, deliveries, ingressMade, week, creating>>

\* Steps 1 to 4: the subscription check comes before the signature.
Authenticate(r) ==
    /\ http[r].pc = "read"
    /\ Reply(r, CASE http[r].kind = "unsubscribed" -> "200"
                  [] http[r].kind = "forged" -> "401"
                  [] OTHER -> "verified")
    /\ UNCHANGED <<tokens, deliveries, ingressMade, week, creating, intakeBounds>>

\* Filter and DeliveryID: bots, pings and other actions are discarded.
Filtered(kind) == kind \in {"noise", "nokey"}

\* Mutant: the delivery is recorded before the cap is asked.
OverCapRecords(r) == tokens = 0 /\ Reply(r, "429") /\ deliveries' = deliveries \union {http[r].guid} /\ UNCHANGED tokens

\* RateCap.Allow is false: 429, and no row of the delivery.
OverCap(r) == tokens = 0 /\ Reply(r, "429") /\ UNCHANGED <<deliveries, tokens>>

\* Step 8, after a token was taken: no route for the event type is a discard,
\* a body without the object it announces an error.
MapEvent(kind) ==
    CASE kind = "unrouted" -> "200"
      [] kind = "malformed" -> "500"
      [] OTHER -> "mapped"

\* Steps 5 to 8.
FilterAndCap(r) ==
    /\ http[r].pc = "verified"
    /\ \/ /\ Filtered(http[r].kind)
          /\ Reply(r, IF http[r].kind = "nokey" THEN "400" ELSE "200")
          /\ UNCHANGED <<deliveries, tokens>>
       \/ ~Filtered(http[r].kind) /\ OverCap(r)
       \/ /\ ~Filtered(http[r].kind)
          /\ tokens > 0 /\ tokens' = tokens - 1
          /\ Reply(r, MapEvent(http[r].kind))
          /\ UNCHANGED deliveries
    /\ UNCHANGED <<ingressMade, week, creating, intakeBounds>>

\* Mutant: buckets refill past the burst.
RefilledUncapped == tokens + 1

\* The refill is capped at the burst.
Refilled == IF tokens < Burst THEN tokens + 1 ELSE tokens

Refill ==
    /\ tokens' = Refilled
    /\ UNCHANGED <<http, deliveries, ingressMade, week, creating, intakeBounds>>

\* Mutant: a delivery somebody else is still inserting counts as recorded.
InsertDeliveryNoWait(r) ==
    LET g == http[r].guid
        busy == \E k \in Requests \ {r} : http[k].pc = "inserted" /\ http[k].guid = g
    IN  Reply(r, IF busy \/ g \in deliveries THEN "duplicate" ELSE "inserted")

\* insertDelivery: the unique index makes a second insert of the same id wait
\* for the first transaction; then it is a duplicate or the first.
InsertDelivery(r) ==
    LET g == http[r].guid
    IN  /\ ~\E k \in Requests \ {r} : http[k].pc = "inserted" /\ http[k].guid = g
        /\ Reply(r, IF g \in deliveries THEN "duplicate" ELSE "inserted")

IngressTxBegins(r) ==
    /\ http[r].pc = "mapped"
    /\ InsertDelivery(r)
    /\ UNCHANGED <<tokens, deliveries, ingressMade, week, creating, intakeBounds>>

\* The ticket, the backfill and the commit.
IngressTxCommits(r) ==
    /\ http[r].pc = "inserted"
    /\ deliveries' = deliveries \union {http[r].guid}
    /\ ingressMade' = [ingressMade EXCEPT ![http[r].guid] = @ + 1]
    /\ week' = Append(week, "ingress")
    /\ Reply(r, "202")
    /\ UNCHANGED <<tokens, creating, intakeBounds>>

\* Mutant: the ticket is in the transaction that failed, the delivery is not.
RollbackKeepsDelivery(r) == deliveries' = deliveries \union {http[r].guid}

\* The rollback takes the delivery row with it.
Rollback(r) == UNCHANGED deliveries

IngressTxFails(r) ==
    /\ http[r].pc = "inserted"
    /\ IntakeFault
    /\ Rollback(r)
    /\ Reply(r, "500")
    /\ UNCHANGED <<tokens, ingressMade, week, creating>>

\* The process dies: open transactions roll back, the bucket starts full.
IntakeRestart ==
    /\ IntakeFault
    /\ http' = [r \in Requests |-> IF InHandler(r) THEN NoRequest ELSE http[r]]
    /\ tokens' = Burst
    /\ creating' = [c \in Creators |-> "idle"]
    /\ UNCHANGED <<deliveries, ingressMade, week>>

-----------------------------------------------------------------------------
(* create_ticket *)

\* Mutant: the gate lets the ticket through that exceeds the budget.
DeptWeeklyAllowsOneMore(n) == n <= WeeklyBudget

\* CheckDeptWeekly on a count of committed tickets.
DeptWeeklyAllows(n) == n + 1 <= WeeklyBudget

\* prepCreateTicket up to the gate; a refusal is recorded in a transaction of
\* its own.
PrepCreateTicket(c) ==
    /\ creating[c] = "idle"
    /\ intakeBounds.created + Cardinality({k \in Creators : creating[k] = "allowed"}) < MaxCreated
    /\ creating' = [creating EXCEPT ![c] = IF DeptWeeklyAllows(Len(week)) THEN "allowed" ELSE "rejected"]
    /\ UNCHANGED <<http, tokens, deliveries, ingressMade, week, intakeBounds>>

InsertTicketM8(c) ==
    /\ creating[c] = "allowed"
    /\ intakeBounds' = [intakeBounds EXCEPT !.created = @ + 1]
    /\ week' = Append(week, "verb")
    /\ creating' = [creating EXCEPT ![c] = "idle"]
    /\ UNCHANGED <<http, tokens, deliveries, ingressMade>>

WriteDeptWeeklyRejection(c) ==
    /\ creating[c] = "rejected"
    /\ creating' = [creating EXCEPT ![c] = "idle"]
    /\ UNCHANGED <<http, tokens, deliveries, ingressMade, week, intakeBounds>>

\* The oldest ticket leaves the rolling week.
WeekPasses ==
    /\ week # <<>>
    /\ week' = Tail(week)
    /\ UNCHANGED <<http, tokens, deliveries, ingressMade, creating, intakeBounds>>

HandlerStep(r) ==
    \/ Authenticate(r)
    \/ FilterAndCap(r)
    \/ IngressTxBegins(r)
    \/ IngressTxCommits(r)

\* A sent delivery passes the cap.
Admitted(g) ==
    \E r \in Requests :
        http[r].guid = g /\ http[r].kind = "issue" /\ FilterAndCap(r) /\ tokens' < tokens

IntakeNext ==
    \/ \E r \in Requests :
        \/ \E g \in Guids : Deliver(r, g)
        \/ \E g \in Guids, kind \in Kinds : DeliverOther(r, g, kind)
        \/ HandlerStep(r)
        \/ IngressTxFails(r)
    \/ Refill
    \/ IntakeRestart
    \/ \E c \in Creators :
        \/ PrepCreateTicket(c)
        \/ InsertTicketM8(c)
        \/ WriteDeptWeeklyRejection(c)
    \/ WeekPasses

-----------------------------------------------------------------------------
(* Properties *)

\* A delivery makes at most one ticket, however often and however concurrently
\* it is sent, and is recorded exactly when it made one (runIngressTx).
OneTicketPerDelivery ==
    \A g \in Guids : ingressMade[g] <= 1 /\ (g \in deliveries <=> ingressMade[g] = 1)

\* What the handler tells GitHub is true: a delivery answered 202, or called a
\* duplicate, has its ticket, so nothing that is lost is not sent again
\* (mapAndPersist, insertDelivery).
AnswersAreTrue ==
    \A r \in Requests : http[r].pc \in {"202", "duplicate"} => ingressMade[http[r].guid] = 1

\* The weekly budget is read and the ticket inserted without a lock: callers
\* that are all past the gate exceed it by their number less one, never by
\* more (CheckDeptWeekly).
WeeklyOvershoot ==
    Cardinality({i \in DOMAIN week : week[i] = "verb"}) <= WeeklyBudget + Cardinality(Creators) - 1

\* An accepted event that is sent again until it is answered as taken becomes
\* a ticket, whatever was over the cap, failed or died on the way: no refused
\* or failed attempt leaves a row that turns the next one away (filterAndCap
\* before the insert).  GitHub does not send again by itself.
RedeliveryArrives ==
    \A g \in Guids :
        (\E r \in Requests : http[r].guid = g /\ http[r].kind = "issue" /\ http[r].pc # "none")
            ~> (ingressMade[g] = 1)

\* Tickets that enter from outside are counted right: one per delivery, every
\* answer to GitHub true, and the weekly budget exceeded at most by the
\* callers that passed the gate together.
IntakeIsCounted == OneTicketPerDelivery /\ AnswersAreTrue /\ WeeklyOvershoot
=============================================================================
