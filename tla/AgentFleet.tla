---------------------------- MODULE AgentFleet ----------------------------
(***************************************************************************)
(* The fleet of per-agent containers at boot: migrate7 gives every agent   *)
(* that has none a host uid and a container, in the order the agents were  *)
(* created and stopping at the first failure; then the shape reconcile     *)
(* walks the agents that have a uid and brings each container to the shape *)
(* the current configuration asks for.  Any docker or database call may    *)
(* fail and the supervisor may crash between two of them; containers       *)
(* outlive it.  Agents are numbered by created_at.                         *)
(***************************************************************************)
EXTENDS Integers, FiniteSets

CONSTANTS
    NAgents,        \* agents, seeded or hired later
    Seeded,         \* how many exist at the first boot
    UIDStart,       \* cfg.AgentUIDRangeStart
    UIDEnd,         \* cfg.AgentUIDRangeEnd
    MaxDeploy,      \* bound on deployments that change the container shape
    MaxFleetFault   \* bound on failures, crashes and stopped containers

ASSUME FleetAssumption ==
    /\ NAgents \in Nat /\ Seeded \in 0..NAgents
    /\ UIDStart \in Nat \ {0} /\ UIDEnd \in Nat
    /\ MaxDeploy \in Nat /\ MaxFleetFault \in Nat

VARIABLES
    staff,         \* agents: host_uid, image_digest, last_grandfathered_at
    box,           \* the containers docker holds, by the agent's name
    boot,          \* the supervisor's position in its boot sequence
    deployed,      \* the deployment: image tag and configuration
    boxLog,        \* agent_container_events: each agent's latest kind
    intact,        \* no failure in this boot's reconcile, no container stopped since
    fleetFaults

fleetVars == <<staff, box, boot, deployed, boxLog, intact, fleetFaults>>

AgentNos == 1..NAgents
NoUid == 0
NoBox == [is |-> FALSE, uid |-> NoUid, image |-> 0, cfg |-> 0, up |-> FALSE]
Down == [pc |-> "down", todo |-> {}, on |-> 0, uid |-> NoUid, report |-> [a \in AgentNos |-> "unchanged"]]
AgentKinds == {"none", "migrated", "created", "started"}

FleetTypeOK ==
    /\ staff \in [AgentNos -> [hired : BOOLEAN, uid : {NoUid} \union UIDStart..UIDEnd, image : 0..MaxDeploy]]
    /\ box \in [AgentNos -> [is : BOOLEAN, uid : {NoUid} \union UIDStart..UIDEnd, image : 0..MaxDeploy,
                             cfg : 0..MaxDeploy, up : BOOLEAN]]
    /\ boot.pc \in {"down", "migrate", "start", "record", "reconcile", "walk", "remove", "create", "run", "serve"}
    /\ boot.todo \subseteq AgentNos
    /\ boxLog \in [AgentNos -> AgentKinds]
    /\ deployed \in 0..MaxDeploy /\ fleetFaults \in 0..MaxFleetFault

FleetInit ==
    /\ staff = [a \in AgentNos |-> [hired |-> a <= Seeded, uid |-> NoUid, image |-> 0]]
    /\ box = [a \in AgentNos |-> NoBox]
    /\ boot = Down
    /\ deployed = 0
    /\ boxLog = [a \in AgentNos |-> "none"]
    /\ intact = FALSE
    /\ fleetFaults = 0

FleetFault == fleetFaults < MaxFleetFault /\ fleetFaults' = fleetFaults + 1

-----------------------------------------------------------------------------
(* Docker, as the controller uses it. *)

\* buildCreateBody: the label hashes every field of the create request.
ShapeOf(uid, image) == [NoBox EXCEPT !.is = TRUE, !.uid = uid, !.image = image, !.cfg = deployed]
\* Mutant: any container of the right uid will do.
SameShapeUidOnly(b, c) == b.uid = c.uid

\* Mutant: the hash covers a map in iteration order and never repeats.
SameShapeUnordered(b, c) == FALSE

SameShape(b, c) == b.uid = c.uid /\ b.image = c.image /\ b.cfg = c.cfg

\* Create answers 409 when the agent's name is taken.
CanCreate(a) == ~ box[a].is

-----------------------------------------------------------------------------
(* migrate7.Run *)

ListAgentsNotGrandfathered == {a \in AgentNos : staff[a].hired /\ staff[a].uid = NoUid}
FirstCreated(S) == CHOOSE a \in S : \A b \in S : a <= b
UidsInUse == {staff[a].uid : a \in AgentNos} \ {NoUid}

AllocateNextHostUID ==
    IF UidsInUse = {} THEN UIDStart ELSE 1 + (CHOOSE u \in UidsInUse : \A v \in UidsInUse : v <= u)

BootStarts ==
    /\ boot.pc = "down"
    /\ boot' = [Down EXCEPT !.pc = "migrate", !.todo = ListAgentsNotGrandfathered]
    /\ intact' = FALSE
    /\ UNCHANGED <<staff, box, deployed, boxLog, fleetFaults>>

\* Mutant: Run skips the agent and goes on with the next.
RunSkips == boot' = [boot EXCEPT !.pc = "migrate", !.todo = @ \ {FirstCreated(@)}]

\* Run returns the first error; boot goes on with a warning.
RunStops == boot' = [Down EXCEPT !.pc = "reconcile"]

RunDone ==
    /\ boot.pc = "migrate" /\ boot.todo = {}
    /\ boot' = [Down EXCEPT !.pc = "reconcile"]
    /\ UNCHANGED <<staff, box, deployed, boxLog, intact, fleetFaults>>

\* grandfatherOne up to the container's creation.
GrandfatherCreates ==
    /\ boot.pc = "migrate" /\ boot.todo # {}
    /\ LET a == FirstCreated(boot.todo)
           uid == AllocateNextHostUID
       IN  IF uid <= UIDEnd /\ CanCreate(a)
           THEN /\ box' = [box EXCEPT ![a] = ShapeOf(uid, deployed)]
                /\ boot' = [boot EXCEPT !.pc = "start", !.on = a, !.uid = uid]
           ELSE RunStops /\ UNCHANGED box
    /\ UNCHANGED <<staff, deployed, boxLog, intact, fleetFaults>>

GrandfatherStarts ==
    /\ boot.pc = "start"
    /\ box' = [box EXCEPT ![boot.on].up = TRUE]
    /\ boot' = [boot EXCEPT !.pc = "record"]
    /\ UNCHANGED <<staff, deployed, boxLog, intact, fleetFaults>>

\* The transaction commits: event, audit row, uid and image together.
GrandfatherCommits ==
    /\ boot.pc = "record"
    /\ staff' = [staff EXCEPT ![boot.on].uid = boot.uid, ![boot.on].image = deployed]
    /\ boxLog' = [boxLog EXCEPT ![boot.on] = "migrated"]
    /\ boot' = [boot EXCEPT !.pc = "migrate", !.todo = @ \ {boot.on}, !.on = 0, !.uid = NoUid]
    /\ UNCHANGED <<box, deployed, intact, fleetFaults>>

\* Image lookup, create, start, insert or commit fails: the transaction
\* rolls back, the container stays.
GrandfatherFails ==
    /\ boot.pc \in {"migrate", "start", "record"} /\ boot.todo # {}
    /\ FleetFault
    /\ RunStops
    /\ UNCHANGED <<staff, box, deployed, boxLog, intact>>

-----------------------------------------------------------------------------
(* The shape reconcile *)

ListAgentsForContainerReconcile == {a \in AgentNos : staff[a].uid # NoUid}

RunBootShapeReconcile ==
    /\ boot.pc = "reconcile"
    /\ boot' = [boot EXCEPT !.pc = "walk", !.todo = ListAgentsForContainerReconcile]
    /\ intact' = TRUE
    /\ UNCHANGED <<staff, box, deployed, boxLog, fleetFaults>>

\* The agents cannot be listed: the walk is skipped.
ReconcileListFails ==
    /\ boot.pc = "reconcile"
    /\ FleetFault
    /\ boot' = [Down EXCEPT !.pc = "serve"]
    /\ UNCHANGED <<staff, box, deployed, boxLog, intact>>

DesiredShape(a) == ShapeOf(staff[a].uid, staff[a].image)

NextAgent(a, kind) ==
    boot' = [boot EXCEPT !.pc = "walk", !.todo = @ \ {a}, !.on = 0, !.report[a] = kind]

\* reconcileShapeOne inspects the container and decides.
ReconcileShapeOne(a) ==
    /\ boot.pc = "walk" /\ a \in boot.todo
    /\ \/ ~ box[a].is /\ boot' = [boot EXCEPT !.pc = "create", !.on = a, !.report[a] = "created"] /\ UNCHANGED box
       \/ /\ box[a].is /\ ~ SameShape(box[a], DesiredShape(a))
          /\ boot' = [boot EXCEPT !.pc = "remove", !.on = a, !.report[a] = "created"]
          /\ box' = [box EXCEPT ![a].up = FALSE]
       \/ /\ box[a].is /\ SameShape(box[a], DesiredShape(a)) /\ ~ box[a].up
          /\ boot' = [boot EXCEPT !.pc = "run", !.on = a, !.report[a] = "started"]
          /\ UNCHANGED box
       \/ /\ box[a].is /\ SameShape(box[a], DesiredShape(a)) /\ box[a].up
          /\ NextAgent(a, "unchanged") /\ UNCHANGED box
    /\ UNCHANGED <<staff, deployed, boxLog, intact, fleetFaults>>

ReconcileRemoves ==
    /\ boot.pc = "remove"
    /\ box' = [box EXCEPT ![boot.on] = NoBox]
    /\ boot' = [boot EXCEPT !.pc = "create"]
    /\ UNCHANGED <<staff, deployed, boxLog, intact, fleetFaults>>

ReconcileCreates ==
    /\ boot.pc = "create"
    /\ box' = [box EXCEPT ![boot.on] = DesiredShape(boot.on)]
    /\ boot' = [boot EXCEPT !.pc = "run"]
    /\ UNCHANGED <<staff, deployed, boxLog, intact, fleetFaults>>

ReconcileStarts ==
    /\ boot.pc = "run"
    /\ box' = [box EXCEPT ![boot.on].up = TRUE]
    /\ NextAgent(boot.on, boot.report[boot.on])
    /\ UNCHANGED <<staff, deployed, boxLog, intact, fleetFaults>>

\* A call fails: warn, nothing in the report, go on with the next agent.
ReconcileFails ==
    /\ \/ boot.pc \in {"remove", "create", "run"} /\ NextAgent(boot.on, "unchanged")
       \/ boot.pc = "walk" /\ \E a \in boot.todo : NextAgent(a, "unchanged")
    /\ FleetFault
    /\ intact' = FALSE
    /\ UNCHANGED <<staff, box, deployed, boxLog>>

\* The report becomes agent_container_events rows and the supervisor serves.
ReconcileReports ==
    /\ boot.pc = "walk" /\ boot.todo = {}
    /\ boxLog' = [a \in AgentNos |-> IF boot.report[a] = "unchanged" THEN boxLog[a] ELSE boot.report[a]]
    /\ boot' = [Down EXCEPT !.pc = "serve"]
    /\ UNCHANGED <<staff, box, deployed, intact, fleetFaults>>

-----------------------------------------------------------------------------
(* Around the boots *)

HireAgent ==
    /\ boot.pc = "serve"
    /\ \E a \in AgentNos :
         /\ ~ staff[a].hired /\ \A b \in AgentNos : b < a => staff[b].hired
         /\ staff' = [staff EXCEPT ![a].hired = TRUE]
    /\ UNCHANGED <<box, boot, deployed, boxLog, intact, fleetFaults>>

\* A container's idle process dies, or the docker host restarts it stopped.
ContainerStops(a) ==
    /\ box[a].up
    /\ FleetFault
    /\ box' = [box EXCEPT ![a].up = FALSE]
    /\ intact' = FALSE
    /\ UNCHANGED <<staff, boot, deployed, boxLog>>

SupervisorEnds ==
    /\ boot.pc # "down"
    /\ IF boot.pc = "serve" THEN UNCHANGED fleetFaults ELSE FleetFault
    /\ boot' = Down
    /\ intact' = FALSE
    /\ UNCHANGED <<staff, box, deployed, boxLog>>

\* A deployment changes the image the tag names and the configured limits.
Deploy ==
    /\ boot.pc = "down" /\ deployed < MaxDeploy
    /\ deployed' = deployed + 1
    /\ UNCHANGED <<staff, box, boot, boxLog, intact, fleetFaults>>

FleetNext ==
    \/ BootStarts \/ RunDone \/ GrandfatherCreates \/ GrandfatherStarts \/ GrandfatherCommits
    \/ GrandfatherFails \/ RunBootShapeReconcile \/ ReconcileListFails
    \/ \E a \in AgentNos : ReconcileShapeOne(a) \/ ContainerStops(a)
    \/ ReconcileRemoves \/ ReconcileCreates \/ ReconcileStarts \/ ReconcileFails \/ ReconcileReports
    \/ HireAgent \/ SupervisorEnds \/ Deploy

-----------------------------------------------------------------------------
(* Properties *)

\* No two containers ever run as the same host user, whatever crash or
\* failure left a container behind without its agents row knowing: the
\* allocator (AllocateNextHostUID) only looks at the rows, and Run stops at
\* the first error (migrate7.Run, grandfatherOne).
UidsNeverShared ==
    \A a, b \in AgentNos : a # b /\ box[a].is /\ box[b].is => box[a].uid # box[b].uid

\* A boot whose reconcile met no failure leaves every agent that has a uid
\* with a running container of the shape the row and the current
\* configuration ask for (ReconcileShape).
BootConverges ==
    boot.pc = "serve" /\ intact =>
        \A a \in AgentNos : staff[a].uid # NoUid =>
            box[a].is /\ box[a].up /\ box[a].uid = staff[a].uid
            /\ box[a].image = staff[a].image /\ box[a].cfg = deployed

\* A running container of the right shape is never stopped or removed by a
\* boot: a repeat boot makes no container mutation (ShapeReport, SC-005).
RightShapeIsKept ==
    [][\A a \in AgentNos :
         /\ box[a].up /\ staff[a].uid # NoUid
         /\ box[a].uid = staff[a].uid /\ box[a].image = staff[a].image /\ box[a].cfg = deployed
         /\ fleetFaults' = fleetFaults
         => box'[a] = box[a]]_fleetVars

\* The containers are those the agents' rows ask for: user ids are never
\* shared, and a boot without a failure leaves every one as configured.
FleetIsSound == UidsNeverShared /\ BootConverges
=============================================================================
