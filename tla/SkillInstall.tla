--------------------------- MODULE SkillInstall ---------------------------
(***************************************************************************)
(* The skill installer: download, verify, extract, mount, create the       *)
(* container, start it, each step journalled after its effect; a crash at  *)
(* any point and Resume at the next boot.  One agent and one package;      *)
(* every approved proposal names its version of it.  The caller owns the   *)
(* proposal's status and, in this module, runs one install at a time;      *)
(* MCSkillInstall runs two.  A body is the proposal whose digest it has,   *)
(* or "other" when the registry's content has changed since the proposal   *)
(* was written.  A directory may also hold part of a body: "partial" while *)
(* an archive is unpacked into it, "remains" while it is being removed.    *)
(***************************************************************************)
EXTENDS Integers

CONSTANTS
    Installs,          \* approved proposals, strings
    MaxInstallFault    \* bound on failures, crashes and republished versions

ASSUME InstallAssumption ==
    /\ MaxInstallFault \in Nat
    /\ Installs \cap {"none", "other", "partial", "remains"} = {}

VARIABLES
    installStatus,   \* hiring_proposals.status, written by the caller
    lastRow,         \* the latest agent_install_journal row
    verified,        \* proposals with a successful verify_digest row
    working,         \* the install in progress
    latest,          \* the last proposal whose install downloaded
    served,          \* what the registry serves for each proposal's version
    tmpDir,          \* <package>.tmp
    skillDir,        \* <package>, mounted in the container
    skillBox,        \* the agent's container
    installFaults

installVars == <<installStatus, lastRow, verified, working, latest, served, tmpDir, skillDir, skillBox, installFaults>>

AllSteps == <<"download", "verify_digest", "extract", "mount", "container_create", "container_start">>
StepIndex(s) == CHOOSE i \in 1..6 : AllSteps[i] = s
Bodies == Installs \union {"other"}
NoStepRow == [step |-> "none", outcome |-> "none"]
NotWorking == [on |-> "none", pc |-> "idle", body |-> "none"]

InstallTypeOK ==
    /\ installStatus \in [Installs -> {"install_in_progress", "installed", "install_failed"}]
    /\ \A p \in Installs : lastRow[p] = NoStepRow
                           \/ lastRow[p] \in [step : {AllSteps[i] : i \in 1..6}, outcome : {"success", "failed"}]
    /\ verified \subseteq Installs
    /\ working.on \in Installs \union {"none"} /\ latest \in Installs \union {"none"}
    /\ served \in [Installs -> Bodies]
    /\ tmpDir \in Bodies \union {"none", "partial"} /\ skillDir \in Bodies \union {"none", "partial", "remains"}
    /\ skillBox \in {"none", "created", "running"}
    /\ installFaults \in 0..MaxInstallFault

InstallInit ==
    /\ installStatus = [p \in Installs |-> "install_in_progress"]
    /\ lastRow = [p \in Installs |-> NoStepRow]
    /\ verified = {}
    /\ working = NotWorking /\ latest = "none"
    /\ served = [p \in Installs |-> p]
    /\ tmpDir = "none" /\ skillDir = "none" /\ skillBox = "none"
    /\ installFaults = 0

InstallFault == installFaults < MaxInstallFault /\ installFaults' = installFaults + 1

-----------------------------------------------------------------------------
(* Starting and resuming *)

\* Runs the pipeline from its first step.
Install(p) ==
    /\ working' = [on |-> p, pc |-> "download", body |-> "none"]
    /\ UNCHANGED <<installStatus, lastRow>>

\* Mutant: continues after the last successful step with a body fetched
\* again.
ResumeInPlace(p) ==
    /\ working' = [on |-> p, pc |-> AllSteps[StepIndex(lastRow[p].step) + 1], body |-> served[p]]
    /\ UNCHANGED <<installStatus, lastRow>>

\* All six steps done: nothing to do and the caller marks it installed.
ResumeFromNextStep(p) ==
    IF lastRow[p].step = "container_start"
    THEN installStatus' = [installStatus EXCEPT ![p] = "installed"] /\ UNCHANGED <<working, lastRow>>
    ELSE Install(p)

\* LatestStep takes every read error for "no progress yet".
Resume(p) ==
    /\ working = NotWorking /\ installStatus[p] = "install_in_progress"
    /\ \/ /\ lastRow[p] = NoStepRow /\ Install(p) /\ UNCHANGED installFaults
       \/ /\ lastRow[p] # NoStepRow /\ InstallFault /\ Install(p)
       \/ /\ lastRow[p].outcome = "success" /\ ResumeFromNextStep(p) /\ UNCHANGED installFaults
       \/ /\ lastRow[p].outcome = "failed"
          /\ installStatus' = [installStatus EXCEPT ![p] = "install_failed"]
          /\ UNCHANGED <<working, lastRow, installFaults>>
    /\ UNCHANGED <<verified, latest, served, tmpDir, skillDir, skillBox>>

-----------------------------------------------------------------------------
(* The steps.  Each ends by recording its row and moving on. *)

At(p, pc) == working.on = p /\ working.pc = pc
Record(p, step, outcome) == lastRow' = [lastRow EXCEPT ![p] = [step |-> step, outcome |-> outcome]]
Then(pc) == working' = [working EXCEPT !.pc = pc]

StepDownload(p) ==
    /\ At(p, "download")
    /\ Record(p, "download", "success")
    /\ latest' = p
    /\ working' = [working EXCEPT !.pc = "verify_digest", !.body = served[p]]
    /\ UNCHANGED <<installStatus, verified, served, tmpDir, skillDir, skillBox, installFaults>>

\* Mutant: the error of the rename is dropped.
RecordFailedMountGoesOn(p) ==
    /\ Record(p, working.pc, IF working.pc = "mount" THEN "success" ELSE "failed")
    /\ working' = [working EXCEPT !.pc = IF working.pc = "mount" THEN "container_create" ELSE "report"]

\* Any step's error path: a failed row, and the caller gives up on the
\* proposal.
RecordFailed(p) ==
    /\ Record(p, working.pc, "failed")
    /\ working' = [working EXCEPT !.pc = "report"]

StepVerifyDigest(p) ==
    /\ At(p, "verify_digest")
    /\ IF working.body = p
       THEN Record(p, "verify_digest", "success") /\ Then("extract") /\ verified' = verified \union {p}
       ELSE RecordFailed(p) /\ UNCHANGED verified
    /\ UNCHANGED <<installStatus, latest, served, tmpDir, skillDir, skillBox, installFaults>>

\* A stale .tmp of an interrupted run is removed first; SafeExtractTarGz
\* then writes entry by entry.
StepExtract(p) ==
    /\ At(p, "extract")
    /\ tmpDir' = "partial"
    /\ Then("extracting")
    /\ UNCHANGED <<installStatus, lastRow, verified, latest, served, skillDir, skillBox, installFaults>>

SafeExtractTarGz(p) ==
    /\ At(p, "extracting")
    /\ tmpDir' = working.body
    /\ Record(p, "extract", "success")
    /\ Then("mount")
    /\ UNCHANGED <<installStatus, verified, latest, served, skillDir, skillBox, installFaults>>

\* The archive is unsafe, too large or not a tarball: .tmp is wiped.
ExtractFails(p) ==
    /\ At(p, "extracting")
    /\ InstallFault
    /\ tmpDir' = "none"
    /\ Record(p, "extract", "failed")
    /\ Then("report")
    /\ UNCHANGED <<installStatus, verified, latest, served, skillDir, skillBox>>

\* An older version, or what an interrupted removal left of one, is removed
\* entry by entry, then .tmp renamed over its place.
StepMount(p) ==
    /\ \/ /\ At(p, "mount") /\ skillDir # "none"
          /\ skillDir' = IF skillDir = "remains" THEN "none" ELSE "remains"
          /\ UNCHANGED <<tmpDir, working, lastRow>>
       \/ /\ At(p, "mount") /\ skillDir = "none"
          /\ skillDir' = tmpDir /\ tmpDir' = "none"
          /\ Then("mounted")
          /\ UNCHANGED lastRow
       \/ /\ At(p, "mounted")
          /\ Record(p, "mount", "success") /\ Then("container_create")
          /\ UNCHANGED <<tmpDir, skillDir>>
    /\ UNCHANGED <<installStatus, verified, latest, served, skillBox, installFaults>>

\* Create answers 409 when the agent has a container already.
StepContainerCreate(p) ==
    /\ \/ At(p, "container_create") /\ skillBox = "none" /\ skillBox' = "created" /\ Then("created") /\ UNCHANGED lastRow
       \/ At(p, "container_create") /\ skillBox # "none" /\ RecordFailed(p) /\ UNCHANGED skillBox
       \/ /\ At(p, "created")
          /\ Record(p, "container_create", "success") /\ Then("container_start")
          /\ UNCHANGED skillBox
    /\ UNCHANGED <<installStatus, verified, latest, served, tmpDir, skillDir, installFaults>>

StepContainerStart(p) ==
    /\ \/ At(p, "container_start") /\ skillBox' = "running" /\ Then("started") /\ UNCHANGED lastRow
       \/ At(p, "started") /\ Record(p, "container_start", "success") /\ Then("report") /\ UNCHANGED skillBox
    /\ UNCHANGED <<installStatus, verified, latest, served, tmpDir, skillDir, installFaults>>

\* The registry, the removal (with nothing or some of the old version gone),
\* the rename or docker fails.
StepFails(p) ==
    /\ working.on = p /\ working.pc \in {"download", "mount", "container_create", "container_start"}
    /\ InstallFault
    /\ RecordFailed(p)
    /\ UNCHANGED <<installStatus, verified, latest, served, tmpDir, skillDir, skillBox>>

\* A step's row, of its success or of its failure, cannot be written: the
\* install ends without one.
RecordStepFails(p) ==
    /\ working.on = p /\ working.pc \notin {"extract", "report", "lost"}
    /\ InstallFault
    /\ Then("lost")
    /\ tmpDir' = IF working.pc = "extracting" THEN "none" ELSE tmpDir
    /\ UNCHANGED <<installStatus, lastRow, verified, latest, served, skillDir, skillBox>>

\* The caller moves the proposal on.
CallerMarks(p) ==
    /\ working.on = p /\ working.pc \in {"report", "lost"}
    /\ installStatus' = [installStatus EXCEPT ![p] =
           IF working.pc = "report" /\ lastRow[p].outcome = "success" THEN "installed" ELSE "install_failed"]
    /\ working' = NotWorking
    /\ UNCHANGED <<lastRow, verified, latest, served, tmpDir, skillDir, skillBox, installFaults>>

InstallerCrashes ==
    /\ working # NotWorking
    /\ InstallFault
    /\ working' = NotWorking
    /\ UNCHANGED <<installStatus, lastRow, verified, latest, served, tmpDir, skillDir, skillBox>>

\* The registry's content for a version changes after the proposal.
Republished(p) ==
    /\ served[p] = p
    /\ InstallFault
    /\ served' = [served EXCEPT ![p] = "other"]
    /\ UNCHANGED <<installStatus, lastRow, verified, working, latest, tmpDir, skillDir, skillBox>>

InstallNext ==
    \/ \E p \in Installs :
         \/ Resume(p) \/ StepDownload(p) \/ StepVerifyDigest(p) \/ StepExtract(p) \/ SafeExtractTarGz(p)
         \/ ExtractFails(p) \/ StepMount(p) \/ StepContainerCreate(p) \/ StepContainerStart(p)
         \/ StepFails(p) \/ RecordStepFails(p) \/ CallerMarks(p) \/ Republished(p)
    \/ InstallerCrashes

-----------------------------------------------------------------------------
(* Properties *)

\* What an agent's container sees as its skill is nothing, a complete body
\* whose digest was verified against an approved proposal, or what is left of
\* such a body while the step that replaces it removes it or after a crash or
\* an error cut that removal short; never a body half written, and never one
\* the registry changed since (Actuator.Install, stepMount, Resume).
MountedIsVerified ==
    /\ skillDir \in {"none", "remains"} \union verified
    /\ skillDir = "remains" => working.pc = "mount" \/ installFaults > 0

\* The journal is never ahead of the system: while a proposal's install is
\* the last that downloaded, a success row for a step means the step's effect
\* stands (the steps record after they act; recover.go relies on it).
JournalIsBacked ==
    \A p \in Installs : latest = p /\ lastRow[p].outcome = "success" =>
        LET done(s) == StepIndex(lastRow[p].step) >= StepIndex(s)
        IN  /\ lastRow[p].step = "extract" => p \in {tmpDir, skillDir}
            /\ done("mount") => skillDir = p
            /\ done("container_create") => skillBox # "none"
            /\ done("container_start") => skillBox = "running"

\* An install is what its journal says and mounts only what it verified,
\* through crashes, resumes and a changing registry.
InstallIsSound == MountedIsVerified /\ JournalIsBacked
=============================================================================
