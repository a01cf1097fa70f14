--------------------------- MODULE OfficialMatrix ---------------------------
(***************************************************************************)
(* One execution of an official HWE matrix: a script that opens a retained *)
(* Docker data volume in a sidecar daemon, runs one provider-bearing       *)
(* episode per scheduled task, in order, seals what became of each on      *)
(* disk, stops by a fixed policy, removes its Docker resources and         *)
(* publishes a report.  Any Docker command and any file write may fail,    *)
(* and the script may be killed between two of its steps.                  *)
(* (scripts/collect_hwe_deepseek_harness_v170_official_matrix.py)          *)
(***************************************************************************)
EXTENDS Integers, Sequences, SequencesExt, FiniteSets

CONSTANTS
  N,            \* tasks of the frozen schedule
  MaxFaults,    \* bound: Docker commands and file writes that fail
  MaxLaunches   \* bound: times the script is started

ASSUME MatrixAssumption ==
  /\ N \in Nat \ {0}
  /\ MaxFaults \in Nat
  /\ MaxLaunches \in Nat \ {0}

Tasks == 1..N       \* a task is its position in the schedule
None == "none"

Fatal == {"infrastructure_failure", "security_failure"}
NoProgress == {"no_effective_modification", "no_progress",
               "trajectory_structure_failure"}
Outcomes == Fatal \cup NoProgress \cup {"verifier_rejection", "passed"}
Markers == {"not_started", "started_valid", "unreadable"}

\* What is sealed of a task: the provider marker, the outcome, SFT admission.
Attempts == [task : Tasks, marker : Markers, outcome : Outcomes, sft : BOOLEAN]
Unsealed == [task |-> 0, marker |-> None, outcome |-> None, sft |-> FALSE]

VARIABLES
  pc,        \* the statement of collect() that comes next
  matrix,    \* DeepSeekHarnessMatrixState
  details,   \* the attempts in the script's memory
  ctl,       \* collect()'s other locals
  host,      \* Docker: socket volume, sidecar, and inside it network, leftovers
  disk,      \* the output root
  calls,     \* history: provider episodes begun per task
  faults, launches

vars == <<pc, matrix, details, ctl, host, disk, calls, faults, launches>>

-----------------------------------------------------------------------------
(* Faults.  A command or a write that fails has taken effect or has not: a *)
(* docker client may time out after its request was served, and            *)
(* atomic_write_text may fail to sync the directory it renamed into.       *)

Fault == faults < MaxFaults /\ faults' = faults + 1
NoFault == UNCHANGED faults

-----------------------------------------------------------------------------
(* The continuation policy.                                                *)

Consumed(a) == ~(a.marker = "not_started" /\ a.outcome \in Fatal)

NewMatrix == [next |-> 0, streak |-> 0, status |-> "running"]

\* Mutant: the third attempt without progress stops the matrix, not the second.
RecordedLate(m, a) ==
  LET consecutive == IF a.outcome \in NoProgress THEN m.streak + 1 ELSE 0
      stopped == a.outcome \in Fatal \/ consecutive > 2
  IN  [next   |-> m.next + 1,
       streak |-> IF consecutive > 2 THEN 2 ELSE consecutive,
       status |-> IF stopped THEN "stopped"
                  ELSE IF m.next + 1 = N THEN "completed" ELSE "running"]

\* record_matrix_attempt
Recorded(m, a) ==
  LET consecutive == IF a.outcome \in NoProgress THEN m.streak + 1 ELSE 0
      stopped == a.outcome \in Fatal \/ consecutive >= 2
  IN  [next   |-> m.next + 1,
       streak |-> IF consecutive > 2 THEN 2 ELSE consecutive,
       status |-> IF stopped THEN "stopped"
                  ELSE IF m.next + 1 = N THEN "completed" ELSE "running"]

\* The provider marker a reader of the task's public traces sees.
MarkerOf(t) ==
  CASE disk.trace[t] \in {"absent", "silent"} -> "not_started"
    [] disk.trace[t] = "event"                -> "started_valid"
    [] OTHER                                  -> "unreadable"

\* Mutant: admission looks at the verifier and the records, at no other plane.
AdmittedOnResult(resolved, records, security) == resolved /\ records

\* SFT admission: the conjunction of the result planes.
Admitted(resolved, records, security) == resolved /\ records /\ security

\* What _execute_one finds of an episode besides its marker.
Findings == [resolved : BOOLEAN, sound : BOOLEAN, evidence : BOOLEAN,
             modified : BOOLEAN, idle : BOOLEAN, material : BOOLEAN, scan : BOOLEAN]

\* _execute_one from the scorecard on: what the planes and the outcome are.
Judgement(t, f) ==
  LET marker     == MarkerOf(t)
      infra      == f.sound /\ marker = "started_valid"
      protocol   == f.evidence /\ infra
      records    == protocol /\ f.modified /\ f.material
      security   == f.scan /\ marker # "unreadable"
  IN  [task    |-> t,
       marker  |-> marker,
       outcome |-> IF ~infra                    THEN "infrastructure_failure"
                   ELSE IF ~security            THEN "security_failure"
                   ELSE IF f.evidence /\ f.idle THEN "no_progress"
                   ELSE IF ~protocol            THEN "trajectory_structure_failure"
                   ELSE IF ~f.modified          THEN "no_effective_modification"
                   ELSE IF ~records             THEN "trajectory_structure_failure"
                   ELSE IF ~f.resolved          THEN "verifier_rejection"
                   ELSE "passed",
       sft     |-> Admitted(f.resolved, records, security)]

\* Mutant: the handler takes the provider for not started.
ExceptionAttemptBlind(t) ==
  [task |-> t, marker |-> "not_started", outcome |-> "infrastructure_failure",
   sft |-> FALSE]

\* _exception_attempt: every plane is false.
ExceptionAttempt(t) ==
  [task |-> t, marker |-> MarkerOf(t), outcome |-> "infrastructure_failure",
   sft |-> FALSE]

\* _final_report
FinalReport(status, confirmed) ==
  [attempts  |-> details,
   status    |-> IF matrix.status = "completed" /\ status # "stopped" /\ confirmed
                   THEN "completed" ELSE "stopped",
   confirmed |-> confirmed]

NoReport == [attempts |-> <<>>, status |-> None, confirmed |-> FALSE]

-----------------------------------------------------------------------------
NewControl ==
  [docker |-> FALSE, named |-> FALSE, network |-> FALSE, template |-> FALSE,
   active |-> 1, attempt |-> Unsealed, confirmed |-> FALSE]

Init ==
  /\ pc = "idle"
  /\ matrix = NewMatrix /\ details = <<>> /\ ctl = NewControl
  /\ host = [volume |-> FALSE, sidecar |-> FALSE, network |-> FALSE,
             leftovers |-> FALSE]
  /\ disk = [output |-> FALSE, backing |-> FALSE, progress |-> <<>>,
             trace |-> [t \in Tasks |-> "absent"],
             saved |-> [t \in Tasks |-> Unsealed],
             datasets |-> {}, report |-> NoReport]
  /\ calls = [t \in Tasks |-> 0]
  /\ faults = 0 /\ launches = 0

Stopped == {"idle", "done", "escaped", "killed", "refused"}

\* Mutant: an existing output root is used again.
RefusesNothing == FALSE

\* _new_output and what precedes the try statement.
Refuses == disk.output

Launch ==
  /\ pc \in Stopped
  /\ launches < MaxLaunches
  /\ launches' = launches + 1
  /\ matrix' = NewMatrix /\ details' = <<>> /\ ctl' = NewControl
  /\ IF Refuses
       THEN pc' = "refused" /\ UNCHANGED <<disk, faults>>
       ELSE /\ disk' = [disk EXCEPT !.output = TRUE, !.progress = <<>>]
            /\ \/ NoFault /\ pc' = "headroom"
               \/ Fault /\ pc' = "escaped"
  /\ UNCHANGED <<host, calls>>

\* The script is killed: nothing in memory survives, everything else does.
Kill ==
  /\ pc \notin Stopped
  /\ pc' = "killed"
  /\ matrix' = NewMatrix /\ details' = <<>> /\ ctl' = NewControl
  /\ UNCHANGED <<host, disk, calls, faults, launches>>

-----------------------------------------------------------------------------
(* Opening the data volume.  A statement that raises goes to the handler.  *)

Memory == <<matrix, details>>
Fixed == <<calls, launches>>

Headroom ==
  /\ pc = "headroom"
  /\ \/ NoFault /\ pc' = "validate" /\ ctl' = [ctl EXCEPT !.docker = TRUE]
     \/ Fault /\ pc' = "handler" /\ UNCHANGED ctl
  /\ UNCHANGED <<Memory, host, disk, Fixed>>

ValidateHostRuntime ==
  /\ pc = "validate"
  /\ \/ NoFault /\ pc' = IF host.volume \/ host.sidecar THEN "handler" ELSE "backing"
     \/ Fault /\ pc' = "handler"
  /\ UNCHANGED <<Memory, ctl, host, disk, Fixed>>

PrepareSocketBacking ==
  /\ pc = "backing"
  /\ IF disk.backing
       THEN pc' = "handler" /\ UNCHANGED <<disk, faults>>
       ELSE \/ NoFault /\ pc' = "volume" /\ disk' = [disk EXCEPT !.backing = TRUE]
            \/ /\ Fault /\ pc' = "handler"
               /\ disk' \in {disk, [disk EXCEPT !.backing = TRUE]}
  /\ UNCHANGED <<Memory, ctl, host, Fixed>>

\* A docker command that takes the host to `after`, or raises.
Command(after, success) ==
  \/ NoFault /\ host' = after /\ pc' = success
  \/ Fault /\ host' \in {host, after} /\ pc' = "handler"

CreateSocketVolume ==
  /\ pc = "volume"
  /\ Command([host EXCEPT !.volume = TRUE], "dind")
  /\ UNCHANGED <<Memory, ctl, disk, Fixed>>

StartProviderDind ==
  /\ pc = "dind"
  /\ Command([host EXCEPT !.sidecar = TRUE], "inventory")
  /\ ctl' = [ctl EXCEPT !.named = TRUE]
  /\ UNCHANGED <<Memory, disk, Fixed>>

ValidateInnerInventory ==
  /\ pc = "inventory"
  /\ IF host.network \/ host.leftovers
       THEN pc' = "handler" /\ UNCHANGED <<host, faults>>
       ELSE Command(host, "network")
  /\ UNCHANGED <<Memory, ctl, disk, Fixed>>

\* The network, its receipt, and the runtime template of the service.
CreateInnerProviderNetwork ==
  /\ pc = "network"
  /\ Command([host EXCEPT !.network = TRUE], "preflight")
  /\ \/ ctl' = [ctl EXCEPT !.network = TRUE, !.template = pc' = "preflight"]
     \/ pc' = "handler" /\ UNCHANGED ctl
  /\ host'.network \/ ~ctl'.network
  /\ UNCHANGED <<Memory, disk, Fixed>>

\* Runtimes are prepared and closed, the harness initialised: all inside.
ZeroProviderPreflight ==
  /\ pc = "preflight"
  /\ \/ NoFault /\ pc' = "loop" /\ UNCHANGED host
     \/ /\ Fault /\ pc' = "handler"
        /\ host' \in {host, [host EXCEPT !.leftovers = TRUE]}
  /\ UNCHANGED <<Memory, ctl, disk, Fixed>>

-----------------------------------------------------------------------------
(* The loop over the schedule: _execute_one, record, seal, report progress. *)

Active == ctl.active
Traced(t, state) == [disk EXCEPT !.trace[t] = state]

\* mkdir of the task's directory and of runs/ in it, load_task, hash check.
StartTask ==
  /\ pc = "loop" /\ matrix.status = "running"
  /\ LET t == matrix.next + 1
     IN  /\ ctl' = [ctl EXCEPT !.active = t]
         /\ IF disk.trace[t] # "absent"
              THEN pc' = "handler" /\ UNCHANGED <<disk, faults>>
              ELSE \/ NoFault /\ pc' = "task" /\ disk' = Traced(t, "silent")
                   \/ /\ Fault /\ pc' = "handler"
                      /\ disk' \in {disk, Traced(t, "noruns"), Traced(t, "silent")}
  /\ UNCHANGED <<Memory, host, Fixed>>

\* The harness controller, inside the sidecar, sends its first request.
ProviderRequest ==
  /\ pc = "task"
  /\ calls' = [calls EXCEPT ![Active] = @ + 1]
  /\ host' = [host EXCEPT !.leftovers = TRUE]
  /\ pc' = "provider"
  /\ UNCHANGED <<Memory, ctl, disk, faults, launches>>

\* The run fails before the provider is reached.
EpisodeWithoutProvider ==
  /\ pc = "task"
  /\ pc' \in {"judge", "handler"}
  /\ UNCHANGED <<Memory, ctl, host, disk, faults, Fixed>>

\* The helper has ended.  The agent emits the public marker, then the run is
\* torn down and scored.  An exception on the way that is not a helper error,
\* or a trace that cannot be written, loses the marker or tears its line.
EpisodeEnds ==
  /\ pc = "provider"
  /\ \/ /\ NoFault /\ pc' = "judge"
        /\ disk' = Traced(Active, "event")
        /\ host' = [host EXCEPT !.leftovers = FALSE]
     \/ /\ Fault /\ pc' \in {"judge", "handler"}
        /\ disk' \in {disk, Traced(Active, "torn"), Traced(Active, "event")}
        /\ host' \in {host, [host EXCEPT !.leftovers = FALSE]}
  /\ UNCHANGED <<Memory, ctl, Fixed>>

\* Evidence, records, security scan, candidate dataset, planes and outcome.
JudgeEpisode ==
  /\ pc = "judge"
  /\ \E f \in Findings :
       LET a == Judgement(Active, f)
           written == IF a.sft THEN [disk EXCEPT !.datasets = @ \cup {Active}]
                               ELSE disk
       IN  /\ f.resolved => f.sound
           /\ \/ /\ NoFault /\ pc' = "save"
                 /\ disk' = written /\ ctl' = [ctl EXCEPT !.attempt = a]
              \/ /\ Fault /\ pc' = "handler"
                 /\ disk' \in {disk, written} /\ UNCHANGED ctl
  /\ UNCHANGED <<Memory, host, Fixed>>

Sealed(a) == [disk EXCEPT !.saved[a.task] = a]

SaveAttempt ==
  /\ pc = "save"
  /\ ctl' = [ctl EXCEPT !.attempt = Unsealed]
  /\ \/ /\ NoFault /\ pc' = "progress"
        /\ disk' = Sealed(ctl.attempt)
        /\ details' = Append(details, ctl.attempt)
        /\ matrix' = Recorded(matrix, ctl.attempt)
     \/ /\ Fault /\ pc' = "handler"
        /\ disk' \in {disk, Sealed(ctl.attempt)}
        /\ UNCHANGED Memory
  /\ UNCHANGED <<host, Fixed>>

\* Mutant: progress is written when the matrix ends.
WriteProgressAtEnd ==
  /\ pc = "progress" /\ NoFault /\ pc' = "loop"
  /\ disk' = IF matrix.status = "running" THEN disk
                                         ELSE [disk EXCEPT !.progress = details]
  /\ ctl' = [ctl EXCEPT !.active = IF matrix.status = "running"
                                     THEN matrix.next + 1 ELSE 0]
  /\ UNCHANGED <<Memory, host, Fixed>>

WriteProgress ==
  /\ pc = "progress"
  /\ \/ /\ NoFault /\ pc' = "loop"
        /\ disk' = [disk EXCEPT !.progress = details]
        /\ ctl' = [ctl EXCEPT !.active = IF matrix.status = "running"
                                           THEN matrix.next + 1 ELSE 0]
     \/ /\ Fault /\ pc' = "handler"
        /\ disk' \in {disk, [disk EXCEPT !.progress = details]}
        /\ UNCHANGED ctl
  /\ UNCHANGED <<Memory, host, Fixed>>

-----------------------------------------------------------------------------
(* Cleanup after the loop: every step is confirmed or raises.              *)

CloseTemplate ==
  /\ pc = "loop" /\ matrix.status # "running"
  /\ \/ NoFault /\ pc' = "unnet" /\ ctl' = [ctl EXCEPT !.template = FALSE]
     \/ Fault /\ pc' = "handler" /\ UNCHANGED ctl
  /\ UNCHANGED <<Memory, host, disk, Fixed>>

RemoveInnerNetwork ==
  /\ pc = "unnet"
  /\ Command([host EXCEPT !.network = FALSE], "unside")
  /\ ctl' = [ctl EXCEPT !.network = pc' = "handler"]
  /\ UNCHANGED <<Memory, disk, Fixed>>

\* Mutant: the result of the removal is not looked at.
RemoveSidecarUnchecked ==
  /\ pc = "unside" /\ pc' = "unvol"
  /\ host' = [host EXCEPT !.sidecar = host.leftovers]
  /\ ctl' = [ctl EXCEPT !.named = FALSE]
  /\ UNCHANGED <<Memory, disk, faults, Fixed>>

RemoveSidecar ==
  /\ pc = "unside"
  /\ IF host.leftovers
       THEN pc' = "handler" /\ UNCHANGED <<host, faults>>
       ELSE Command([host EXCEPT !.sidecar = FALSE], "unvol")
  /\ ctl' = [ctl EXCEPT !.named = pc' = "handler"]
  /\ UNCHANGED <<Memory, disk, Fixed>>

RemoveSocketVolume ==
  /\ pc = "unvol"
  /\ Command([host EXCEPT !.volume = FALSE], "publish")
  /\ ctl' = [ctl EXCEPT !.confirmed = pc' = "publish"]
  /\ UNCHANGED <<Memory, disk, Fixed>>

-----------------------------------------------------------------------------
(* except Exception: record the pending task, clean up as far as possible. *)

HandlerClose ==
  /\ pc = "handler"
  /\ \/ NoFault /\ pc' = "failure"
     \/ ctl.template /\ Fault /\ pc' = "escaped"
  /\ UNCHANGED <<Memory, ctl, host, disk, Fixed>>

BindingPending ==
  /\ Active # 0
  /\ matrix.status = "running"
  /\ matrix.next + 1 = Active

RecordFailure ==
  /\ pc = "failure"
  /\ LET a == ExceptionAttempt(Active)
         onward == IF ctl.docker THEN "inspect" ELSE "report"
     IN  IF ~BindingPending
           THEN pc' = onward /\ UNCHANGED <<Memory, disk, faults>>
           ELSE \/ /\ NoFault /\ pc' = onward
                   /\ disk' = Sealed(a)
                   /\ details' = Append(details, a)
                   /\ matrix' = Recorded(matrix, a)
                \/ /\ Fault /\ pc' = "escaped"
                   /\ disk' \in {disk, Sealed(a)}
                   /\ UNCHANGED Memory
  /\ ctl' = [ctl EXCEPT !.confirmed = ~ctl.docker]
  /\ UNCHANGED <<host, Fixed>>

\* _best_effort_cleanup: a failure ends it unconfirmed, except that an
\* inspect that fails counts as the resource's absence.
GiveUp(after) == Fault /\ host' \in {host, after} /\ pc' = "report"

InspectSidecar ==
  /\ pc = "inspect"
  /\ \/ /\ NoFault
        /\ pc' = IF ctl.named /\ host.sidecar THEN "clean" ELSE "inspect_volume"
     \/ /\ ctl.named /\ Fault
        /\ pc' \in {"inspect_volume", "report"}
  /\ UNCHANGED <<Memory, ctl, host, disk, Fixed>>

CleanInnerResources ==
  /\ pc = "clean"
  /\ LET after == [host EXCEPT !.leftovers = FALSE]
     IN  \/ NoFault /\ host' = after /\ pc' = "unlink"
         \/ GiveUp(after)
  /\ UNCHANGED <<Memory, ctl, disk, Fixed>>

UnlinkNetwork ==
  /\ pc = "unlink"
  /\ LET after == [host EXCEPT !.network = FALSE]
     IN  \/ /\ NoFault /\ host' = after
            /\ pc' = IF ctl.network /\ ~host.network THEN "report" ELSE "remove"
         \/ GiveUp(after)
         \/ ~ctl.network /\ Fault /\ UNCHANGED host /\ pc' = "remove"
  /\ UNCHANGED <<Memory, ctl, disk, Fixed>>

RemoveContainer ==
  /\ pc = "remove"
  /\ LET after == [host EXCEPT !.sidecar = FALSE]
     IN  \/ /\ NoFault
            /\ IF host.leftovers
                 THEN pc' = "report" /\ UNCHANGED host
                 ELSE pc' = "inspect_volume" /\ host' = after
         \/ GiveUp(IF host.leftovers THEN host ELSE after)
  /\ UNCHANGED <<Memory, ctl, disk, Fixed>>

\* A volume that a sidecar still mounts cannot be removed.
CleanSocketVolume ==
  /\ pc = "inspect_volume"
  /\ LET inUse == host.volume /\ host.sidecar
         after == IF inUse THEN host ELSE [host EXCEPT !.volume = FALSE]
     IN  \/ /\ NoFault /\ host' = after /\ pc' = "report"
            /\ ctl' = [ctl EXCEPT !.confirmed = ~inUse]
         \/ GiveUp(after) /\ UNCHANGED ctl
         \/ /\ Fault /\ UNCHANGED host /\ pc' = "report"
            /\ ctl' = [ctl EXCEPT !.confirmed = TRUE]
  /\ UNCHANGED <<Memory, disk, Fixed>>

\* matrix-progress.json, then matrix-report.json, after either path.
Publish ==
  /\ pc \in {"publish", "report"}
  /\ LET status   == IF pc = "report" THEN "stopped" ELSE matrix.status
         progress == [disk EXCEPT !.progress = details]
         report   == [progress EXCEPT !.report = FinalReport(status, ctl.confirmed)]
     IN  \/ NoFault /\ pc' = "done" /\ disk' = report
         \/ Fault /\ pc' = "escaped" /\ disk' \in {disk, progress, report}
  /\ UNCHANGED <<Memory, ctl, host, Fixed>>

-----------------------------------------------------------------------------
Next ==
  \/ Launch \/ Kill
  \/ Headroom \/ ValidateHostRuntime \/ PrepareSocketBacking
  \/ CreateSocketVolume \/ StartProviderDind \/ ValidateInnerInventory
  \/ CreateInnerProviderNetwork \/ ZeroProviderPreflight
  \/ StartTask \/ ProviderRequest \/ EpisodeWithoutProvider \/ EpisodeEnds
  \/ JudgeEpisode \/ SaveAttempt \/ WriteProgress
  \/ CloseTemplate \/ RemoveInnerNetwork \/ RemoveSidecar \/ RemoveSocketVolume
  \/ HandlerClose \/ RecordFailure
  \/ InspectSidecar \/ CleanInnerResources \/ UnlinkNetwork \/ RemoveContainer
  \/ CleanSocketVolume \/ Publish

Spec == Init /\ [][Next]_vars
-----------------------------------------------------------------------------
(* Properties.                                                             *)

Steps == Stopped \cup
  {"headroom", "validate", "backing", "volume", "dind", "inventory", "network",
   "preflight", "loop", "task", "provider", "judge", "save", "progress",
   "unnet", "unside", "unvol", "publish", "handler", "failure", "inspect",
   "clean", "unlink", "remove", "inspect_volume", "report"}

\* Every variable keeps its type; the journal, in memory and on disk, lists
\* the tasks in schedule order (DeepSeekHarnessMatrixState.validate_state).
Journal(seq) ==
  /\ Len(seq) <= N
  /\ \A i \in 1..Len(seq) : seq[i] \in Attempts /\ seq[i].task = i

TypeOK ==
  /\ pc \in Steps
  /\ matrix \in [next : 0..N, streak : 0..2,
                 status : {"running", "completed", "stopped"}]
  /\ Journal(details) /\ Len(details) = matrix.next
  /\ ctl \in [docker : BOOLEAN, named : BOOLEAN, network : BOOLEAN,
              template : BOOLEAN, active : 0..N, attempt : Attempts \cup {Unsealed},
              confirmed : BOOLEAN]
  /\ host \in [volume : BOOLEAN, sidecar : BOOLEAN, network : BOOLEAN,
               leftovers : BOOLEAN]
  /\ Journal(disk.progress)
  /\ disk.trace \in [Tasks -> {"absent", "noruns", "silent", "event", "torn"}]
  /\ disk.saved \in [Tasks -> Attempts \cup {Unsealed}]
  /\ disk.datasets \subseteq Tasks
  /\ Journal(disk.report.attempts)
  /\ calls \in [Tasks -> Nat]
  /\ faults \in 0..MaxFaults /\ launches \in 0..MaxLaunches

\* A provider episode begins at most once per task, whatever is killed and
\* started again, and only when every earlier task is sealed on disk with an
\* outcome after which the policy continues: none fatal, no two in a row
\* without progress.
Continues(a) == a # Unsealed /\ a.outcome \notin Fatal

EpisodesFollowPolicy ==
  \A t \in Tasks : calls[t] > 0 =>
    /\ calls[t] = 1
    /\ \A u \in 1..(t - 1) : Continues(disk.saved[u])
    /\ ~ \E u \in 1..(t - 2) : /\ disk.saved[u].outcome \in NoProgress
                               /\ disk.saved[u + 1].outcome \in NoProgress

\* Whenever the script dies, its published progress is behind by one task at
\* most: of all others an auditor reads what was begun and how it ended.
JournalLagsByOne ==
  Cardinality({t \in Tasks : calls[t] > 0 \/ disk.saved[t] # Unsealed}
                \ (1..Len(disk.progress))) <= 1

\* What the progress file has published is final: no failure handler and no
\* second start of the script takes back or rewrites an attempt.
JournalOnlyGrows ==
  [][/\ IsPrefix(disk.progress, disk'.progress)
     /\ \A i \in 1..Len(disk.progress) :
          disk'.saved[i] = disk.saved[i]]_vars

\* A matrix reported as completed has an acceptable attempt for every task,
\* and has left nothing behind: no socket volume, no sidecar, and inside the
\* retained data volume no provider network and no task container.
CompletedMeansClean ==
  disk.report.status = "completed" =>
    /\ Len(disk.report.attempts) = N
    /\ \A t \in Tasks : Continues(disk.saved[t])
    /\ \A resource \in DOMAIN host : ~host[resource]

\* Once a report is out, every task whose public trace shows that the
\* provider was, or may have been, called is in it, as consumed.
MarkedTasksAreConsumed ==
  disk.report.status # None =>
    \A t \in Tasks : MarkerOf(t) # "not_started" =>
      /\ t <= Len(disk.report.attempts)
      /\ Consumed(disk.report.attempts[t])

\* A task reported as a candidate for SFT has its dataset on disk, one marked
\* provider episode, and the sealed attempt that admitted it, which is neither
\* an infrastructure nor a security failure.
CandidatesAreEvidenced ==
  \A i \in 1..Len(disk.report.attempts) :
      LET a == disk.report.attempts[i]
      IN  a.sft => /\ i \in disk.datasets /\ a.outcome \notin Fatal
                   /\ calls[i] = 1 /\ disk.trace[i] = "event"
                   /\ disk.saved[i] = a
=============================================================================
