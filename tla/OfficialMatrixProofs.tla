------------------------ MODULE OfficialMatrixProofs ------------------------
(***************************************************************************)
(* For every schedule, every number of faults and every number of starts:  *)
(* a provider episode begins at most once per task and only as far as the  *)
(* continuation policy allows, what an auditor reads of an execution that  *)
(* died is behind by one task at most and never taken back, and the report *)
(* says of the tasks and the host what the disk and the host bear out.     *)
(***************************************************************************)
EXTENDS OfficialMatrix, FiniteSetTheorems, TLAPS

Traces == {"absent", "noruns", "silent", "event", "torn"}
Matrices == [next : 0..N, streak : 0..2, status : {"running", "completed", "stopped"}]
Controls == [docker : BOOLEAN, named : BOOLEAN, network : BOOLEAN,
             template : BOOLEAN, active : 0..N, attempt : Attempts \cup {Unsealed},
             confirmed : BOOLEAN]
Hosts == [volume : BOOLEAN, sidecar : BOOLEAN, network : BOOLEAN, leftovers : BOOLEAN]
Reports == [attempts : Seq(Attempts), status : {None, "completed", "stopped"},
            confirmed : BOOLEAN]
Disks == [output : BOOLEAN, backing : BOOLEAN, progress : Seq(Attempts),
          trace : [Tasks -> Traces], saved : [Tasks -> Attempts \cup {Unsealed}],
          datasets : SUBSET Tasks, report : Reports]

\* The places of a run, by what they know of the schedule.
Prep == {"headroom", "validate", "backing", "volume", "dind", "inventory", "network",
         "preflight"}
InEpisode == {"task", "provider", "judge", "save"}
Closing == {"unnet", "unside", "unvol", "publish"}
Failing == {"handler", "failure"}
Cleaning == {"inspect", "clean", "unlink", "remove", "inspect_volume", "report"}

\* An attempt in the journal is final, and while the matrix runs the journal
\* is one after which the policy continues.
MatrixTypes ==
  /\ pc \in Steps /\ matrix \in Matrices /\ ctl \in Controls /\ host \in Hosts
  /\ disk \in Disks /\ details \in Seq(Attempts) /\ Len(details) = matrix.next
  /\ \A i \in 1..Len(details) : details[i].task = i
  /\ calls \in [Tasks -> Nat] /\ faults \in 0..MaxFaults /\ launches \in 0..MaxLaunches

MayContinue(seq) ==
  /\ \A i \in 1..Len(seq) : seq[i].outcome \notin Fatal
  /\ \A i \in 1..(Len(seq) - 1) :
       ~(seq[i].outcome \in NoProgress /\ seq[i + 1].outcome \in NoProgress)

PolicyState ==
  matrix.status = "running" =>
    /\ matrix.next < N /\ MayContinue(details) /\ matrix.streak \in {0, 1}
    /\ matrix.next > 0 => (matrix.streak = 1 <=> details[matrix.next].outcome \in NoProgress)

\* What is on disk of a task that no attempt is recorded of.
Begun(t) ==
  /\ calls[t] > 0 =>
       /\ t = matrix.next + 1 /\ ctl.active = t /\ matrix.status = "running"
       /\ pc \in (InEpisode \ {"task"}) \cup Failing
  /\ disk.saved[t] # Unsealed =>
       /\ t = matrix.next + 1 /\ ctl.active = t /\ matrix.status = "running"
       /\ pc \in Failing

Placed ==
  /\ pc \in Prep => matrix.next = 0 /\ ctl.active = 1 /\ matrix.status = "running"
  /\ pc \in InEpisode => ctl.active = matrix.next + 1 /\ matrix.status = "running"
  /\ pc = "save" => ctl.attempt \in Attempts /\ ctl.attempt.task = ctl.active
  /\ pc = "progress" => ctl.active = matrix.next

Published ==
  /\ Len(disk.progress) <= matrix.next /\ matrix.next <= Len(disk.progress) + 1
  /\ \A i \in 1..Len(disk.progress) : disk.progress[i] = details[i]
  /\ pc \in Prep \cup InEpisode \cup Closing \cup {"loop"} => Len(disk.progress) = matrix.next
  /\ pc \in Failing /\ ctl.active = matrix.next + 1 => Len(disk.progress) = matrix.next

\* While the script runs ...
Live ==
  pc \notin Stopped =>
    /\ disk.output
    /\ \A i \in 1..matrix.next : disk.saved[i] = details[i]
    /\ \A t \in Tasks : t > matrix.next => Begun(t)
    /\ PolicyState /\ Placed /\ Published

\* ... and at all times.
Lagging ==
  \A t \in Tasks : t > Len(disk.progress) + 1 => calls[t] = 0 /\ disk.saved[t] = Unsealed

Untouched ==
  ~disk.output => /\ pc \in Stopped /\ disk.progress = <<>>
                  /\ \A t \in Tasks : calls[t] = 0 /\ disk.saved[t] = Unsealed

MInv == Live /\ Lagging /\ Untouched /\ EpisodesFollowPolicy

-----------------------------------------------------------------------------
(* Types of what the actions write.                                        *)

LEMMA FaultTypes ==
  ASSUME MatrixTypes, Fault \/ NoFault PROVE faults' \in 0..MaxFaults
  BY MatrixAssumption DEF MatrixTypes, Fault, NoFault

LEMMA Kept ==
  ASSUME MatrixTypes, UNCHANGED <<matrix, details>>, pc' \in Steps, ctl' \in Controls,
         host' \in Hosts, disk' \in Disks, calls' \in [Tasks -> Nat],
         faults' \in 0..MaxFaults, launches' \in 0..MaxLaunches
  PROVE  MatrixTypes'
  BY DEF MatrixTypes

\* A trace that is written, an attempt that is sealed: nothing else on disk
\* changes.
LEMMA Written ==
  ASSUME MatrixTypes, NEW t \in Tasks, NEW state \in Traces, NEW a \in Attempts, a.task = t
  PROVE  /\ Traced(t, state) \in Disks /\ Traced(t, state).output = disk.output
         /\ Traced(t, state).progress = disk.progress /\ Traced(t, state).saved = disk.saved
         /\ Sealed(a) \in Disks /\ Sealed(a).output = disk.output
         /\ Sealed(a).progress = disk.progress
         /\ Sealed(a).saved = [disk.saved EXCEPT ![t] = a]
<1>1. /\ disk \in Disks /\ [disk.trace EXCEPT ![t] = state] \in [Tasks -> Traces]
      /\ [disk.saved EXCEPT ![t] = a] \in [Tasks -> Attempts \cup {Unsealed}]
  BY DEF MatrixTypes, Disks
<1>2. /\ Traced(t, state) = [disk EXCEPT !.trace = [disk.trace EXCEPT ![t] = state]]
      /\ Sealed(a) = [disk EXCEPT !.saved = [disk.saved EXCEPT ![t] = a]]
  BY <1>1 DEF Traced, Sealed, Disks
<1>3. QED BY <1>1, <1>2 DEF Disks

LEMMA MarkerTypes == ASSUME NEW t \in Tasks PROVE MarkerOf(t) \in Markers
  BY DEF MarkerOf, Markers

\* The disk whose journal has caught up.
LEMMA ProgressWritten ==
  ASSUME MatrixTypes
  PROVE  /\ [disk EXCEPT !.progress = details] \in Disks
         /\ [disk EXCEPT !.progress = details].output = disk.output
         /\ [disk EXCEPT !.progress = details].progress = details
         /\ [disk EXCEPT !.progress = details].saved = disk.saved
<1>1. disk \in Disks /\ details \in Seq(Attempts)
  BY DEF MatrixTypes
<1>2. QED BY <1>1 DEF Disks

LEMMA ExceptionTypes ==
  ASSUME NEW t \in Tasks
  PROVE  ExceptionAttempt(t) \in Attempts /\ ExceptionAttempt(t).task = t
  BY MarkerTypes DEF ExceptionAttempt, Attempts, Outcomes, Fatal

LEMMA JudgementTypes ==
  ASSUME NEW t \in Tasks, NEW f \in Findings
  PROVE  Judgement(t, f) \in Attempts /\ Judgement(t, f).task = t
<1> DEFINE infra == f.sound /\ MarkerOf(t) = "started_valid"
           protocol == f.evidence /\ infra
           records == protocol /\ f.modified /\ f.material
           security == f.scan /\ MarkerOf(t) # "unreadable"
           outcome == IF ~infra                    THEN "infrastructure_failure"
                      ELSE IF ~security            THEN "security_failure"
                      ELSE IF f.evidence /\ f.idle THEN "no_progress"
                      ELSE IF ~protocol            THEN "trajectory_structure_failure"
                      ELSE IF ~f.modified          THEN "no_effective_modification"
                      ELSE IF ~records             THEN "trajectory_structure_failure"
                      ELSE IF ~f.resolved          THEN "verifier_rejection"
                      ELSE "passed"
<1>1. Judgement(t, f) = [task |-> t, marker |-> MarkerOf(t), outcome |-> outcome,
                         sft |-> Admitted(f.resolved, records, security)]
  BY DEF Judgement
<1>2. outcome \in Outcomes
  BY DEF Outcomes, Fatal, NoProgress
<1>3. Admitted(f.resolved, records, security) \in BOOLEAN
  BY Zenon DEF Admitted
<1> HIDE DEF outcome, records, security
<1>4. [task |-> t, marker |-> MarkerOf(t), outcome |-> outcome,
       sft |-> Admitted(f.resolved, records, security)] \in Attempts
  BY <1>2, <1>3, MarkerTypes DEF Attempts
<1>5. QED BY <1>1, <1>4

\* Recording an attempt: the journal grows by it, and the matrix still runs only
\* if the policy continues after it.
LEMMA Recording ==
  ASSUME MatrixTypes, PolicyState, matrix.status = "running",
         NEW a \in Attempts, a.task = matrix.next + 1,
         matrix' = Recorded(matrix, a), details' = Append(details, a)
  PROVE  /\ matrix' \in Matrices /\ matrix'.next = matrix.next + 1
         /\ details' \in Seq(Attempts) /\ Len(details') = matrix'.next
         /\ \A i \in 1..matrix.next : details'[i] = details[i]
         /\ details'[matrix.next + 1] = a
         /\ \A i \in 1..Len(details') : details'[i].task = i
         /\ PolicyState'
<1> DEFINE consecutive == IF a.outcome \in NoProgress THEN matrix.streak + 1 ELSE 0
<1>1. /\ matrix \in Matrices /\ matrix.next \in 0..N /\ matrix.streak \in {0, 1}
      /\ matrix.next < N /\ details \in Seq(Attempts) /\ Len(details) = matrix.next
      /\ MayContinue(details)
  BY MatrixAssumption DEF MatrixTypes, Matrices, PolicyState
<1>2. consecutive \in 0..2
  BY <1>1
<1>3. /\ matrix'.next = matrix.next + 1
      /\ matrix'.streak = IF consecutive > 2 THEN 2 ELSE consecutive
      /\ matrix'.status = IF a.outcome \in Fatal \/ consecutive >= 2 THEN "stopped"
                          ELSE IF matrix.next + 1 = N THEN "completed" ELSE "running"
      /\ matrix' = [next |-> matrix'.next, streak |-> matrix'.streak,
                    status |-> matrix'.status]
  BY DEF Recorded
<1>4. matrix'.streak = consecutive
  BY <1>2, <1>3
<1>5. matrix' \in Matrices
  BY <1>1, <1>2, <1>3, <1>4, MatrixAssumption DEF Matrices
<1>6. /\ details' \in Seq(Attempts) /\ Len(details') = matrix.next + 1
      /\ \A i \in 1..matrix.next : details'[i] = details[i]
      /\ details'[matrix.next + 1] = a
  BY <1>1
<1>7. \A i \in 1..Len(details') : details'[i].task = i
  BY <1>1, <1>6 DEF MatrixTypes
<1>8. ASSUME matrix'.status = "running"
      PROVE  /\ matrix'.next < N /\ MayContinue(details') /\ matrix'.streak \in {0, 1}
             /\ matrix'.streak = 1 <=> details'[matrix'.next].outcome \in NoProgress
  <2>1. a.outcome \notin Fatal /\ consecutive < 2 /\ matrix.next + 1 # N
    BY <1>2, <1>3, <1>8
  <2>2. matrix'.next < N
    BY <1>1, <1>3, <2>1, MatrixAssumption
  <2>3. /\ a.outcome \in NoProgress => matrix.streak = 0 /\ consecutive = 1
        /\ a.outcome \notin NoProgress => consecutive = 0
    BY <1>1, <2>1
  <2>4. matrix.next > 0 /\ a.outcome \in NoProgress
          => details[matrix.next].outcome \notin NoProgress
    BY <2>3 DEF PolicyState
  <2>5. \A i \in 1..(matrix.next + 1) : details'[i].outcome \notin Fatal
    BY <1>1, <1>6, <2>1 DEF MayContinue
  <2>6. ASSUME NEW i \in 1..matrix.next
        PROVE  ~(details'[i].outcome \in NoProgress /\ details'[i + 1].outcome \in NoProgress)
    <3>1. CASE i = matrix.next
      BY <1>1, <1>6, <2>4, <2>6, <3>1
    <3>2. CASE i # matrix.next
      BY <1>1, <1>6, <2>6, <3>2 DEF MayContinue
    <3>3. QED BY <3>1, <3>2
  <2>7. MayContinue(details')
    <3>1. Len(details') = matrix.next + 1 /\ Len(details') - 1 = matrix.next
      BY <1>1, <1>6
    <3>2. QED BY <2>5, <2>6, <3>1, Zenon DEF MayContinue
  <2>8. matrix'.streak \in {0, 1} /\ (matrix'.streak = 1 <=> a.outcome \in NoProgress)
    BY <1>4, <2>3
  <2>9. QED BY <1>3, <1>6, <2>2, <2>7, <2>8
<1>9. PolicyState'
  BY <1>8 DEF PolicyState, MayContinue
<1>10. QED BY <1>3, <1>5, <1>6, <1>7, <1>9

-----------------------------------------------------------------------------
(* The steps that touch neither journal nor calls, by the places they lead *)
(* from and to.                                                            *)

SameCore ==
  /\ disk'.output = disk.output /\ disk'.progress = disk.progress
  /\ disk'.saved = disk.saved /\ UNCHANGED <<matrix, details, calls>>

Quiet(from, to) ==
  /\ pc \in from /\ pc' \in to /\ SameCore /\ ctl'.active = ctl.active
  /\ MatrixTypes'

Preparation ==
  \/ Headroom \/ ValidateHostRuntime \/ PrepareSocketBacking
  \/ CreateSocketVolume \/ StartProviderDind \/ ValidateInnerInventory
  \/ CreateInnerProviderNetwork \/ ZeroProviderPreflight

LEMMA Preparing ==
  ASSUME MatrixTypes, Preparation PROVE Quiet(Prep, Prep \cup {"handler", "loop"})
<1> DEFINE target == Prep \cup {"handler", "loop"}
<1>1. /\ ctl \in Controls /\ host \in Hosts /\ disk \in Disks /\ target \subseteq Steps
      /\ calls \in [Tasks -> Nat] /\ launches \in 0..MaxLaunches
  BY DEF MatrixTypes, Prep, Steps
<1>2. SUFFICES /\ pc \in Prep /\ pc' \in target /\ SameCore /\ ctl'.active = ctl.active
               /\ ctl' \in Controls /\ host' \in Hosts /\ disk' \in Disks
               /\ (Fault \/ NoFault) /\ UNCHANGED launches
  <2>1. faults' \in 0..MaxFaults
    BY <1>2, FaultTypes DEF NoFault
  <2>2. QED BY <1>1, <1>2, <2>1, Kept DEF Quiet, SameCore
<1> USE DEF Memory, Fixed, Prep, SameCore
<1>3. CASE Headroom
  BY <1>1, <1>3 DEF Headroom, Controls
<1>4. CASE ValidateHostRuntime
  BY <1>1, <1>4 DEF ValidateHostRuntime
<1>5. CASE PrepareSocketBacking
  <2>1. /\ [disk EXCEPT !.backing = TRUE] \in Disks
        /\ [disk EXCEPT !.backing = TRUE].output = disk.output
        /\ [disk EXCEPT !.backing = TRUE].progress = disk.progress
        /\ [disk EXCEPT !.backing = TRUE].saved = disk.saved
    BY <1>1 DEF Disks
  <2>2. disk' \in {disk, [disk EXCEPT !.backing = TRUE]}
    BY <1>5 DEF PrepareSocketBacking
  <2>3. disk' \in Disks /\ SameCore
    BY <1>1, <1>5, <2>1, <2>2 DEF PrepareSocketBacking
  <2>4. QED BY <1>1, <1>5, <2>3 DEF PrepareSocketBacking, NoFault
<1>6. CASE CreateSocketVolume
  BY <1>1, <1>6 DEF CreateSocketVolume, Command, Hosts
<1>7. CASE StartProviderDind
  BY <1>1, <1>7 DEF StartProviderDind, Command, Hosts, Controls
<1>8. CASE ValidateInnerInventory
  BY <1>1, <1>8 DEF ValidateInnerInventory, Command, Hosts, NoFault
<1>9. CASE CreateInnerProviderNetwork
  <2>1. ctl' \in Controls /\ ctl'.active = ctl.active
    BY <1>1, <1>9 DEF CreateInnerProviderNetwork, Controls
  <2>2. QED BY <1>1, <1>9, <2>1 DEF CreateInnerProviderNetwork, Command, Hosts
<1>10. CASE ZeroProviderPreflight
  BY <1>1, <1>10 DEF ZeroProviderPreflight, Hosts
<1>11. QED
  BY <1>3, <1>4, <1>5, <1>6, <1>7, <1>8, <1>9, <1>10 DEF Preparation

\* The next task of a running matrix is on the schedule.
LEMMA NextTask ==
  ASSUME MatrixTypes, PolicyState, matrix.status = "running"
  PROVE  matrix.next \in Nat /\ matrix.next + 1 \in Tasks
  BY MatrixAssumption DEF MatrixTypes, Matrices, PolicyState, Tasks

LEMMA ActiveTask ==
  ASSUME MatrixTypes, Live, pc \in InEpisode
  PROVE  ctl.active \in Tasks /\ ctl.active = matrix.next + 1 /\ matrix.status = "running"
<1>1. pc \notin Stopped
  BY DEF InEpisode, Stopped
<1>2. QED BY <1>1, NextTask DEF Live, Placed

LEMMA Starting ==
  ASSUME MatrixTypes, Live, StartTask
  PROVE  /\ pc = "loop" /\ matrix.status = "running" /\ pc' \in {"handler", "task"}
         /\ SameCore /\ ctl'.active = matrix.next + 1 /\ MatrixTypes'
<1>1. pc = "loop" /\ matrix.status = "running" /\ PolicyState
  BY DEF StartTask, Live, Stopped
<1>2. matrix.next + 1 \in Tasks
  BY <1>1, NextTask
<1>3. /\ ctl \in Controls /\ host \in Hosts /\ disk \in Disks /\ calls \in [Tasks -> Nat]
      /\ launches \in 0..MaxLaunches
  BY DEF MatrixTypes
<1>4. ctl' \in Controls /\ ctl'.active = matrix.next + 1
  BY <1>2, <1>3, MatrixAssumption DEF StartTask, Controls, Tasks
<1>5. disk' \in {disk, Traced(matrix.next + 1, "noruns"), Traced(matrix.next + 1, "silent")}
  BY DEF StartTask
<1>6. \A state \in Traces :
        LET d == Traced(matrix.next + 1, state)
        IN  /\ d \in Disks /\ d.output = disk.output
            /\ d.progress = disk.progress /\ d.saved = disk.saved
  <2>1. PICK a \in Attempts : a.task = matrix.next + 1
    BY <1>2, ExceptionTypes
  <2>2. QED
    BY <1>2, <2>1, Written
<1>7. /\ disk' \in Disks /\ disk'.output = disk.output
      /\ disk'.progress = disk.progress /\ disk'.saved = disk.saved
  BY <1>3, <1>5, <1>6 DEF Traces
<1>8. /\ pc' \in {"handler", "task"} /\ (Fault \/ NoFault)
      /\ UNCHANGED <<matrix, details, host, calls, launches>>
  BY DEF StartTask, Memory, Fixed, NoFault
<1>9. faults' \in 0..MaxFaults /\ pc' \in Steps
  BY <1>8, FaultTypes DEF Steps
<1>10. QED BY <1>1, <1>3, <1>4, <1>7, <1>8, <1>9, Kept DEF SameCore

LEMMA Requesting ==
  ASSUME MatrixTypes, Live, ProviderRequest
  PROVE  /\ pc = "task" /\ pc' = "provider" /\ MatrixTypes'
         /\ calls' = [calls EXCEPT ![ctl.active] = @ + 1]
         /\ UNCHANGED <<matrix, details, ctl, disk>>
<1>1. ctl.active \in Tasks /\ ctl \in Controls /\ host \in Hosts /\ disk \in Disks
  BY ActiveTask DEF ProviderRequest, InEpisode, MatrixTypes
<1>2. calls' = [calls EXCEPT ![ctl.active] = @ + 1] /\ calls \in [Tasks -> Nat]
  BY DEF ProviderRequest, Active, MatrixTypes
<1>3. calls' \in [Tasks -> Nat]
  BY <1>1, <1>2
<1>4. host' \in Hosts
  BY <1>1 DEF ProviderRequest, Hosts
<1>5. faults' \in 0..MaxFaults /\ launches' \in 0..MaxLaunches
  BY DEF ProviderRequest, MatrixTypes
<1>6. QED BY <1>1, <1>2, <1>3, <1>4, <1>5, Kept DEF ProviderRequest, Memory, Steps

LEMMA Running ==
  ASSUME MatrixTypes, Live, EpisodeWithoutProvider \/ EpisodeEnds
  PROVE  Quiet({"task", "provider"}, {"judge", "handler"})
<1>1. /\ ctl \in Controls /\ host \in Hosts /\ disk \in Disks /\ calls \in [Tasks -> Nat]
      /\ faults \in 0..MaxFaults /\ launches \in 0..MaxLaunches
      /\ {"judge", "handler"} \subseteq Steps
  BY DEF MatrixTypes, Steps
<1>2. CASE EpisodeWithoutProvider
  BY <1>1, <1>2, Kept DEF EpisodeWithoutProvider, Quiet, SameCore, Memory, Fixed
<1>3. CASE EpisodeEnds
  <2>1. ctl.active \in Tasks
    BY <1>3, ActiveTask DEF EpisodeEnds, InEpisode
  <2>2. \A state \in Traces :
          LET d == Traced(ctl.active, state)
          IN  /\ d \in Disks /\ d.output = disk.output
              /\ d.progress = disk.progress /\ d.saved = disk.saved
    BY <2>1, ExceptionTypes, Written
  <2>3. disk' \in {disk, Traced(ctl.active, "torn"), Traced(ctl.active, "event")}
    BY <1>3 DEF EpisodeEnds, Active
  <2>4. /\ disk' \in Disks /\ disk'.output = disk.output
        /\ disk'.progress = disk.progress /\ disk'.saved = disk.saved
    BY <1>1, <2>2, <2>3 DEF Traces
  <2>5. host' \in Hosts
    BY <1>1, <1>3 DEF EpisodeEnds, Hosts
  <2>6. /\ pc = "provider" /\ pc' \in {"judge", "handler"} /\ (Fault \/ NoFault)
        /\ UNCHANGED <<matrix, details, ctl, calls, launches>>
    BY <1>3 DEF EpisodeEnds, Memory, Fixed
  <2>7. faults' \in 0..MaxFaults
    BY <2>6, FaultTypes
  <2>8. QED BY <1>1, <2>4, <2>5, <2>6, <2>7, Kept DEF Quiet, SameCore
<1>4. QED BY <1>2, <1>3

JudgedAs(a) ==
  LET written == IF a.sft THEN [disk EXCEPT !.datasets = @ \cup {ctl.active}] ELSE disk
  IN  \/ NoFault /\ pc' = "save" /\ disk' = written /\ ctl' = [ctl EXCEPT !.attempt = a]
      \/ Fault /\ pc' = "handler" /\ disk' \in {disk, written} /\ UNCHANGED ctl

LEMMA Judging ==
  ASSUME MatrixTypes, Live, JudgeEpisode
  PROVE  /\ Quiet({"judge"}, {"save", "handler"})
         /\ pc' = "save" => ctl'.attempt \in Attempts /\ ctl'.attempt.task = ctl.active
<1>1. /\ ctl \in Controls /\ host \in Hosts /\ disk \in Disks /\ calls \in [Tasks -> Nat]
      /\ faults \in 0..MaxFaults /\ launches \in 0..MaxLaunches
      /\ {"save", "handler"} \subseteq Steps
  BY DEF MatrixTypes, Steps
<1>2. ctl.active \in Tasks
  BY ActiveTask DEF JudgeEpisode, InEpisode
<1>3. PICK a \in Attempts : a.task = ctl.active /\ JudgedAs(a)
  <2>1. PICK f \in Findings : JudgedAs(Judgement(ctl.active, f))
    BY DEF JudgeEpisode, JudgedAs, Active
  <2>2. QED BY <1>2, <2>1, JudgementTypes
<1>4. LET written == IF a.sft THEN [disk EXCEPT !.datasets = @ \cup {ctl.active}] ELSE disk
      IN  /\ written \in Disks /\ written.output = disk.output
          /\ written.progress = disk.progress /\ written.saved = disk.saved
  BY <1>1, <1>2 DEF Disks
<1>5. /\ disk' \in Disks /\ disk'.output = disk.output
      /\ disk'.progress = disk.progress /\ disk'.saved = disk.saved
  BY <1>1, <1>3, <1>4 DEF JudgedAs
<1>6. /\ ctl' \in Controls /\ ctl'.active = ctl.active
      /\ pc' = "save" => ctl'.attempt = a
  BY <1>1, <1>3 DEF Controls, JudgedAs
<1>7. /\ pc = "judge" /\ pc' \in {"save", "handler"} /\ (Fault \/ NoFault)
      /\ UNCHANGED <<matrix, details, host, calls, launches>>
  BY <1>3 DEF JudgeEpisode, JudgedAs, Memory, Fixed
<1>8. faults' \in 0..MaxFaults
  BY <1>7, FaultTypes
<1>9. QED BY <1>1, <1>3, <1>5, <1>6, <1>7, <1>8, Kept DEF Quiet, SameCore

-----------------------------------------------------------------------------
(* The steps that seal and record an attempt, or fail to.                  *)

SameBut(saved) ==
  /\ disk'.output = disk.output /\ disk'.progress = disk.progress /\ disk'.saved = saved

Records(a) ==
  /\ a \in Attempts /\ a.task = matrix.next + 1 /\ matrix.status = "running"
  /\ matrix' = Recorded(matrix, a) /\ details' = Append(details, a)
  /\ SameBut([disk.saved EXCEPT ![matrix.next + 1] = a])
  /\ calls' = calls /\ ctl'.active = ctl.active /\ MatrixTypes'

FailsToRecord(a) ==
  /\ a \in Attempts /\ a.task = matrix.next + 1 /\ matrix.status = "running"
  /\ SameBut(disk.saved) \/ SameBut([disk.saved EXCEPT ![matrix.next + 1] = a])
  /\ UNCHANGED <<matrix, details, calls>> /\ ctl'.active = ctl.active /\ MatrixTypes'

\* What both actions that seal an attempt do to the variables.
LEMMA Sealing ==
  ASSUME MatrixTypes, PolicyState, matrix.status = "running",
         NEW a \in Attempts, a.task = matrix.next + 1,
         ctl' \in Controls, ctl'.active = ctl.active, pc' \in Steps,
         Fault \/ NoFault, UNCHANGED <<host, calls, launches>>
  PROVE  /\ disk' = Sealed(a) /\ details' = Append(details, a) /\ matrix' = Recorded(matrix, a)
              => Records(a)
         /\ disk' \in {disk, Sealed(a)} /\ UNCHANGED Memory => FailsToRecord(a)
<1>1. /\ matrix.next + 1 \in Tasks /\ host \in Hosts /\ calls \in [Tasks -> Nat]
      /\ launches \in 0..MaxLaunches /\ disk \in Disks
  BY NextTask DEF MatrixTypes
<1>2. /\ Sealed(a) \in Disks /\ Sealed(a).output = disk.output
      /\ Sealed(a).progress = disk.progress
      /\ Sealed(a).saved = [disk.saved EXCEPT ![matrix.next + 1] = a]
  BY <1>1, Written DEF Traces
<1>3. faults' \in 0..MaxFaults
  BY FaultTypes
<1>4. ASSUME disk' = Sealed(a), details' = Append(details, a), matrix' = Recorded(matrix, a)
      PROVE  Records(a)
  <2>1. MatrixTypes'
    BY <1>1, <1>2, <1>3, <1>4, Recording DEF MatrixTypes
  <2>2. SameBut([disk.saved EXCEPT ![matrix.next + 1] = a])
    BY <1>2, <1>4 DEF SameBut
  <2>3. QED BY <1>4, <2>1, <2>2 DEF Records
<1>5. ASSUME disk' \in {disk, Sealed(a)}, UNCHANGED Memory PROVE FailsToRecord(a)
  <2>1. disk' \in Disks /\ UNCHANGED <<matrix, details>>
    BY <1>1, <1>2, <1>5 DEF Memory
  <2>2. MatrixTypes'
    BY <1>1, <1>3, <2>1, Kept
  <2>3. QED BY <1>2, <1>5, <2>1, <2>2 DEF FailsToRecord, SameBut
<1>6. QED BY <1>4, <1>5

LEMMA Saving ==
  ASSUME MatrixTypes, Live, SaveAttempt
  PROVE  /\ pc = "save"
         /\ \/ pc' = "progress" /\ Records(ctl.attempt)
            \/ pc' = "handler" /\ FailsToRecord(ctl.attempt)
<1>1. /\ pc = "save" /\ matrix.status = "running" /\ PolicyState
      /\ ctl.attempt \in Attempts /\ ctl.attempt.task = matrix.next + 1
  BY ActiveTask DEF SaveAttempt, Live, Placed, InEpisode, Stopped
<1>2. ctl' \in Controls /\ ctl'.active = ctl.active
  BY DEF SaveAttempt, MatrixTypes, Controls
<1>3. /\ UNCHANGED <<host, calls, launches>> /\ (Fault \/ NoFault)
      /\ pc' \in {"progress", "handler"} /\ pc' \in Steps
  BY DEF SaveAttempt, Fixed, Steps
<1>4. \/ /\ pc' = "progress" /\ disk' = Sealed(ctl.attempt)
         /\ details' = Append(details, ctl.attempt) /\ matrix' = Recorded(matrix, ctl.attempt)
      \/ pc' = "handler" /\ disk' \in {disk, Sealed(ctl.attempt)} /\ UNCHANGED Memory
  BY DEF SaveAttempt
<1>5. QED BY <1>1, <1>2, <1>3, <1>4, Sealing

LEMMA RecordingFailure ==
  ASSUME MatrixTypes, Live, RecordFailure
  PROVE  /\ pc = "failure"
         /\ \/ Quiet({"failure"}, {"inspect", "report"}) /\ ~BindingPending
            \/ /\ BindingPending
               /\ \/ pc' \in {"inspect", "report"} /\ Records(ExceptionAttempt(ctl.active))
                  \/ pc' = "escaped" /\ FailsToRecord(ExceptionAttempt(ctl.active))
<1>1. /\ pc = "failure" /\ PolicyState
      /\ ctl \in Controls /\ host \in Hosts /\ calls \in [Tasks -> Nat]
      /\ launches \in 0..MaxLaunches /\ disk \in Disks
  BY DEF RecordFailure, Live, Stopped, MatrixTypes
<1>2. ctl' \in Controls /\ ctl'.active = ctl.active
  BY <1>1 DEF RecordFailure, Controls
<1>3. UNCHANGED <<host, calls, launches>>
  BY DEF RecordFailure, Fixed
<1>4. CASE ~BindingPending
  <2>1. pc' \in {"inspect", "report"} /\ UNCHANGED <<matrix, details, disk, faults>>
    BY <1>4 DEF RecordFailure, Memory
  <2>2. MatrixTypes'
    BY <1>1, <1>2, <1>3, <2>1, FaultTypes, Kept DEF NoFault, Steps
  <2>3. QED BY <1>1, <1>2, <1>3, <1>4, <2>1, <2>2 DEF Quiet, SameCore
<1>5. CASE BindingPending
  <2>1. matrix.status = "running" /\ ctl.active = matrix.next + 1
    BY <1>5 DEF BindingPending, Active
  <2>2. /\ ExceptionAttempt(ctl.active) \in Attempts
        /\ ExceptionAttempt(ctl.active).task = matrix.next + 1
    BY <1>1, <2>1, NextTask, ExceptionTypes
  <2>3. /\ (Fault \/ NoFault)
        /\ \/ /\ pc' \in {"inspect", "report"} /\ disk' = Sealed(ExceptionAttempt(ctl.active))
              /\ details' = Append(details, ExceptionAttempt(ctl.active))
              /\ matrix' = Recorded(matrix, ExceptionAttempt(ctl.active))
           \/ /\ pc' = "escaped" /\ disk' \in {disk, Sealed(ExceptionAttempt(ctl.active))}
              /\ UNCHANGED Memory
    BY <1>5 DEF RecordFailure, Active
  <2>4. pc' \in Steps
    BY <2>3 DEF Steps, Stopped
  <2>5. QED BY <1>1, <1>2, <1>3, <1>5, <2>1, <2>2, <2>3, <2>4, Sealing
<1>6. QED BY <1>4, <1>5

-----------------------------------------------------------------------------
(* The steps that publish, close and clean up, and those of the host.      *)

Journaled ==
  /\ disk'.output = disk.output /\ disk'.saved = disk.saved
  /\ UNCHANGED <<matrix, details, calls>> /\ MatrixTypes'

LEMMA Progressing ==
  ASSUME MatrixTypes, Live, WriteProgress
  PROVE  /\ pc = "progress" /\ Journaled
         /\ \/ pc' = "loop" /\ disk'.progress = details
            \/ /\ pc' = "handler" /\ ctl'.active = ctl.active
               /\ disk'.progress = disk.progress \/ disk'.progress = details
<1>1. /\ pc = "progress" /\ PolicyState /\ ctl \in Controls /\ host \in Hosts
      /\ calls \in [Tasks -> Nat] /\ launches \in 0..MaxLaunches /\ disk \in Disks
  BY DEF WriteProgress, Live, Stopped, MatrixTypes
<1>2. /\ [disk EXCEPT !.progress = details] \in Disks
      /\ [disk EXCEPT !.progress = details].output = disk.output
      /\ [disk EXCEPT !.progress = details].progress = details
      /\ [disk EXCEPT !.progress = details].saved = disk.saved
  BY ProgressWritten
<1>3. \/ pc' = "loop" /\ disk' = [disk EXCEPT !.progress = details]
      \/ /\ pc' = "handler" /\ UNCHANGED ctl
         /\ disk' \in {disk, [disk EXCEPT !.progress = details]}
  BY DEF WriteProgress
<1>4. /\ disk' \in Disks /\ disk'.output = disk.output /\ disk'.saved = disk.saved
      /\ \/ pc' = "loop" /\ disk'.progress = details
         \/ /\ pc' = "handler" /\ ctl'.active = ctl.active
            /\ disk'.progress = disk.progress \/ disk'.progress = details
  BY <1>1, <1>2, <1>3
<1>5. ctl' \in Controls
  <2>1. (IF matrix.status = "running" THEN matrix.next + 1 ELSE 0) \in 0..N
    BY <1>1, NextTask, MatrixAssumption DEF Tasks
  <2>2. \/ UNCHANGED ctl
        \/ ctl' = [ctl EXCEPT !.active = IF matrix.status = "running"
                                           THEN matrix.next + 1 ELSE 0]
    BY DEF WriteProgress
  <2>3. QED BY <1>1, <2>1, <2>2 DEF Controls
<1>6. (Fault \/ NoFault) /\ UNCHANGED <<matrix, details, host, calls, launches>>
  BY DEF WriteProgress, Memory, Fixed
<1>7. faults' \in 0..MaxFaults /\ pc' \in Steps
  BY <1>4, <1>6, FaultTypes DEF Steps
<1>8. QED BY <1>1, <1>4, <1>5, <1>6, <1>7, Kept DEF Journaled

LEMMA ClosingDown ==
  ASSUME MatrixTypes,
         CloseTemplate \/ RemoveInnerNetwork \/ RemoveSidecar \/ RemoveSocketVolume
  PROVE  /\ Quiet({"loop"} \cup Closing, Closing \cup {"handler"})
         /\ pc = "loop" => matrix.status # "running"
<1>1. /\ ctl \in Controls /\ host \in Hosts /\ disk \in Disks
      /\ calls \in [Tasks -> Nat] /\ launches \in 0..MaxLaunches
      /\ Closing \cup {"handler"} \subseteq Steps
  BY DEF MatrixTypes, Closing, Steps
<1>2. SUFFICES /\ pc \in {"loop"} \cup Closing /\ pc' \in Closing \cup {"handler"}
               /\ pc = "loop" => matrix.status # "running"
               /\ ctl'.active = ctl.active /\ ctl' \in Controls /\ host' \in Hosts
               /\ (Fault \/ NoFault) /\ UNCHANGED <<matrix, details, disk, calls, launches>>
  <2>1. faults' \in 0..MaxFaults
    BY <1>2, FaultTypes
  <2>2. QED BY <1>1, <1>2, <2>1, Kept DEF Quiet, SameCore
<1> USE DEF Memory, Fixed, Closing
<1>3. CASE CloseTemplate
  BY <1>1, <1>3 DEF CloseTemplate, Controls
<1>4. CASE RemoveInnerNetwork
  BY <1>1, <1>4 DEF RemoveInnerNetwork, Command, Controls, Hosts
<1>5. CASE RemoveSidecar
  BY <1>1, <1>5 DEF RemoveSidecar, Command, Controls, Hosts, NoFault
<1>6. CASE RemoveSocketVolume
  BY <1>1, <1>6 DEF RemoveSocketVolume, Command, Controls, Hosts
<1>7. QED BY <1>3, <1>4, <1>5, <1>6

LEMMA HandlerClosing ==
  ASSUME MatrixTypes, HandlerClose
  PROVE  Quiet({"handler"}, {"failure", "escaped"})
<1>1. /\ (Fault \/ NoFault) /\ pc = "handler" /\ pc' \in {"failure", "escaped"}
      /\ UNCHANGED <<matrix, details, ctl, host, disk, calls, launches>>
  BY DEF HandlerClose, Memory, Fixed
<1>2. faults' \in 0..MaxFaults /\ pc' \in Steps
  BY <1>1, FaultTypes DEF Steps, Stopped
<1>3. MatrixTypes'
  BY <1>1, <1>2, Kept DEF MatrixTypes
<1>4. QED BY <1>1, <1>3 DEF Quiet, SameCore

CleanUp ==
  \/ InspectSidecar \/ CleanInnerResources \/ UnlinkNetwork \/ RemoveContainer
  \/ CleanSocketVolume

LEMMA CleaningUp == ASSUME MatrixTypes, CleanUp PROVE Quiet(Cleaning, Cleaning)
<1>1. /\ ctl \in Controls /\ host \in Hosts /\ disk \in Disks
      /\ calls \in [Tasks -> Nat] /\ launches \in 0..MaxLaunches
      /\ Cleaning \subseteq Steps
  BY DEF MatrixTypes, Cleaning, Steps
<1>2. SUFFICES /\ pc \in Cleaning /\ pc' \in Cleaning
               /\ ctl'.active = ctl.active /\ ctl' \in Controls /\ host' \in Hosts
               /\ (Fault \/ NoFault) /\ UNCHANGED <<matrix, details, disk, calls, launches>>
  <2>1. faults' \in 0..MaxFaults
    BY <1>2, FaultTypes
  <2>2. QED BY <1>1, <1>2, <2>1, Kept DEF Quiet, SameCore
<1> USE DEF Memory, Fixed, Cleaning, GiveUp
<1>3. CASE InspectSidecar
  BY <1>1, <1>3 DEF InspectSidecar
<1>4. CASE CleanInnerResources
  BY <1>1, <1>4 DEF CleanInnerResources, Hosts
<1>5. CASE UnlinkNetwork
  BY <1>1, <1>5 DEF UnlinkNetwork, Hosts
<1>6. CASE RemoveContainer
  BY <1>1, <1>6 DEF RemoveContainer, Hosts
<1>7. CASE CleanSocketVolume
  <2>1. ctl' \in Controls /\ ctl'.active = ctl.active
    BY <1>1, <1>7 DEF CleanSocketVolume, Controls
  <2>2. QED BY <1>1, <1>7, <2>1 DEF CleanSocketVolume, Hosts
<1>8. QED BY <1>3, <1>4, <1>5, <1>6, <1>7 DEF CleanUp

LEMMA Publishing ==
  ASSUME MatrixTypes, Publish
  PROVE  /\ pc \in {"publish", "report"} /\ pc' \in {"done", "escaped"} /\ Journaled
         /\ disk'.progress = disk.progress \/ disk'.progress = details
<1> DEFINE progress == [disk EXCEPT !.progress = details]
           report(status) ==
             [progress EXCEPT !.report = FinalReport(status, ctl.confirmed)]
<1>1. /\ ctl \in Controls /\ host \in Hosts /\ disk \in Disks /\ details \in Seq(Attempts)
      /\ calls \in [Tasks -> Nat] /\ launches \in 0..MaxLaunches /\ ctl.confirmed \in BOOLEAN
  BY DEF MatrixTypes, Controls
<1>2. \A status : FinalReport(status, ctl.confirmed) \in Reports
  BY <1>1 DEF FinalReport, Reports
<1>3. /\ progress \in Disks /\ progress.output = disk.output
      /\ progress.progress = details /\ progress.saved = disk.saved
  BY ProgressWritten
<1> HIDE DEF progress
<1>4. \A status : /\ report(status) \in Disks /\ report(status).output = disk.output
                  /\ report(status).progress = details /\ report(status).saved = disk.saved
  BY <1>2, <1>3 DEF Disks
<1>5. /\ pc \in {"publish", "report"} /\ pc' \in {"done", "escaped"} /\ (Fault \/ NoFault)
      /\ UNCHANGED <<matrix, details, ctl, host, calls, launches>>
      /\ \E status : disk' \in {disk, progress, report(status)}
  BY DEF Publish, Memory, Fixed, progress
<1>6. /\ disk' \in Disks /\ disk'.output = disk.output /\ disk'.saved = disk.saved
      /\ disk'.progress = disk.progress \/ disk'.progress = details
  BY <1>1, <1>3, <1>4, <1>5
<1>7. faults' \in 0..MaxFaults /\ pc' \in Steps
  BY <1>5, FaultTypes DEF Steps, Stopped
<1>8. QED BY <1>1, <1>5, <1>6, <1>7, Kept DEF Journaled

\* A process begins or ends: its memory is new.
Fresh == matrix' = NewMatrix /\ details' = <<>> /\ ctl' = NewControl /\ MatrixTypes'

LEMMA FreshTypes ==
  /\ NewMatrix \in Matrices /\ NewMatrix.next = 0 /\ NewMatrix.status = "running"
  /\ NewControl \in Controls /\ NewControl.active = 1
  /\ <<>> \in Seq(Attempts) /\ Len(<<>>) = 0
  BY MatrixAssumption DEF NewMatrix, Matrices, NewControl, Controls

LEMMA Launching ==
  ASSUME MatrixTypes, Launch
  PROVE  /\ pc \in Stopped /\ Fresh /\ calls' = calls /\ disk'.saved = disk.saved
         /\ \/ disk.output /\ pc' = "refused" /\ disk' = disk
            \/ /\ ~disk.output /\ pc' \in {"headroom", "escaped"} /\ disk'.output
               /\ disk'.progress = <<>>
<1>1. /\ host \in Hosts /\ calls \in [Tasks -> Nat] /\ disk \in Disks
      /\ faults \in 0..MaxFaults /\ launches' \in 0..MaxLaunches
  BY MatrixAssumption DEF MatrixTypes, Launch
<1>2. LET opened == [disk EXCEPT !.output = TRUE, !.progress = <<>>]
      IN  /\ opened \in Disks /\ opened.output /\ opened.progress = <<>>
          /\ opened.saved = disk.saved
  <2>1. <<>> \in Seq(Attempts)
    OBVIOUS
  <2>2. QED BY <1>1, <2>1 DEF Disks
<1>3. /\ pc \in Stopped /\ UNCHANGED <<host, calls>> /\ (Fault \/ NoFault)
      /\ matrix' = NewMatrix /\ details' = <<>> /\ ctl' = NewControl
      /\ \/ disk.output /\ pc' = "refused" /\ disk' = disk
         \/ /\ ~disk.output /\ pc' \in {"headroom", "escaped"}
            /\ disk' = [disk EXCEPT !.output = TRUE, !.progress = <<>>]
  BY DEF Launch, Refuses, NoFault
<1>4. faults' \in 0..MaxFaults /\ pc' \in Steps
  BY <1>3, FaultTypes DEF Steps, Stopped
<1>5. disk' \in Disks
  BY <1>1, <1>2, <1>3
<1>6. MatrixTypes'
  BY <1>1, <1>3, <1>4, <1>5, FreshTypes DEF MatrixTypes
<1>7. QED BY <1>2, <1>3, <1>6 DEF Fresh

LEMMA Killing ==
  ASSUME MatrixTypes, Kill
  PROVE  pc \notin Stopped /\ pc' = "killed" /\ Fresh /\ UNCHANGED <<calls, disk>>
<1>1. MatrixTypes'
  BY FreshTypes DEF MatrixTypes, Kill, Steps, Stopped
<1>2. QED BY <1>1 DEF Kill, Fresh

LEMMA MatrixInit == ASSUME Init PROVE MatrixTypes /\ MInv
<1>1. disk \in Disks
  BY DEF Init, Disks, Traces, Reports, NoReport
<1>2. MatrixTypes
  BY <1>1, FreshTypes, MatrixAssumption DEF Init, MatrixTypes, Steps, Stopped, Hosts
<1>3. /\ pc \in Stopped /\ disk.progress = <<>>
      /\ \A t \in Tasks : calls[t] = 0 /\ disk.saved[t] = Unsealed
  BY DEF Init, Stopped
<1>4. QED BY <1>2, <1>3 DEF MInv, Live, Lagging, Untouched, EpisodesFollowPolicy

-----------------------------------------------------------------------------
(* The invariant, kept by every shape of step.                             *)

LEMMA LiveNow ==
  ASSUME MatrixTypes, MInv, pc \notin Stopped
  PROVE  /\ disk.output /\ PolicyState /\ Placed /\ Published
         /\ \A i \in 1..matrix.next : disk.saved[i] = details[i]
         /\ \A t \in Tasks : t > matrix.next => Begun(t)
         /\ matrix.next \in Nat /\ Len(details) = matrix.next
         /\ details \in Seq(Attempts) /\ disk.progress \in Seq(Attempts)
         /\ Len(disk.progress) \in Nat
  BY MatrixAssumption DEF MInv, Live, MatrixTypes, Matrices, Disks

\* A step that changes neither journal nor calls keeps all but what depends on
\* the place.
LEMMA QuietKeeps ==
  ASSUME MatrixTypes, MInv, pc \notin Stopped, SameCore,
         pc' \notin Stopped
           => Placed' /\ Published' /\ \A t \in Tasks : t > matrix.next => Begun(t)'
  PROVE  MInv'
<1>1. Lagging' /\ EpisodesFollowPolicy' /\ Untouched'
  BY LiveNow DEF MInv, SameCore, Lagging, EpisodesFollowPolicy, Untouched
<1>2. PolicyState'
  BY LiveNow DEF SameCore, PolicyState
<1>3. Live'
  BY <1>2, LiveNow DEF SameCore, Live
<1>4. QED BY <1>1, <1>3 DEF MInv

LEMMA PreparationKeeps ==
  ASSUME MatrixTypes, MInv, Quiet(Prep, Prep \cup {"handler", "loop"}) PROVE MInv'
<1> USE DEF Prep, InEpisode, Closing, Failing, Stopped
<1>1. /\ pc \in Prep /\ pc' \in Prep \cup {"handler", "loop"} /\ SameCore
      /\ ctl'.active = ctl.active /\ pc \notin Stopped
  BY DEF Quiet
<1>2. Placed' /\ Published'
  BY <1>1, LiveNow DEF Placed, Published, SameCore
<1>3. \A t \in Tasks : t > matrix.next => Begun(t)'
  BY <1>1, LiveNow DEF Begun, SameCore
<1>4. QED BY <1>1, <1>2, <1>3, QuietKeeps

LEMMA StartingKeeps ==
  ASSUME MatrixTypes, MInv, StartTask PROVE MInv'
<1> USE DEF Prep, InEpisode, Closing, Failing, Stopped
<1>1. /\ pc = "loop" /\ matrix.status = "running" /\ pc' \in {"handler", "task"}
      /\ SameCore /\ ctl'.active = matrix.next + 1
  BY Starting DEF MInv
<1>2. Placed' /\ Published'
  BY <1>1, LiveNow DEF Placed, Published, SameCore
<1>3. \A t \in Tasks : t > matrix.next => Begun(t)'
  BY <1>1, LiveNow DEF Begun, SameCore
<1>4. QED BY <1>1, <1>2, <1>3, QuietKeeps

LEMMA EpisodeKeeps ==
  ASSUME MatrixTypes, MInv, EpisodeWithoutProvider \/ EpisodeEnds \/ JudgeEpisode
  PROVE  MInv'
<1> USE DEF Prep, InEpisode, Closing, Failing, Stopped
<1>1. /\ pc \in {"task", "provider", "judge"} /\ pc' \in {"judge", "save", "handler"}
      /\ SameCore /\ ctl'.active = ctl.active
      /\ pc' = "save" => ctl'.attempt \in Attempts /\ ctl'.attempt.task = ctl.active
  BY Running, Judging DEF MInv, Quiet
<1>2. Placed' /\ Published'
  BY <1>1, LiveNow DEF Placed, Published, SameCore
<1>3. \A t \in Tasks : t > matrix.next => Begun(t)'
  BY <1>1, LiveNow DEF Begun, SameCore
<1>4. QED BY <1>1, <1>2, <1>3, QuietKeeps

LEMMA EndingKeeps ==
  ASSUME MatrixTypes, MInv,
         \/ Quiet({"loop"} \cup Closing, Closing \cup {"handler"})
         \/ Quiet({"handler"}, {"failure", "escaped"})
         \/ Quiet({"failure"}, {"inspect", "report"}) /\ ~BindingPending
         \/ Quiet(Cleaning, Cleaning)
  PROVE  MInv'
<1> USE DEF Prep, InEpisode, Closing, Failing, Stopped, Cleaning
<1>1. SameCore /\ ctl'.active = ctl.active /\ pc \notin Stopped
  BY DEF Quiet
<1>2. ASSUME pc' \notin Stopped
      PROVE  Placed' /\ Published' /\ \A t \in Tasks : t > matrix.next => Begun(t)'
  <2>1. \/ pc \in {"loop"} \cup Closing /\ pc' \in Closing \cup {"handler"}
        \/ pc = "handler" /\ pc' = "failure"
        \/ pc = "failure" /\ pc' \in {"inspect", "report"} /\ ~BindingPending
        \/ pc \in Cleaning /\ pc' \in Cleaning
    BY <1>2 DEF Quiet
  <2>2. Placed' /\ Published'
    BY <1>1, <2>1, LiveNow DEF Placed, Published, SameCore
  <2>3. \A t \in Tasks : t > matrix.next => Begun(t)'
    BY <1>1, <2>1, LiveNow DEF Begun, SameCore, BindingPending, Active, Tasks
  <2>4. QED BY <2>2, <2>3
<1>3. QED BY <1>1, <1>2, QuietKeeps

\* An episode begins after attempts after which the policy continues, for a
\* task whose episode has not begun.
LEMMA RequestKeeps ==
  ASSUME MatrixTypes, MInv, ProviderRequest PROVE MInv'
<1> USE DEF Prep, InEpisode, Closing, Failing, Stopped
<1>1. /\ pc = "task" /\ pc' = "provider"
      /\ calls' = [calls EXCEPT ![ctl.active] = @ + 1]
      /\ UNCHANGED <<matrix, details, ctl, disk>>
  BY Requesting DEF MInv
<1>2. /\ ctl.active = matrix.next + 1 /\ matrix.status = "running"
      /\ ctl.active \in Tasks /\ calls[ctl.active] = 0
  <2>1. ctl.active \in Tasks /\ ctl.active = matrix.next + 1 /\ matrix.status = "running"
    BY <1>1, ActiveTask DEF MInv
  <2>2. ~(calls[ctl.active] > 0)
    BY <1>1, <2>1, LiveNow DEF Begun
  <2>3. calls[ctl.active] \in Nat
    BY <2>1 DEF MatrixTypes
  <2>4. QED BY <2>1, <2>2, <2>3
<1>3. /\ \A t \in Tasks : t # ctl.active => calls'[t] = calls[t]
      /\ calls'[ctl.active] = 1
  BY <1>1, <1>2 DEF MatrixTypes
<1>4. /\ \A u \in 1..matrix.next : Continues(disk.saved[u])
      /\ ~ \E u \in 1..(matrix.next - 1) : /\ disk.saved[u].outcome \in NoProgress
                                          /\ disk.saved[u + 1].outcome \in NoProgress
  <2>1. /\ \A i \in 1..matrix.next : disk.saved[i] = details[i] /\ details[i] \in Attempts
        /\ MayContinue(details) /\ Len(details) = matrix.next
    BY <1>1, <1>2, LiveNow DEF PolicyState
  <2>2. \A i \in 1..matrix.next : details[i] # Unsealed
    <3>1. \A a \in Attempts : a.task \in 1..N
      BY DEF Attempts, Tasks
    <3>2. QED BY <2>1, <3>1 DEF Unsealed
  <2>3. \A u \in 1..matrix.next : Continues(disk.saved[u])
    BY <2>1, <2>2 DEF Continues, MayContinue
  <2>4. ASSUME NEW u \in 1..(matrix.next - 1)
        PROVE  ~(disk.saved[u].outcome \in NoProgress
                 /\ disk.saved[u + 1].outcome \in NoProgress)
    <3>1. u \in 1..matrix.next /\ u + 1 \in 1..matrix.next
      BY <1>1, LiveNow
    <3>2. QED BY <2>1, <2>4, <3>1 DEF MayContinue
  <2>5. QED BY <2>3, <2>4
<1>5. EpisodesFollowPolicy'
  <2>1. ASSUME NEW t \in Tasks, calls'[t] > 0
        PROVE  /\ calls'[t] = 1
               /\ \A u \in 1..(t - 1) : Continues(disk.saved[u])
               /\ ~ \E u \in 1..(t - 2) : /\ disk.saved[u].outcome \in NoProgress
                                         /\ disk.saved[u + 1].outcome \in NoProgress
    <3>1. CASE t = ctl.active
      <4>1. t - 1 = matrix.next /\ t - 2 = matrix.next - 1
        BY <1>1, <1>2, <3>1, LiveNow
      <4>2. QED BY <1>3, <1>4, <3>1, <4>1
    <3>2. CASE t # ctl.active
      BY <1>3, <2>1, <3>2 DEF MInv, EpisodesFollowPolicy
    <3>3. QED BY <3>1, <3>2
  <2>2. disk' = disk
    BY <1>1
  <2>3. QED BY <2>1, <2>2 DEF EpisodesFollowPolicy
<1>6. Lagging' /\ Untouched'
  <2>1. Len(disk.progress) = matrix.next
    BY <1>1, LiveNow DEF Published
  <2>2. QED BY <1>1, <1>2, <1>3, <2>1, LiveNow DEF MInv, Lagging, Untouched
<1>7. Live'
  <2>1. Placed' /\ Published' /\ PolicyState'
    BY <1>1, <1>2, LiveNow DEF Placed, Published, PolicyState
  <2>2. \A t \in Tasks : t > matrix.next => Begun(t)'
    BY <1>1, <1>2, <1>3, LiveNow DEF Begun
  <2>3. QED BY <1>1, <2>1, <2>2, LiveNow DEF Live
<1>8. QED BY <1>5, <1>6, <1>7 DEF MInv

LEMMA RecordKeeps ==
  ASSUME MatrixTypes, MInv, NEW a, Records(a),
         \/ pc = "save" /\ pc' = "progress"
         \/ pc = "failure" /\ BindingPending /\ pc' \in {"inspect", "report"}
  PROVE  MInv'
<1> USE DEF Prep, InEpisode, Closing, Failing, Stopped
<1>1. /\ a \in Attempts /\ a.task = matrix.next + 1 /\ matrix.status = "running"
      /\ matrix' = Recorded(matrix, a) /\ details' = Append(details, a)
      /\ disk'.output = disk.output /\ disk'.progress = disk.progress
      /\ disk'.saved = [disk.saved EXCEPT ![matrix.next + 1] = a]
      /\ calls' = calls /\ ctl'.active = ctl.active
  BY DEF Records, SameBut
<1>2. ctl.active = matrix.next + 1 /\ Len(disk.progress) = matrix.next
  BY LiveNow DEF Placed, Published, BindingPending, Active
<1>3. /\ matrix'.next = matrix.next + 1 /\ PolicyState'
      /\ \A i \in 1..matrix.next : details'[i] = details[i]
      /\ details'[matrix.next + 1] = a
  BY <1>1, LiveNow, Recording
<1>4. /\ matrix.next + 1 \in Tasks
      /\ \A t \in Tasks : t # matrix.next + 1 => disk'.saved[t] = disk.saved[t]
      /\ disk'.saved[matrix.next + 1] = a
  <2>1. matrix.next + 1 \in Tasks /\ disk.saved \in [Tasks -> Attempts \cup {Unsealed}]
    BY <1>1, LiveNow, NextTask DEF MatrixTypes, Disks
  <2>2. QED BY <1>1, <2>1
<1>5. /\ \A t \in Tasks : calls[t] > 0 => t <= matrix.next + 1
      /\ matrix.next \in Nat /\ N \in Nat
  <2>1. matrix.next \in Nat /\ \A t \in Tasks : t > matrix.next => Begun(t)
    BY LiveNow
  <2>2. ASSUME NEW t \in Tasks, calls[t] > 0 PROVE t <= matrix.next + 1
    BY <2>1, <2>2 DEF Begun, Tasks
  <2>3. QED BY <2>1, <2>2, MatrixAssumption
<1>6. EpisodesFollowPolicy'
  <2>1. ASSUME NEW t \in Tasks, calls'[t] > 0
        PROVE  \A u \in 1..(t - 1) : u \in Tasks /\ disk'.saved[u] = disk.saved[u]
    <3>1. t \in 1..N /\ t <= matrix.next + 1
      BY <1>1, <1>5, <2>1 DEF Tasks
    <3>2. \A u \in 1..(t - 1) : u \in 1..N /\ u # matrix.next + 1
      BY <1>5, <3>1
    <3>3. QED BY <1>4, <3>2 DEF Tasks
  <2>2. ASSUME NEW t \in Tasks, calls'[t] > 0
        PROVE  /\ calls'[t] = 1
               /\ \A u \in 1..(t - 1) : Continues(disk'.saved[u])
               /\ ~ \E u \in 1..(t - 2) : /\ disk'.saved[u].outcome \in NoProgress
                                         /\ disk'.saved[u + 1].outcome \in NoProgress
    <3>1. /\ calls[t] = 1
          /\ \A u \in 1..(t - 1) : Continues(disk.saved[u])
          /\ \A u \in 1..(t - 2) : ~ /\ disk.saved[u].outcome \in NoProgress
                                     /\ disk.saved[u + 1].outcome \in NoProgress
      BY <1>1, <2>2 DEF MInv, EpisodesFollowPolicy
    <3>2. \A u \in 1..(t - 2) : u \in 1..(t - 1) /\ u + 1 \in 1..(t - 1)
      BY DEF Tasks
    <3>3. QED BY <1>1, <2>1, <2>2, <3>1, <3>2
  <2>3. QED BY <2>2 DEF EpisodesFollowPolicy
<1>7. Lagging' /\ Untouched'
  BY <1>1, <1>2, <1>4, LiveNow DEF MInv, Lagging, Untouched
<1>8. Live'
  <2>1. Placed'
    BY <1>1, <1>2, <1>3 DEF Placed
  <2>2. Published'
    BY <1>1, <1>2, <1>3, LiveNow DEF Published
  <2>3. \A i \in 1..matrix'.next : disk'.saved[i] = details'[i]
    <3>1. \A i \in 1..matrix.next : disk.saved[i] = details[i]
      BY LiveNow
    <3>2. \A i \in 1..matrix'.next :
            \/ i = matrix.next + 1
            \/ i \in 1..matrix.next /\ i \in Tasks /\ i # matrix.next + 1
      <4>1. ASSUME NEW i \in 1..matrix'.next, i # matrix.next + 1
            PROVE  i \in 1..matrix.next /\ i \in 1..N
        <5>1. matrix.next + 1 \in 1..N /\ matrix'.next = matrix.next + 1
          BY <1>3, <1>4 DEF Tasks
        <5>2. QED BY <1>5, <4>1, <5>1
      <4>2. QED BY <4>1 DEF Tasks
    <3>3. QED BY <1>3, <1>4, <3>1, <3>2
  <2>4. \A t \in Tasks : t > matrix'.next => Begun(t)'
    BY <1>1, <1>3, <1>4, LiveNow DEF Begun, Tasks
  <2>5. QED BY <1>1, <1>3, <2>1, <2>2, <2>3, <2>4, LiveNow DEF Live
<1>9. QED BY <1>6, <1>7, <1>8 DEF MInv

LEMMA FailureKeeps ==
  ASSUME MatrixTypes, MInv, NEW a, FailsToRecord(a),
         \/ pc = "save" /\ pc' = "handler"
         \/ pc = "failure" /\ BindingPending /\ pc' = "escaped"
  PROVE  MInv'
<1> USE DEF Prep, InEpisode, Closing, Failing, Stopped
<1>1. /\ a \in Attempts /\ a.task = matrix.next + 1 /\ matrix.status = "running"
      /\ disk'.output = disk.output /\ disk'.progress = disk.progress
      /\ UNCHANGED <<matrix, details, calls>> /\ ctl'.active = ctl.active
      /\ \/ disk'.saved = disk.saved
         \/ disk'.saved = [disk.saved EXCEPT ![matrix.next + 1] = a]
  BY DEF FailsToRecord, SameBut
<1>2. ctl.active = matrix.next + 1 /\ Len(disk.progress) = matrix.next
  BY LiveNow DEF Placed, Published, BindingPending, Active
<1>3. \A t \in Tasks : t # matrix.next + 1 => disk'.saved[t] = disk.saved[t]
  BY <1>1 DEF MatrixTypes, Disks
<1>4. /\ matrix.next \in Nat /\ matrix.next + 1 \in 1..N /\ N \in Nat
      /\ \A t \in Tasks : calls[t] > 0 => t <= matrix.next + 1
  <2>1. /\ matrix.next \in Nat /\ matrix.next + 1 \in 1..N
        /\ \A t \in Tasks : t > matrix.next => Begun(t)
    BY <1>1, LiveNow, NextTask DEF Tasks
  <2>2. ASSUME NEW t \in Tasks, calls[t] > 0 PROVE t <= matrix.next + 1
    BY <2>1, <2>2 DEF Begun, Tasks
  <2>3. QED BY <2>1, <2>2, MatrixAssumption
<1>5. EpisodesFollowPolicy'
  <2>1. ASSUME NEW t \in Tasks, calls'[t] > 0
        PROVE  \A u \in 1..(t - 1) : u \in Tasks /\ disk'.saved[u] = disk.saved[u]
    <3>1. t \in 1..N /\ t <= matrix.next + 1
      BY <1>1, <1>4, <2>1 DEF Tasks
    <3>2. \A u \in 1..(t - 1) : u \in 1..N /\ u # matrix.next + 1
      BY <1>4, <3>1
    <3>3. QED BY <1>3, <3>2 DEF Tasks
  <2>2. ASSUME NEW t \in Tasks, calls'[t] > 0
        PROVE  /\ calls'[t] = 1
               /\ \A u \in 1..(t - 1) : Continues(disk'.saved[u])
               /\ ~ \E u \in 1..(t - 2) : /\ disk'.saved[u].outcome \in NoProgress
                                         /\ disk'.saved[u + 1].outcome \in NoProgress
    <3>1. /\ calls[t] = 1
          /\ \A u \in 1..(t - 1) : Continues(disk.saved[u])
          /\ \A u \in 1..(t - 2) : ~ /\ disk.saved[u].outcome \in NoProgress
                                     /\ disk.saved[u + 1].outcome \in NoProgress
      BY <1>1, <2>2 DEF MInv, EpisodesFollowPolicy
    <3>2. \A u \in 1..(t - 2) : u \in 1..(t - 1) /\ u + 1 \in 1..(t - 1)
      BY DEF Tasks
    <3>3. QED BY <1>1, <2>1, <2>2, <3>1, <3>2
  <2>3. QED BY <2>2 DEF EpisodesFollowPolicy
<1>6. Lagging' /\ Untouched'
  BY <1>1, <1>2, <1>3, LiveNow DEF MInv, Lagging, Untouched
<1>7. Live'
  <2>1. Placed' /\ PolicyState'
    BY <1>1, <1>2, LiveNow DEF Placed, PolicyState
  <2>2. Published'
    BY <1>1, <1>2, LiveNow DEF Published
  <2>3. \A i \in 1..matrix'.next : disk'.saved[i] = details'[i]
    <3>1. \A i \in 1..matrix.next : disk.saved[i] = details[i]
      BY LiveNow
    <3>2. \A i \in 1..matrix.next : i \in 1..N /\ i # matrix.next + 1
      BY <1>4
    <3>3. QED BY <1>1, <1>3, <3>1, <3>2 DEF Tasks
  <2>4. pc' \notin Stopped => \A t \in Tasks : t > matrix.next => Begun(t)'
    BY <1>1, <1>2, <1>3, LiveNow DEF Begun
  <2>5. QED BY <1>1, <2>1, <2>2, <2>3, <2>4, LiveNow DEF Live
<1>8. QED BY <1>5, <1>6, <1>7 DEF MInv

LEMMA JournalKeeps ==
  ASSUME MatrixTypes, MInv, WriteProgress \/ Publish PROVE MInv'
<1> USE DEF Prep, InEpisode, Closing, Failing, Stopped
<1>1. /\ pc \in {"progress", "publish", "report"} /\ Journaled
      /\ \/ pc = "progress" /\ pc' = "loop" /\ disk'.progress = details
         \/ /\ pc = "progress" /\ pc' = "handler" /\ ctl'.active = ctl.active
            /\ disk'.progress = disk.progress \/ disk'.progress = details
         \/ /\ pc' \in {"done", "escaped"}
            /\ disk'.progress = disk.progress \/ disk'.progress = details
  BY Progressing, Publishing DEF MInv
<1>2. /\ disk'.output = disk.output /\ disk'.saved = disk.saved
      /\ UNCHANGED <<matrix, details, calls>>
  BY <1>1 DEF Journaled
<1>3. /\ Len(disk'.progress) \in Nat /\ Len(disk.progress) <= Len(disk'.progress)
      /\ Len(disk'.progress) <= matrix.next /\ matrix.next <= Len(disk'.progress) + 1
      /\ \A i \in 1..Len(disk'.progress) : disk'.progress[i] = details[i]
  BY <1>1, LiveNow DEF Published
<1>4. EpisodesFollowPolicy' /\ Untouched'
  BY <1>1, <1>2, LiveNow DEF MInv, EpisodesFollowPolicy, Untouched
<1>5. Lagging'
  BY <1>1, <1>2, <1>3, LiveNow DEF MInv, Lagging, Tasks
<1>6. Live'
  <2>1. PolicyState'
    BY <1>1, <1>2, LiveNow DEF PolicyState
  <2>2. Placed'
    BY <1>1, <1>2, LiveNow DEF Placed
  <2>3. pc' \notin Stopped => Published'
    BY <1>1, <1>2, <1>3, LiveNow DEF Published, Placed
  <2>4. \A t \in Tasks : t > matrix.next => Begun(t)'
    BY <1>1, <1>2, LiveNow DEF Begun
  <2>5. QED BY <1>1, <1>2, <2>1, <2>2, <2>3, <2>4, LiveNow DEF Live
<1>7. QED BY <1>4, <1>5, <1>6 DEF MInv

LEMMA FreshKeeps ==
  ASSUME MatrixTypes, MInv, Launch \/ Kill PROVE MInv'
<1> USE DEF Prep, InEpisode, Closing, Failing, Stopped
<1>1. CASE Kill
  <2>1. /\ pc \notin Stopped /\ pc' = "killed" /\ UNCHANGED <<calls, disk>>
    BY <1>1, Killing
  <2>2. QED BY <2>1, LiveNow DEF MInv, Live, Lagging, Untouched, EpisodesFollowPolicy
<1>2. CASE Launch
  <2>1. /\ pc \in Stopped /\ Fresh /\ calls' = calls /\ disk'.saved = disk.saved
        /\ \/ disk.output /\ pc' = "refused" /\ disk' = disk
           \/ /\ ~disk.output /\ pc' \in {"headroom", "escaped"} /\ disk'.output
              /\ disk'.progress = <<>>
    BY <1>2, Launching
  <2>2. CASE disk.output
    BY <2>1, <2>2 DEF MInv, Live, Lagging, Untouched, EpisodesFollowPolicy
  <2>3. CASE ~disk.output
    <3>1. /\ \A t \in Tasks : calls'[t] = 0 /\ disk'.saved[t] = Unsealed
          /\ disk'.output /\ disk'.progress = <<>> /\ pc' \in {"headroom", "escaped"}
      BY <2>1, <2>3 DEF MInv, Untouched
    <3>2. /\ matrix'.next = 0 /\ matrix'.status = "running" /\ ctl'.active = 1
          /\ matrix'.streak = 0 /\ details' = <<>>
      BY <2>1, FreshTypes DEF Fresh, NewMatrix
    <3>3. PolicyState' /\ Placed' /\ Published'
      <4>1. Len(<<>>) = 0
        OBVIOUS
      <4>2. QED
        BY <3>1, <3>2, <4>1, MatrixAssumption DEF PolicyState, MayContinue, Placed, Published
    <3>4. \A t \in Tasks : Begun(t)'
      BY <3>1 DEF Begun
    <3>5. QED
      BY <3>1, <3>2, <3>3, <3>4 DEF MInv, Live, Lagging, Untouched, EpisodesFollowPolicy
  <2>4. QED BY <2>2, <2>3
<1>3. QED BY <1>1, <1>2

-----------------------------------------------------------------------------
LEMMA MatrixKept ==
  ASSUME MatrixTypes, MInv, [Next]_vars PROVE MatrixTypes' /\ MInv'
<1>1. Live /\ (pc \notin Stopped => PolicyState)
  BY LiveNow DEF MInv
<1>2. CASE Preparation
  BY <1>2, Preparing, PreparationKeeps DEF Quiet
<1>3. CASE StartTask
  BY <1>1, <1>3, Starting, StartingKeeps
<1>4. CASE ProviderRequest
  BY <1>1, <1>4, Requesting, RequestKeeps
<1>5. CASE EpisodeWithoutProvider \/ EpisodeEnds \/ JudgeEpisode
  BY <1>1, <1>5, Running, Judging, EpisodeKeeps DEF Quiet
<1>6. CASE SaveAttempt
  BY <1>1, <1>6, Saving, RecordKeeps, FailureKeeps DEF Records, FailsToRecord
<1>7. CASE RecordFailure
  <2>1. CASE Quiet({"failure"}, {"inspect", "report"}) /\ ~BindingPending
    BY <2>1, EndingKeeps DEF Quiet
  <2>2. CASE ~(Quiet({"failure"}, {"inspect", "report"}) /\ ~BindingPending)
    BY <1>1, <1>7, <2>2, RecordingFailure, RecordKeeps, FailureKeeps
       DEF Records, FailsToRecord
  <2>3. QED BY <2>1, <2>2
<1>8. CASE WriteProgress \/ Publish
  BY <1>1, <1>8, Progressing, Publishing, JournalKeeps DEF Journaled
<1>9. CASE CloseTemplate \/ RemoveInnerNetwork \/ RemoveSidecar \/ RemoveSocketVolume
  BY <1>9, ClosingDown, EndingKeeps DEF Quiet
<1>10. CASE HandlerClose
  BY <1>10, HandlerClosing, EndingKeeps DEF Quiet
<1>11. CASE CleanUp
  BY <1>11, CleaningUp, EndingKeeps DEF Quiet
<1>12. CASE Launch \/ Kill
  BY <1>12, Launching, Killing, FreshKeeps DEF Fresh
<1>13. CASE UNCHANGED vars
  BY <1>13 DEF vars, MatrixTypes, MInv, Live, Lagging, Untouched, EpisodesFollowPolicy,
               PolicyState, Placed, Published, Begun
<1>14. QED
  BY <1>2, <1>3, <1>4, <1>5, <1>6, <1>7, <1>8, <1>9, <1>10, <1>11, <1>12, <1>13
     DEF Next, Preparation, CleanUp

\* The types of every variable and the invariant, for every schedule.
LEMMA MatrixAlways == Spec => [](MatrixTypes /\ MInv)
<1>1. MatrixTypes /\ MInv /\ [Next]_vars => (MatrixTypes /\ MInv)'
  BY MatrixKept
<1>2. QED BY <1>1, MatrixInit, PTL DEF Spec

\* A provider episode begins at most once per task, whatever fails, is killed
\* or is started again, and only behind tasks that are sealed with outcomes the
\* policy continues after.  (collect, record_matrix_attempt)
THEOREM EpisodesStayWithinPolicy == Spec => []EpisodesFollowPolicy
<1>1. MInv => EpisodesFollowPolicy
  BY DEF MInv
<1>2. QED BY <1>1, MatrixAlways, PTL

\* Of all tasks that were begun or sealed the published journal misses one at
\* most.  (collect: seal, record, write progress)
THEOREM JournalNeverLagsByTwo == Spec => []JournalLagsByOne
<1>1. ASSUME MatrixTypes, MInv PROVE JournalLagsByOne
  <2> DEFINE missing == {t \in Tasks : calls[t] > 0 \/ disk.saved[t] # Unsealed}
                          \ (1..Len(disk.progress))
             next == Len(disk.progress) + 1
  <2>1. Len(disk.progress) \in Nat /\ calls \in [Tasks -> Nat]
    BY <1>1 DEF MatrixTypes, Disks
  <2>2. ASSUME NEW t \in missing PROVE t = next
    <3>1. t \in 1..N /\ t \notin 1..Len(disk.progress)
      BY <2>2 DEF Tasks
    <3>2. ~(t > next)
      BY <1>1, <2>2 DEF MInv, Lagging
    <3>3. QED BY <2>1, <3>1, <3>2
  <2>3. missing \subseteq {next}
    BY <2>2
  <2>4. IsFiniteSet({next}) /\ Cardinality({next}) = 1
    BY FS_Singleton
  <2> HIDE DEF missing
  <2>5. Cardinality(missing) <= 1
    BY <2>3, <2>4, FS_Subset
  <2>6. QED BY <2>5 DEF JournalLagsByOne, missing
<1>2. QED BY <1>1, MatrixAlways, PTL

\* A step extends the published journal or leaves it, and seals nothing anew
\* that is in it.
LEMMA PublishedStays ==
  ASSUME MatrixTypes, MInv, [Next]_vars
  PROVE  /\ IsPrefix(disk.progress, disk'.progress)
         /\ \A i \in 1..Len(disk.progress) : disk'.saved[i] = disk.saved[i]
<1>1. disk.progress \in Seq(Attempts) /\ details \in Seq(Attempts)
  BY DEF MatrixTypes, Disks
<1>2. IsPrefix(disk.progress, disk.progress)
  BY <1>1 DEF IsPrefix
<1>3. Live
  BY DEF MInv
<1>4. CASE disk'.progress = disk.progress /\ disk'.saved = disk.saved
  BY <1>2, <1>4
<1>5. CASE Launch
  <2>1. disk.output => disk' = disk
    BY <1>5, Launching
  <2>2. ~disk.output => disk.progress = <<>> /\ disk'.progress = <<>> /\ disk'.saved = disk.saved
    BY <1>5, Launching DEF MInv, Untouched
  <2>3. QED BY <1>4, <2>1, <2>2
<1>6. CASE WriteProgress \/ Publish
  <2>1. /\ pc \notin Stopped /\ disk'.saved = disk.saved
        /\ disk'.progress = disk.progress \/ disk'.progress = details
    BY <1>3, <1>6, Progressing, Publishing DEF Journaled, Stopped
  <2>2. /\ Len(disk.progress) <= Len(details)
        /\ \A i \in 1..Len(disk.progress) : disk.progress[i] = details[i]
    BY <2>1, LiveNow DEF Published
  <2>3. SubSeq(disk.progress, 1, Len(disk.progress)) = SubSeq(details, 1, Len(disk.progress))
    BY <1>1, <2>2
  <2>4. IsPrefix(disk.progress, details)
    BY <2>2, <2>3 DEF IsPrefix
  <2>5. QED BY <1>2, <2>1, <2>4
<1>7. ASSUME NEW a, Records(a) \/ FailsToRecord(a), pc \notin Stopped
      PROVE  /\ IsPrefix(disk.progress, disk'.progress)
             /\ \A i \in 1..Len(disk.progress) : disk'.saved[i] = disk.saved[i]
  <2>1. /\ disk'.progress = disk.progress
        /\ \/ disk'.saved = disk.saved
           \/ disk'.saved = [disk.saved EXCEPT ![matrix.next + 1] = a]
    BY <1>7 DEF Records, FailsToRecord, SameBut
  <2>2. /\ Len(disk.progress) \in Nat /\ Len(disk.progress) <= matrix.next
        /\ matrix.next \in Nat /\ matrix.next <= N
    BY <1>7, LiveNow, MatrixAssumption DEF Published, MatrixTypes, Matrices
  <2>3. \A i \in 1..Len(disk.progress) : i \in 1..N /\ i # matrix.next + 1
    BY <2>2, MatrixAssumption
  <2>4. disk.saved \in [Tasks -> Attempts \cup {Unsealed}]
    BY DEF MatrixTypes, Disks
  <2>5. QED BY <1>2, <2>1, <2>3, <2>4 DEF Tasks
<1>8. CASE SaveAttempt
  BY <1>3, <1>7, <1>8, Saving DEF Stopped
<1>9. CASE RecordFailure
  BY <1>3, <1>4, <1>7, <1>9, RecordingFailure DEF Stopped, Quiet, SameCore
<1>10. CASE Preparation \/ CleanUp \/ HandlerClose
  BY <1>4, <1>10, Preparing, CleaningUp, HandlerClosing DEF Quiet, SameCore
<1>11. CASE CloseTemplate \/ RemoveInnerNetwork \/ RemoveSidecar \/ RemoveSocketVolume
  BY <1>4, <1>11, ClosingDown DEF Quiet, SameCore
<1>12. CASE StartTask \/ EpisodeWithoutProvider \/ EpisodeEnds \/ JudgeEpisode
  BY <1>3, <1>4, <1>12, Starting, Running, Judging DEF Quiet, SameCore
<1>13. CASE ProviderRequest \/ Kill \/ UNCHANGED vars
  BY <1>4, <1>13 DEF ProviderRequest, Memory, Kill, vars
<1>14. QED
  BY <1>5, <1>6, <1>8, <1>9, <1>10, <1>11, <1>12, <1>13 DEF Next, Preparation, CleanUp

\* What has been published of an execution is never taken back or rewritten.
\* (collect and its failure handler, write_progress)
THEOREM JournalIsAppendOnly == Spec => JournalOnlyGrows
<1>1. MatrixTypes /\ MInv /\ [Next]_vars
        => [/\ IsPrefix(disk.progress, disk'.progress)
            /\ \A i \in 1..Len(disk.progress) : disk'.saved[i] = disk.saved[i]]_vars
  BY PublishedStays
<1>2. QED BY <1>1, MatrixAlways, PTL DEF Spec, JournalOnlyGrows

-----------------------------------------------------------------------------
(* The type invariant: the journal a script publishes, and the one its     *)
(* report lists, are what it had in memory.                                *)

InOrder == Journal(disk.progress) /\ Journal(disk.report.attempts)

LEMMA MemoryIsAJournal == ASSUME MatrixTypes PROVE Journal(details)
<1>1. details \in Seq(Attempts) /\ Len(details) = matrix.next /\ matrix.next \in 0..N
  BY DEF MatrixTypes, Matrices
<1>2. Len(details) <= N
  BY <1>1, MatrixAssumption
<1>3. QED BY <1>1, <1>2 DEF Journal, MatrixTypes

LEMMA DocumentsWritten ==
  ASSUME MatrixTypes, [Next]_vars
  PROVE  /\ disk'.progress \in {disk.progress, <<>>, details}
         /\ disk'.report.attempts \in {disk.report.attempts, details}
<1>1. disk \in Disks
  BY DEF MatrixTypes
<1>2. CASE Launch
  BY <1>1, <1>2 DEF Launch, Disks
<1>3. CASE Preparation \/ CleanUp \/ HandlerClose
  BY <1>1, <1>3 DEF Preparation, CleanUp, HandlerClose, Headroom, ValidateHostRuntime,
    PrepareSocketBacking, CreateSocketVolume, StartProviderDind, ValidateInnerInventory,
    CreateInnerProviderNetwork, ZeroProviderPreflight, InspectSidecar,
    CleanInnerResources, UnlinkNetwork, RemoveContainer, CleanSocketVolume, Disks
<1>4. CASE CloseTemplate \/ RemoveInnerNetwork \/ RemoveSidecar \/ RemoveSocketVolume
  BY <1>4 DEF CloseTemplate, RemoveInnerNetwork, RemoveSidecar, RemoveSocketVolume
<1>5. CASE StartTask \/ EpisodeEnds
  BY <1>1, <1>5 DEF StartTask, EpisodeEnds, Traced, Disks
<1>6. CASE JudgeEpisode
  BY <1>1, <1>6 DEF JudgeEpisode, Disks
<1>7. CASE SaveAttempt
  BY <1>1, <1>7 DEF SaveAttempt, Sealed, Disks
<1>8. CASE RecordFailure
  BY <1>1, <1>8 DEF RecordFailure, Sealed, Disks
<1>9. CASE WriteProgress
  BY <1>1, <1>9 DEF WriteProgress, Disks
<1>10. CASE Publish
  <2> DEFINE status   == IF pc = "report" THEN "stopped" ELSE matrix.status
             progress == [disk EXCEPT !.progress = details]
             report   == [progress EXCEPT !.report = FinalReport(status, ctl.confirmed)]
  <2>1. disk' \in {disk, progress, report}
    BY <1>10 DEF Publish
  <2>2. FinalReport(status, ctl.confirmed).attempts = details
    BY DEF FinalReport
  <2>3. progress.progress = details /\ progress.report = disk.report
    BY <1>1 DEF Disks
  <2>4. report.progress = details /\ report.report = FinalReport(status, ctl.confirmed)
    BY <1>1 DEF Disks
  <2>5. QED BY <2>1, <2>2, <2>3, <2>4
<1>11. CASE ProviderRequest \/ EpisodeWithoutProvider \/ Kill \/ UNCHANGED vars
  BY <1>11 DEF ProviderRequest, EpisodeWithoutProvider, Kill, vars
<1>12. QED
  BY <1>2, <1>3, <1>4, <1>5, <1>6, <1>7, <1>8, <1>9, <1>10, <1>11
     DEF Next, Preparation, CleanUp

\* Every variable keeps its type, and the journal, in memory, in the progress
\* file and in the report, lists the tasks in the order of the schedule.
\* (collect; DeepSeekHarnessMatrixState.validate_state)
THEOREM MatrixTypeCorrectness == Spec => []TypeOK
<1>1. Journal(<<>>)
  BY MatrixAssumption DEF Journal
<1>2. Init => InOrder
  BY <1>1 DEF Init, NoReport, InOrder
<1>3. ASSUME MatrixTypes, InOrder, [Next]_vars PROVE InOrder'
  <2>1. Journal(details)
    BY <1>3, MemoryIsAJournal
  <2>2. /\ disk'.progress \in {disk.progress, <<>>, details}
        /\ disk'.report.attempts \in {disk.report.attempts, details}
    BY <1>3, DocumentsWritten
  <2>3. Journal(disk'.progress) /\ Journal(disk'.report.attempts)
    BY <1>1, <1>3, <2>1, <2>2 DEF InOrder
  <2>4. QED BY <2>3 DEF InOrder
<1>4. ASSUME MatrixTypes, InOrder PROVE TypeOK
  <2>1. Journal(details)
    BY <1>4, MemoryIsAJournal
  <2>2. QED BY <1>4, <2>1 DEF MatrixTypes, InOrder, TypeOK, Matrices, Controls, Hosts, Disks, Traces
<1>5. QED BY <1>2, <1>3, <1>4, MatrixAlways, PTL DEF Spec

-----------------------------------------------------------------------------
(* The report: what it says of the tasks and of the host is so.            *)

\* What the script knows of an attempt, while it runs, is what the disk shows:
\* its marker, and of one admitted to SFT the dataset and a valid trace.
Evidenced(a, t) ==
  /\ a.marker = MarkerOf(t)
  /\ a.sft => t \in disk.datasets /\ a.outcome \notin Fatal /\ disk.trace[t] = "event"

\* A task that no attempt is recorded of has no trace, unless it is the one in
\* hand: an attempt of it is about to be recorded.
InHand(t) ==
  disk.trace[t] # "absent" =>
    /\ t = matrix.next + 1 /\ ctl.active = t /\ matrix.status = "running"
    /\ pc \in InEpisode \cup Failing

Handed ==
  /\ \A i \in 1..matrix.next : Evidenced(details[i], i)
  /\ pc = "save" => Evidenced(ctl.attempt, ctl.active)
  /\ \A t \in Tasks : t > matrix.next => InHand(t)
  /\ matrix.status = "completed" =>
       matrix.next = N /\ \A i \in 1..matrix.next : details[i].outcome \notin Fatal
  /\ disk.report = NoReport

\* On the way to a report without a failure, what has been removed is gone.
Removed ==
  /\ pc \in {"unside", "unvol", "publish"} => ~host.network
  /\ pc \in {"unvol", "publish"} => ~host.sidecar /\ ~host.leftovers
  /\ pc = "publish" => ~host.volume

Reporting == pc \notin Stopped => Handed /\ Removed

\* A valid trace is that of a provider episode.
Provided ==
  /\ \A t \in Tasks : disk.trace[t] = "event" => calls[t] > 0
  /\ pc = "provider" => calls[ctl.active] > 0

Unreported ==
  ~disk.output => disk.report = NoReport /\ \A t \in Tasks : disk.trace[t] = "absent"

ReportIsSound == CompletedMeansClean /\ MarkedTasksAreConsumed /\ CandidatesAreEvidenced

ReportInv == Reporting /\ Provided /\ Unreported /\ ReportIsSound

-----------------------------------------------------------------------------
SameEvidence ==
  /\ disk'.trace = disk.trace /\ disk'.datasets = disk.datasets
  /\ disk'.report = disk.report

LEMMA NoReportIsSound == ASSUME disk.report = NoReport PROVE ReportIsSound
  BY DEF NoReport, None, ReportIsSound, CompletedMeansClean, MarkedTasksAreConsumed,
         CandidatesAreEvidenced

LEMMA NoReportStaysSound == ASSUME disk'.report = NoReport PROVE ReportIsSound'
  BY DEF NoReport, None, ReportIsSound, CompletedMeansClean, MarkedTasksAreConsumed,
         CandidatesAreEvidenced

\* A write to a trace leaves all others and the rest of the record; sealing an
\* attempt and writing the journal leave the whole record.
LEMMA TraceWritten ==
  ASSUME MatrixTypes, NEW t \in Tasks, NEW state \in Traces
  PROVE  /\ Traced(t, state).trace[t] = state
         /\ \A u \in Tasks : u # t => Traced(t, state).trace[u] = disk.trace[u]
         /\ Traced(t, state).datasets = disk.datasets
         /\ Traced(t, state).report = disk.report
<1>1. disk \in Disks /\ disk.trace \in [Tasks -> Traces]
  BY DEF MatrixTypes, Disks
<1>2. Traced(t, state) = [disk EXCEPT !.trace = [disk.trace EXCEPT ![t] = state]]
  BY <1>1 DEF Traced, Disks
<1>3. QED BY <1>1, <1>2 DEF Disks

LEMMA RecordUntouched ==
  ASSUME MatrixTypes, NEW a
  PROVE  /\ Sealed(a).trace = disk.trace /\ Sealed(a).datasets = disk.datasets
         /\ Sealed(a).report = disk.report
         /\ [disk EXCEPT !.progress = details].trace = disk.trace
         /\ [disk EXCEPT !.progress = details].datasets = disk.datasets
         /\ [disk EXCEPT !.progress = details].report = disk.report
<1>1. disk \in Disks
  BY DEF MatrixTypes
<1>2. Sealed(a) = [disk EXCEPT !.saved = [disk.saved EXCEPT ![a.task] = a]]
  BY <1>1 DEF Sealed, Disks
<1>3. QED BY <1>1, <1>2 DEF Disks

LEMMA EvidenceStays ==
  ASSUME MatrixTypes,
         \/ Preparation \/ CleanUp \/ HandlerClose \/ ProviderRequest
         \/ EpisodeWithoutProvider \/ SaveAttempt \/ RecordFailure \/ WriteProgress
         \/ CloseTemplate \/ RemoveInnerNetwork \/ RemoveSidecar \/ RemoveSocketVolume
         \/ Kill \/ Launch
  PROVE  SameEvidence
<1> USE DEF SameEvidence
<1>1. disk \in Disks
  BY DEF MatrixTypes
<1>2. CASE Preparation
  <2>1. disk' \in {disk, [disk EXCEPT !.backing = TRUE]}
    BY <1>2 DEF Preparation, Headroom, ValidateHostRuntime, PrepareSocketBacking,
      CreateSocketVolume, StartProviderDind, ValidateInnerInventory,
      CreateInnerProviderNetwork, ZeroProviderPreflight
  <2>2. QED BY <1>1, <2>1 DEF Disks
<1>3. CASE CleanUp \/ HandlerClose \/ ProviderRequest \/ EpisodeWithoutProvider \/ Kill
  BY <1>3 DEF CleanUp, InspectSidecar, CleanInnerResources, UnlinkNetwork,
    RemoveContainer, CleanSocketVolume, HandlerClose, ProviderRequest,
    EpisodeWithoutProvider, Kill
<1>4. CASE CloseTemplate \/ RemoveInnerNetwork \/ RemoveSidecar \/ RemoveSocketVolume
  BY <1>4 DEF CloseTemplate, RemoveInnerNetwork, RemoveSidecar, RemoveSocketVolume
<1>5. CASE SaveAttempt
  <2>1. disk' \in {disk, Sealed(ctl.attempt)}
    BY <1>5 DEF SaveAttempt
  <2>2. QED BY <2>1, RecordUntouched
<1>6. CASE RecordFailure
  <2>1. disk' \in {disk, Sealed(ExceptionAttempt(Active))}
    BY <1>6 DEF RecordFailure
  <2>2. QED BY <2>1, RecordUntouched
<1>7. CASE WriteProgress
  <2>1. disk' \in {disk, [disk EXCEPT !.progress = details]}
    BY <1>7 DEF WriteProgress
  <2>2. QED BY <2>1, RecordUntouched
<1>8. CASE Launch
  <2>1. disk' \in {disk, [disk EXCEPT !.output = TRUE, !.progress = <<>>]}
    BY <1>8 DEF Launch
  <2>2. QED BY <1>1, <2>1 DEF Disks
<1>9. QED BY <1>2, <1>3, <1>4, <1>5, <1>6, <1>7, <1>8

\* An attempt goes on being what the disk shows while its trace stays and the
\* datasets only grow.
LEMMA EvidencedKeeps ==
  ASSUME NEW a, NEW t \in Tasks, Evidenced(a, t), disk'.trace[t] = disk.trace[t],
         disk.datasets \subseteq disk'.datasets
  PROVE  MarkerOf(t)' = MarkerOf(t) /\ a.marker = MarkerOf(t)'
         /\ (a.sft => /\ t \in disk'.datasets /\ a.outcome \notin Fatal
                      /\ disk'.trace[t] = "event")
  BY DEF Evidenced, MarkerOf

LEMMA RecordedTasks ==
  ASSUME MatrixTypes PROVE matrix.next \in Nat /\ \A i \in 1..matrix.next : i \in Tasks
<1>1. matrix.next \in 0..N /\ N \in Nat
  BY MatrixAssumption DEF MatrixTypes, Matrices
<1>2. QED BY <1>1 DEF Tasks

\* A step that records nothing and leaves the record alone.
LEMMA HandedKeeps ==
  ASSUME MatrixTypes, Handed, UNCHANGED <<matrix, details>>, SameEvidence, pc' # "save",
         \A t \in Tasks : t > matrix.next /\ disk.trace[t] # "absent"
           => ctl'.active = ctl.active /\ pc' \in InEpisode \cup Failing
  PROVE  Handed'
<1>1. \A i \in 1..matrix.next : Evidenced(details[i], i)'
  BY RecordedTasks, EvidencedKeeps DEF Handed, SameEvidence, Evidenced
<1>2. \A t \in Tasks : t > matrix.next => InHand(t)'
  BY DEF Handed, SameEvidence, InHand
<1>3. QED BY <1>1, <1>2 DEF Handed, SameEvidence

\* A step that leaves the record alone keeps the rest.
LEMMA ReportKeeps ==
  ASSUME MatrixTypes, ReportInv, SameEvidence, UNCHANGED calls,
         pc \notin Stopped, pc' # "provider", disk'.output,
         pc' \notin Stopped => Handed' /\ Removed'
  PROVE  ReportInv'
<1>1. disk'.report = NoReport
  BY DEF ReportInv, Reporting, Handed, SameEvidence
<1>2. ReportIsSound'
  BY <1>1, NoReportStaysSound
<1>3. QED BY <1>2 DEF ReportInv, Reporting, Provided, Unreported, SameEvidence

LEMMA ReportNow ==
  ASSUME MatrixTypes, MInv, ReportInv, pc \notin Stopped
  PROVE  /\ Live /\ disk.output /\ PolicyState /\ Handed /\ Removed /\ Provided
         /\ disk.report = NoReport
  BY LiveNow DEF MInv, ReportInv, Reporting, Handed

LEMMA SimpleStepsKeepReport ==
  ASSUME MatrixTypes, MInv, ReportInv, Preparation \/ HandlerClose \/ CleanUp
  PROVE  ReportInv'
<1> USE DEF Prep, InEpisode, Closing, Failing, Cleaning, Stopped
<1>1. /\ pc \in Prep \cup {"handler"} \cup Cleaning
      /\ pc' \in Prep \cup {"handler", "loop", "failure", "escaped"} \cup Cleaning
      /\ SameCore /\ ctl'.active = ctl.active /\ SameEvidence
      /\ pc = "handler" => pc' \in {"failure", "escaped"}
  BY Preparing, HandlerClosing, CleaningUp, EvidenceStays DEF Quiet
<1>2. /\ pc \notin Stopped /\ Handed /\ disk'.output
      /\ UNCHANGED <<matrix, details, calls>>
  BY <1>1, ReportNow DEF SameCore
<1>3. pc' \notin Stopped => Handed'
  BY <1>1, <1>2, HandedKeeps DEF Handed, InHand
<1>4. Removed'
  BY <1>1 DEF Removed
<1>5. QED BY <1>1, <1>2, <1>3, <1>4, ReportKeeps

LEMMA StartKeepsReport ==
  ASSUME MatrixTypes, MInv, ReportInv, StartTask PROVE ReportInv'
<1> USE DEF InEpisode, Failing, Stopped
<1>1. /\ pc = "loop" /\ matrix.status = "running" /\ pc' \in {"handler", "task"}
      /\ SameCore /\ ctl'.active = matrix.next + 1
  BY Starting DEF MInv
<1>2. /\ Handed /\ Provided /\ PolicyState /\ disk'.output /\ disk.report = NoReport
      /\ UNCHANGED <<matrix, details, calls>>
  BY <1>1, ReportNow DEF SameCore
<1>3. matrix.next \in Nat /\ matrix.next + 1 \in Tasks
  BY <1>1, <1>2, NextTask
<1>4. /\ disk'.trace[matrix.next + 1] \in {disk.trace[matrix.next + 1], "noruns", "silent"}
      /\ \A t \in Tasks : t # matrix.next + 1 => disk'.trace[t] = disk.trace[t]
      /\ disk'.datasets = disk.datasets /\ disk'.report = disk.report
  <2>1. disk' \in {disk, Traced(matrix.next + 1, "noruns"), Traced(matrix.next + 1, "silent")}
    BY DEF StartTask
  <2>2. QED BY <1>3, <2>1, TraceWritten DEF Traces
<1>5. \A i \in 1..matrix.next : Evidenced(details[i], i)'
  <2>1. \A i \in 1..matrix.next : i # matrix.next + 1 /\ i \in Tasks
    BY <1>3, RecordedTasks
  <2>2. QED BY <1>2, <1>4, <2>1, EvidencedKeeps DEF Handed, Evidenced
<1>6. \A t \in Tasks : t > matrix.next => InHand(t)'
  BY <1>1, <1>2, <1>4 DEF Handed, InHand
<1>7. Handed'
  BY <1>1, <1>2, <1>4, <1>5, <1>6 DEF Handed
<1>8. Provided'
  BY <1>1, <1>2, <1>4 DEF Provided
<1>9. ReportIsSound'
  BY <1>2, <1>4, NoReportStaysSound
<1>10. QED BY <1>1, <1>2, <1>7, <1>8, <1>9 DEF ReportInv, Reporting, Removed, Unreported

LEMMA RequestKeepsReport ==
  ASSUME MatrixTypes, MInv, ReportInv, ProviderRequest PROVE ReportInv'
<1> USE DEF InEpisode, Failing, Stopped
<1>1. /\ pc = "task" /\ pc' = "provider" /\ SameEvidence
      /\ calls' = [calls EXCEPT ![ctl.active] = @ + 1]
      /\ UNCHANGED <<matrix, details, ctl, disk>>
  BY Requesting, EvidenceStays DEF MInv
<1>2. /\ Handed /\ Provided /\ disk.report = NoReport /\ disk.output
      /\ ctl.active \in Tasks
  BY <1>1, ReportNow, ActiveTask
<1>3. calls'[ctl.active] > 0 /\ \A t \in Tasks : calls[t] > 0 => calls'[t] > 0
  BY <1>1, <1>2 DEF MatrixTypes
<1>4. Provided'
  BY <1>1, <1>2, <1>3 DEF Provided
<1>5. Handed'
  BY <1>1, <1>2, HandedKeeps DEF Handed, InHand
<1>6. ReportIsSound'
  BY <1>1, <1>2, NoReportStaysSound
<1>7. QED BY <1>1, <1>2, <1>4, <1>5, <1>6 DEF ReportInv, Reporting, Removed, Unreported

LEMMA EndKeepsReport ==
  ASSUME MatrixTypes, MInv, ReportInv, EpisodeWithoutProvider \/ EpisodeEnds
  PROVE  ReportInv'
<1> USE DEF InEpisode, Failing, Stopped
<1>1. /\ pc \in {"task", "provider"} /\ pc' \in {"judge", "handler"}
      /\ SameCore /\ ctl'.active = ctl.active
  BY Running DEF Quiet, MInv
<1>2. /\ Handed /\ Provided /\ disk'.output /\ disk.report = NoReport
      /\ UNCHANGED <<matrix, details, calls>>
      /\ ctl.active \in Tasks /\ ctl.active = matrix.next + 1 /\ matrix.status = "running"
  BY <1>1, ReportNow, ActiveTask DEF SameCore
<1>3. /\ disk'.trace[ctl.active] = "event"
           => disk.trace[ctl.active] = "event" \/ pc = "provider"
      /\ \A t \in Tasks : t # ctl.active => disk'.trace[t] = disk.trace[t]
      /\ disk'.datasets = disk.datasets /\ disk'.report = disk.report
  <2>1. CASE EpisodeWithoutProvider
    BY <2>1, EvidenceStays DEF SameEvidence
  <2>2. CASE EpisodeEnds
    <3>1. /\ disk' \in {disk, Traced(ctl.active, "torn"), Traced(ctl.active, "event")}
          /\ pc = "provider"
      BY <2>2 DEF EpisodeEnds, Active
    <3>2. QED BY <1>2, <3>1, TraceWritten DEF Traces
  <2>3. QED BY <2>1, <2>2
<1>4. \A i \in 1..matrix.next : Evidenced(details[i], i)'
  <2>1. \A i \in 1..matrix.next : i # ctl.active /\ i \in Tasks
    BY <1>2, RecordedTasks
  <2>2. QED BY <1>2, <1>3, <2>1, EvidencedKeeps DEF Handed, Evidenced
<1>5. \A t \in Tasks : t > matrix.next => InHand(t)'
  BY <1>1, <1>2, <1>3 DEF Handed, InHand
<1>6. Handed'
  BY <1>1, <1>2, <1>3, <1>4, <1>5 DEF Handed
<1>7. Provided'
  BY <1>1, <1>2, <1>3 DEF Provided
<1>8. ReportIsSound'
  BY <1>2, <1>3, NoReportStaysSound
<1>9. QED BY <1>1, <1>2, <1>6, <1>7, <1>8 DEF ReportInv, Reporting, Removed, Unreported

\* An episode admitted to SFT has a valid marker, and is neither an
\* infrastructure nor a security failure.
LEMMA JudgementIsEvidenced ==
  ASSUME NEW t \in Tasks, NEW f \in Findings
  PROVE  /\ Judgement(t, f).marker = MarkerOf(t)
         /\ Judgement(t, f).sft =>
              Judgement(t, f).outcome \notin Fatal /\ disk.trace[t] = "event"
<1>1. MarkerOf(t) = "started_valid" => disk.trace[t] = "event"
  BY DEF MarkerOf
<1>2. ASSUME Judgement(t, f).sft
      PROVE  Judgement(t, f).outcome \notin Fatal /\ MarkerOf(t) = "started_valid"
  BY <1>2 DEF Judgement, Admitted, Fatal
<1>3. Judgement(t, f).marker = MarkerOf(t)
  BY DEF Judgement
<1>4. QED BY <1>1, <1>2, <1>3

LEMMA JudgeKeepsReport ==
  ASSUME MatrixTypes, MInv, ReportInv, JudgeEpisode PROVE ReportInv'
<1> USE DEF InEpisode, Failing, Stopped
<1>1. /\ pc = "judge" /\ pc' \in {"save", "handler"}
      /\ SameCore /\ ctl'.active = ctl.active
  BY Judging DEF Quiet, MInv
<1>2. /\ Handed /\ Provided /\ disk'.output /\ disk.report = NoReport
      /\ UNCHANGED <<matrix, details, calls>>
      /\ ctl.active \in Tasks /\ ctl.active = matrix.next + 1 /\ matrix.status = "running"
  BY <1>1, ReportNow, ActiveTask DEF SameCore
<1>3. PICK a : /\ a.marker = MarkerOf(ctl.active) /\ JudgedAs(a)
               /\ a.sft => a.outcome \notin Fatal /\ disk.trace[ctl.active] = "event"
  <2>1. PICK f \in Findings : JudgedAs(Judgement(ctl.active, f))
    BY DEF JudgeEpisode, JudgedAs, Active
  <2>2. QED BY <1>2, <2>1, JudgementIsEvidenced
<1>4. /\ disk'.trace = disk.trace /\ disk.datasets \subseteq disk'.datasets
      /\ disk'.report = disk.report
      /\ pc' = "save" => ctl'.attempt = a /\ (a.sft => ctl.active \in disk'.datasets)
  <2>1. disk \in Disks /\ ctl \in Controls
    BY DEF MatrixTypes
  <2> DEFINE more == [disk EXCEPT !.datasets = @ \cup {ctl.active}]
  <2>2. /\ more.trace = disk.trace /\ more.report = disk.report
        /\ more.datasets = disk.datasets \cup {ctl.active}
    BY <2>1 DEF Disks
  <2>3. /\ disk' \in {disk, more}
        /\ pc' = "save" => ctl' = [ctl EXCEPT !.attempt = a] /\ (a.sft => disk' = more)
    BY <1>1, <1>3 DEF JudgedAs
  <2>4. pc' = "save" => ctl'.attempt = a
    BY <2>1, <2>3 DEF Controls
  <2> HIDE DEF more
  <2>5. QED BY <2>2, <2>3, <2>4
<1>5. \A i \in 1..matrix.next : Evidenced(details[i], i)'
  BY <1>2, <1>4, RecordedTasks, EvidencedKeeps DEF Handed, Evidenced
<1>6. pc' = "save" => Evidenced(ctl.attempt, ctl.active)'
  BY <1>1, <1>3, <1>4 DEF Evidenced, MarkerOf
<1>7. \A t \in Tasks : t > matrix.next => InHand(t)'
  BY <1>1, <1>2, <1>4 DEF Handed, InHand
<1>8. Handed'
  BY <1>2, <1>4, <1>5, <1>6, <1>7 DEF Handed
<1>9. ReportIsSound'
  BY <1>2, <1>4, NoReportStaysSound
<1>10. Provided'
  BY <1>1, <1>2, <1>4 DEF Provided
<1>11. QED BY <1>1, <1>2, <1>8, <1>9, <1>10 DEF ReportInv, Reporting, Removed, Unreported

LEMMA ProgressKeepsReport ==
  ASSUME MatrixTypes, MInv, ReportInv, WriteProgress PROVE ReportInv'
<1> USE DEF InEpisode, Failing, Stopped
<1>1. /\ pc = "progress" /\ pc' \in {"loop", "handler"} /\ SameEvidence
      /\ disk'.output = disk.output /\ UNCHANGED <<matrix, details, calls>>
  BY Progressing, EvidenceStays DEF Journaled, MInv
<1>2. Handed /\ disk.output
  BY <1>1, ReportNow
<1>3. Handed'
  BY <1>1, <1>2, HandedKeeps DEF Handed, InHand
<1>4. QED BY <1>1, <1>2, <1>3, ReportKeeps DEF Removed

\* The matrix is completed by an attempt that is not fatal, for the last task.
LEMMA CompletedByLast ==
  ASSUME NEW a, Recorded(matrix, a).status = "completed"
  PROVE  a.outcome \notin Fatal /\ matrix.next + 1 = N
<1> DEFINE consecutive == IF a.outcome \in NoProgress THEN matrix.streak + 1 ELSE 0
<1>1. Recorded(matrix, a).status
        = IF a.outcome \in Fatal \/ consecutive >= 2 THEN "stopped"
          ELSE IF matrix.next + 1 = N THEN "completed" ELSE "running"
  BY DEF Recorded
<1>2. QED BY <1>1

\* The task in hand is recorded with an attempt that the disk bears out.
LEMMA RecordKeepsReport ==
  ASSUME MatrixTypes, MInv, ReportInv, NEW a, Records(a), Evidenced(a, matrix.next + 1),
         SameEvidence, pc \in {"save", "failure"}, pc' \in {"progress", "inspect", "report"}
  PROVE  ReportInv'
<1> USE DEF InEpisode, Failing, Stopped
<1>1. /\ a \in Attempts /\ a.task = matrix.next + 1 /\ matrix.status = "running"
      /\ matrix' = Recorded(matrix, a) /\ details' = Append(details, a)
      /\ disk'.output = disk.output /\ calls' = calls /\ ctl'.active = ctl.active
  BY DEF Records, SameBut
<1>2. Handed /\ disk.output /\ PolicyState
  BY ReportNow
<1>3. /\ matrix'.next = matrix.next + 1 /\ details'[matrix.next + 1] = a
      /\ \A i \in 1..matrix.next : details'[i] = details[i]
  BY <1>1, <1>2, Recording
<1>4. /\ matrix.next \in Nat /\ matrix.next + 1 \in Tasks
      /\ \A i \in 1..matrix'.next : i \in Tasks /\ (i = matrix.next + 1 \/ i \in 1..matrix.next)
  <2>1. matrix.next \in Nat /\ matrix.next + 1 \in Tasks /\ N \in Nat
    BY <1>1, <1>2, NextTask, MatrixAssumption
  <2>2. QED BY <1>3, <2>1 DEF Tasks
<1>5. \A i \in 1..matrix'.next : Evidenced(details[i], i)'
  <2>1. ASSUME NEW i \in 1..matrix'.next PROVE i \in Tasks /\ Evidenced(details'[i], i)
    BY <1>2, <1>3, <1>4 DEF Handed
  <2>2. QED BY <2>1, EvidencedKeeps DEF SameEvidence, Evidenced
<1>6. \A t \in Tasks : t > matrix'.next => InHand(t)'
  <2>1. ASSUME NEW t \in Tasks, t > matrix'.next PROVE disk'.trace[t] = "absent"
    BY <1>2, <1>3, <1>4, <2>1 DEF Handed, InHand, SameEvidence, Tasks
  <2>2. QED BY <2>1 DEF InHand
<1>7. ASSUME matrix'.status = "completed"
      PROVE  matrix'.next = N /\ \A i \in 1..matrix'.next : details'[i].outcome \notin Fatal
  <2>1. a.outcome \notin Fatal /\ matrix.next + 1 = N
    BY <1>1, <1>7, CompletedByLast
  <2>2. \A i \in 1..matrix.next : details[i].outcome \notin Fatal
    BY <1>1, <1>2 DEF PolicyState, MayContinue, MatrixTypes
  <2>3. QED BY <1>3, <1>4, <2>1, <2>2
<1>8. Handed'
  BY <1>2, <1>5, <1>6, <1>7 DEF Handed, SameEvidence
<1>9. QED BY <1>1, <1>2, <1>8, ReportKeeps DEF Removed

LEMMA FailureKeepsReport ==
  ASSUME MatrixTypes, MInv, ReportInv, NEW a, FailsToRecord(a), SameEvidence,
         \/ pc = "save" /\ pc' = "handler"
         \/ pc = "failure" /\ pc' = "escaped"
  PROVE  ReportInv'
<1> USE DEF InEpisode, Failing, Stopped
<1>1. /\ disk'.output = disk.output /\ UNCHANGED <<matrix, details, calls>>
      /\ ctl'.active = ctl.active
  BY DEF FailsToRecord, SameBut
<1>2. Handed /\ disk.output
  BY ReportNow
<1>3. pc' \notin Stopped => Handed'
  BY <1>1, <1>2, HandedKeeps
<1>4. QED BY <1>1, <1>2, <1>3, ReportKeeps DEF Removed

LEMMA SaveKeepsReport ==
  ASSUME MatrixTypes, MInv, ReportInv, SaveAttempt PROVE ReportInv'
<1>1. /\ pc = "save" /\ SameEvidence
      /\ \/ pc' = "progress" /\ Records(ctl.attempt)
         \/ pc' = "handler" /\ FailsToRecord(ctl.attempt)
  BY Saving, EvidenceStays DEF MInv
<1>2. Evidenced(ctl.attempt, matrix.next + 1)
  BY <1>1, ReportNow, ActiveTask DEF Handed, InEpisode, Stopped
<1>3. QED BY <1>1, <1>2, RecordKeepsReport, FailureKeepsReport

LEMMA RecordFailureKeepsReport ==
  ASSUME MatrixTypes, MInv, ReportInv, RecordFailure PROVE ReportInv'
<1> USE DEF InEpisode, Failing, Stopped
<1>1. /\ pc = "failure" /\ SameEvidence /\ disk.output /\ Handed /\ Live
  <2>1. pc = "failure"
    BY DEF RecordFailure
  <2>2. QED BY <2>1, ReportNow, EvidenceStays
<1>2. CASE Quiet({"failure"}, {"inspect", "report"}) /\ ~BindingPending
  <2>1. /\ pc' \in {"inspect", "report"} /\ disk'.output
        /\ UNCHANGED <<matrix, details, calls>>
    BY <1>1, <1>2 DEF Quiet, SameCore
  <2>2. ASSUME NEW t \in Tasks, t > matrix.next PROVE disk.trace[t] = "absent"
    <3>1. matrix.next \in Nat
      BY RecordedTasks
    <3>2. QED BY <1>1, <1>2, <2>2, <3>1 DEF Handed, InHand, BindingPending, Active
  <2>3. Handed'
    BY <1>1, <2>1, <2>2, HandedKeeps
  <2>4. QED BY <1>1, <2>1, <2>3, ReportKeeps DEF Removed
<1>3. CASE ~(Quiet({"failure"}, {"inspect", "report"}) /\ ~BindingPending)
  <2>1. /\ BindingPending
        /\ \/ pc' \in {"inspect", "report"} /\ Records(ExceptionAttempt(ctl.active))
           \/ pc' = "escaped" /\ FailsToRecord(ExceptionAttempt(ctl.active))
    BY <1>1, <1>3, RecordingFailure
  <2>2. Evidenced(ExceptionAttempt(ctl.active), matrix.next + 1)
    BY <2>1 DEF BindingPending, Active, ExceptionAttempt, Evidenced
  <2>3. QED BY <1>1, <2>1, <2>2, RecordKeepsReport, FailureKeepsReport
<1>4. QED BY <1>2, <1>3

LEMMA CloseKeepsReport ==
  ASSUME MatrixTypes, MInv, ReportInv,
         CloseTemplate \/ RemoveInnerNetwork \/ RemoveSidecar \/ RemoveSocketVolume
  PROVE  ReportInv'
<1> USE DEF InEpisode, Failing, Stopped, Closing
<1>1. /\ pc \in {"loop"} \cup Closing /\ pc' \in Closing \cup {"handler"}
      /\ pc = "loop" => matrix.status # "running"
      /\ SameCore /\ SameEvidence
  BY ClosingDown, EvidenceStays DEF Quiet
<1>2. /\ Handed /\ Removed /\ disk'.output /\ UNCHANGED <<matrix, details, calls>>
  BY <1>1, ReportNow DEF SameCore
<1>3. Handed'
  BY <1>1, <1>2, HandedKeeps DEF Handed, InHand
<1>4. Removed'
  <2>1. host \in Hosts
    BY DEF MatrixTypes
  <2>2. CASE CloseTemplate
    BY <2>2 DEF CloseTemplate, Removed
  <2>3. CASE RemoveInnerNetwork
    BY <2>1, <2>3 DEF RemoveInnerNetwork, Command, Removed, Hosts
  <2>4. CASE RemoveSidecar
    BY <1>2, <2>1, <2>4 DEF RemoveSidecar, Command, Removed, Hosts
  <2>5. CASE RemoveSocketVolume
    BY <1>2, <2>1, <2>5 DEF RemoveSocketVolume, Command, Removed, Hosts
  <2>6. QED BY <2>2, <2>3, <2>4, <2>5
<1>5. QED BY <1>1, <1>2, <1>3, <1>4, ReportKeeps

LEMMA FreshKeepsReport ==
  ASSUME MatrixTypes, MInv, ReportInv, Launch \/ Kill PROVE ReportInv'
<1> USE DEF InEpisode, Failing, Stopped
<1>1. CASE Kill
  <2>1. pc' = "killed" /\ UNCHANGED <<disk, calls>> /\ pc \notin Stopped
    BY <1>1, Killing
  <2>2. disk.report = NoReport /\ Provided
    BY <2>1, ReportNow
  <2>3. ReportIsSound'
    BY <2>1, <2>2, NoReportStaysSound
  <2>4. QED BY <2>1, <2>2, <2>3 DEF ReportInv, Reporting, Provided, Unreported
<1>2. CASE Launch
  <2>1. /\ pc \in Stopped /\ Fresh /\ UNCHANGED <<calls, host>> /\ disk'.saved = disk.saved
        /\ SameEvidence
        /\ \/ disk.output /\ pc' = "refused" /\ disk' = disk
           \/ /\ ~disk.output /\ pc' \in {"headroom", "escaped"} /\ disk'.output
    BY <1>2, Launching, EvidenceStays DEF Launch
  <2>2. CASE disk.output
    <3>1. disk' = disk /\ pc' = "refused"
      BY <2>1, <2>2
    <3>2. ReportIsSound'
      BY <2>1, <3>1 DEF ReportInv, ReportIsSound, CompletedMeansClean,
        MarkedTasksAreConsumed, CandidatesAreEvidenced, MarkerOf
    <3>3. QED BY <2>1, <3>1, <3>2 DEF ReportInv, Reporting, Provided, Unreported
  <2>3. CASE ~disk.output
    <3>1. /\ disk'.report = NoReport /\ \A t \in Tasks : disk'.trace[t] = "absent"
          /\ pc' \in {"headroom", "escaped"}
      BY <2>1, <2>3 DEF ReportInv, Unreported, SameEvidence
    <3>2. matrix'.next = 0 /\ matrix'.status = "running"
      BY <2>1, FreshTypes DEF Fresh
    <3>3. Handed' /\ Removed'
      BY <3>1, <3>2 DEF Handed, InHand, Removed
    <3>4. ReportIsSound'
      BY <3>1, NoReportStaysSound
    <3>5. QED BY <3>1, <3>3, <3>4 DEF ReportInv, Reporting, Provided, Unreported
  <2>4. QED BY <2>2, <2>3
<1>3. QED BY <1>1, <1>2

-----------------------------------------------------------------------------
(* Publishing.                                                             *)

LEMMA PublishKeepsReport ==
  ASSUME MatrixTypes, MInv, ReportInv, Publish PROVE ReportInv'
<1> USE DEF InEpisode, Failing, Stopped
<1> DEFINE status   == IF pc = "report" THEN "stopped" ELSE matrix.status
           progress == [disk EXCEPT !.progress = details]
           final    == FinalReport(status, ctl.confirmed)
           report   == [progress EXCEPT !.report = final]
<1>1. /\ pc \in {"publish", "report"} /\ pc' \in {"done", "escaped"}
      /\ disk'.output = disk.output /\ disk'.saved = disk.saved
      /\ UNCHANGED <<matrix, details, calls, host>>
  BY Publishing DEF Journaled, Publish
<1>2. /\ Handed /\ Removed /\ Provided /\ disk.output /\ disk.report = NoReport
  BY <1>1, ReportNow
<1>3. /\ disk'.trace = disk.trace /\ disk'.datasets = disk.datasets
      /\ disk'.report \in {NoReport, final}
  <2>1. disk \in Disks /\ disk' \in {disk, progress, report}
    BY DEF MatrixTypes, Publish
  <2>2. /\ progress \in Disks /\ progress.trace = disk.trace
        /\ progress.datasets = disk.datasets /\ progress.report = disk.report
    BY ProgressWritten, RecordUntouched
  <2> HIDE DEF progress, final
  <2>3. /\ report.trace = progress.trace /\ report.datasets = progress.datasets
        /\ report.report = final
    BY <2>2 DEF Disks
  <2> HIDE DEF report
  <2>4. QED BY <1>2, <2>1, <2>2, <2>3
<1>4. /\ final.attempts = details
      /\ final.status = "completed" => pc = "publish" /\ matrix.status = "completed"
  BY <1>1 DEF FinalReport
<1> HIDE DEF final
<1>5. /\ matrix.next \in Nat /\ \A i \in 1..matrix.next : i \in Tasks
      /\ \A i \in 1..matrix.next : disk.saved[i] = details[i] /\ details[i] \in Attempts
      /\ Len(details) = matrix.next
      /\ \A t \in Tasks : disk.trace[t] # "absent" => t \in 1..matrix.next
  <2>1. /\ matrix.next \in Nat /\ \A i \in 1..matrix.next : disk.saved[i] = details[i]
        /\ details \in Seq(Attempts) /\ Len(details) = matrix.next
    BY <1>1, LiveNow
  <2>2. ASSUME NEW t \in Tasks, disk.trace[t] # "absent" PROVE t \in 1..matrix.next
    BY <1>1, <1>2, <2>1, <2>2 DEF Handed, InHand, Tasks
  <2>3. QED BY <2>1, <2>2, RecordedTasks
<1>6. CASE disk'.report = NoReport
  BY <1>1, <1>2, <1>3, <1>6, NoReportStaysSound DEF ReportInv, Reporting, Provided, Unreported
<1>7. CASE disk'.report = final
  <2>1. CompletedMeansClean'
    <3>1. SUFFICES ASSUME disk'.report.status = "completed"
                   PROVE  /\ Len(disk'.report.attempts) = N
                          /\ \A t \in Tasks : Continues(disk'.saved[t])
                          /\ \A resource \in DOMAIN host' : ~host'[resource]
      BY DEF CompletedMeansClean
    <3>2. pc = "publish" /\ matrix.status = "completed"
      BY <1>4, <1>7, <3>1
    <3>3. matrix.next = N /\ \A i \in 1..matrix.next : details[i].outcome \notin Fatal
      BY <1>2, <3>2 DEF Handed
    <3>4. ASSUME NEW t \in Tasks PROVE Continues(disk'.saved[t])
      <4>1. disk'.saved[t] = details[t] /\ details[t] \in Attempts
            /\ details[t].outcome \notin Fatal
        BY <1>1, <1>5, <3>3 DEF Tasks
      <4>2. \A a \in Attempts : a.task \in 1..N
        BY DEF Attempts, Tasks
      <4>3. QED BY <4>1, <4>2 DEF Continues, Unsealed
    <3>5. \A resource \in DOMAIN host' : ~host'[resource]
      <4>1. ~host.network /\ ~host.sidecar /\ ~host.leftovers /\ ~host.volume
        BY <1>2, <3>2 DEF Removed
      <4>2. host' = host /\ DOMAIN host = {"volume", "sidecar", "network", "leftovers"}
        BY <1>1 DEF MatrixTypes, Hosts
      <4>3. QED BY <4>1, <4>2
    <3>6. QED BY <1>4, <1>5, <1>7, <3>3, <3>4, <3>5
  <2>2. MarkedTasksAreConsumed'
    <3>1. ASSUME NEW t \in Tasks, MarkerOf(t)' # "not_started"
          PROVE  t \in 1..matrix.next /\ Consumed(details[t])
      <4>1. MarkerOf(t)' = MarkerOf(t) /\ disk.trace[t] # "absent"
        BY <1>3, <3>1 DEF MarkerOf
      <4>2. t \in 1..matrix.next
        BY <1>5, <4>1
      <4>3. details[t].marker = MarkerOf(t)
        BY <1>2, <4>2 DEF Handed, Evidenced
      <4>4. QED BY <3>1, <4>1, <4>2, <4>3 DEF Consumed
    <3>2. disk'.report.attempts = details
      BY <1>4, <1>7
    <3>3. ASSUME NEW t \in Tasks, MarkerOf(t)' # "not_started"
          PROVE  t <= Len(disk'.report.attempts) /\ Consumed(disk'.report.attempts[t])
      BY <1>5, <3>1, <3>2, <3>3
    <3>4. QED BY <3>3 DEF MarkedTasksAreConsumed, Consumed
  <2>3. CandidatesAreEvidenced'
    <3>1. disk'.report.attempts = details
      BY <1>4, <1>7
    <3>2. ASSUME NEW i \in 1..matrix.next, details[i].sft
          PROVE  /\ i \in disk.datasets /\ details[i].outcome \notin Fatal
                 /\ calls[i] = 1 /\ disk.trace[i] = "event" /\ disk.saved[i] = details[i]
      <4>1. /\ i \in Tasks /\ i \in disk.datasets /\ details[i].outcome \notin Fatal
            /\ disk.trace[i] = "event" /\ disk.saved[i] = details[i]
        BY <1>2, <1>5, <3>2 DEF Handed, Evidenced
      <4>2. calls[i] = 1
        BY <1>2, <4>1 DEF Provided, MInv, EpisodesFollowPolicy
      <4>3. QED BY <4>1, <4>2
    <3>3. QED BY <1>1, <1>3, <1>5, <3>1, <3>2 DEF CandidatesAreEvidenced
  <2>4. QED
    BY <1>1, <1>2, <1>3, <2>1, <2>2, <2>3
       DEF ReportInv, Reporting, Provided, Unreported, ReportIsSound
<1>8. QED BY <1>3, <1>6, <1>7

-----------------------------------------------------------------------------
LEMMA ReportKept ==
  ASSUME MatrixTypes, MInv, ReportInv, [Next]_vars PROVE ReportInv'
<1>1. CASE Preparation \/ HandlerClose \/ CleanUp
  BY <1>1, SimpleStepsKeepReport
<1>2. CASE StartTask \/ ProviderRequest
  BY <1>2, StartKeepsReport, RequestKeepsReport
<1>3. CASE EpisodeWithoutProvider \/ EpisodeEnds \/ JudgeEpisode
  BY <1>3, EndKeepsReport, JudgeKeepsReport
<1>4. CASE SaveAttempt \/ RecordFailure
  BY <1>4, SaveKeepsReport, RecordFailureKeepsReport
<1>5. CASE WriteProgress \/ Publish
  BY <1>5, ProgressKeepsReport, PublishKeepsReport
<1>6. CASE CloseTemplate \/ RemoveInnerNetwork \/ RemoveSidecar \/ RemoveSocketVolume
  BY <1>6, CloseKeepsReport
<1>7. CASE Launch \/ Kill
  BY <1>7, FreshKeepsReport
<1>8. CASE UNCHANGED vars
  BY <1>8 DEF vars, ReportInv, Reporting, Handed, Evidenced, InHand, Removed, Provided,
    Unreported, ReportIsSound, CompletedMeansClean, MarkedTasksAreConsumed,
    CandidatesAreEvidenced, MarkerOf
<1>9. QED
  BY <1>1, <1>2, <1>3, <1>4, <1>5, <1>6, <1>7, <1>8 DEF Next, Preparation, CleanUp

LEMMA ReportInit == ASSUME Init PROVE ReportInv
<1>1. /\ pc \in Stopped /\ disk.report = NoReport
      /\ \A t \in Tasks : disk.trace[t] = "absent"
  BY DEF Init, Stopped
<1>2. ReportIsSound
  BY <1>1, NoReportIsSound
<1>3. pc # "provider"
  BY <1>1 DEF Stopped
<1>4. QED BY <1>1, <1>2, <1>3 DEF ReportInv, Reporting, Provided, Unreported

\* What the script hands over from statement to statement is always what the
\* disk and the host bear out: the invariant the three theorems rest on.
\* (collect, _execute_one, _exception_attempt, _final_report)
THEOREM ReportInvariance == Spec => []ReportInv
<1>1. MatrixTypes /\ MInv /\ ReportInv /\ [Next]_vars => ReportInv'
  BY ReportKept
<1>2. QED BY <1>1, ReportInit, MatrixAlways, PTL DEF Spec

\* A matrix reported as completed has an acceptable attempt for every task and
\* has left nothing behind on the host.
\* (collect from the end of its loop, _final_report)
THEOREM CompletedMatricesAreClean == Spec => []CompletedMeansClean
<1>1. ReportInv => CompletedMeansClean
  BY DEF ReportInv, ReportIsSound
<1>2. QED BY <1>1, ReportInvariance, PTL

\* No report leaves out, or takes for not started, a task whose trace shows
\* that the provider was or may have been called.
\* (_exception_attempt, record_failure, _final_report)
THEOREM MarkedTasksStayConsumed == Spec => []MarkedTasksAreConsumed
<1>1. ReportInv => MarkedTasksAreConsumed
  BY DEF ReportInv, ReportIsSound
<1>2. QED BY <1>1, ReportInvariance, PTL

\* Every reported candidate for SFT has its dataset, one provider episode with
\* a valid trace, and the sealed attempt that admitted it.
\* (_execute_one, _final_report)
THEOREM CandidatesHaveEvidence == Spec => []CandidatesAreEvidenced
<1>1. ReportInv => CandidatesAreEvidenced
  BY DEF ReportInv, ReportIsSound
<1>2. QED BY <1>1, ReportInvariance, PTL
=============================================================================
