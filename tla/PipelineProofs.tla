--------------------------- MODULE PipelineProofs ---------------------------
(***************************************************************************)
(* Proofs about Pipeline, and about Container as Pipeline uses it, for     *)
(* every value of the constants.                                           *)
(*                                                                         *)
(* Shape types the state and says which call of run each stage is at.      *)
(* Every other invariant is inductive relative to it: HonestExits for the  *)
(* exit codes, Orphans and CleanFirst for the containers, Built for the    *)
(* binaries, Rowed and Truthful for the rows.                              *)
(***************************************************************************)
EXTENDS Pipeline, WellFoundedInduction, TLAPS

\* A set of naturals that is not empty has a least element.
LEMMA LeastNatural ==
  ASSUME NEW S, S \subseteq Nat, S # {}
  PROVE  \E i \in S : \A j \in S : i <= j
<1> DEFINE Less == OpToRel(<, Nat)
<1>1. PICK i \in S : \A j \in S : <<j, i>> \notin Less
  <2> HIDE DEF Less
  <2>1. IsWellFoundedOn(Less, Nat)
    BY NatLessThanWellFounded DEF Less
  <2> QED
    BY <2>1, WFMin
<1>2. \A j \in S : j < i => <<j, i>> \in Less
  BY DEF OpToRel
<1>3. \A j \in S : ~(j < i)
  <2> HIDE DEF Less
  <2> QED
    BY <1>1, <1>2
<1>4. \A j \in S : i <= j
  <2> HIDE DEF Less
  <2> QED
    BY <1>3
<1> QED
  BY <1>4

------------------------------------------------------------------------------
(* The types of Container.                                                  *)

Containers == [state : {"absent", "created", "running", "exited"},
               code : Codes, oom : BOOLEAN]
Outcomes == [err : BOOLEAN, timedOut : BOOLEAN, code : Codes, oom : BOOLEAN]
Early == [pc : {"idle", "create", "returned"}, id : Ids \cup {NoId}, late : BOOLEAN]
Held == [pc : {"start", "post", "wait", "kill", "inspect", "remove"},
         id : Ids, late : BOOLEAN]

\* Before a container is created there is no id.
NoIdYet == run.pc \in {"idle", "create"} => run.id = NoId

LEMMA ContainerFacts ==
  /\ Absent \in Containers /\ Created \in Containers
  /\ \A c \in ExitCodes \cup {KillCode}, o \in BOOLEAN : Exited(c, o) \in Containers
  /\ \A c \in Containers : [c EXCEPT !.state = "running"] \in Containers
  /\ Failed \in Outcomes /\ TimedOut \in Outcomes
  /\ \A c \in Containers : Ended(c) \in Outcomes
  /\ Idle \in Early
  /\ [Idle EXCEPT !.pc = "create"] \in Early
  /\ Idle.pc = "idle" /\ Idle.id = NoId
<1> USE DEF Containers, Outcomes, Early, Codes
<1>1. Absent \in Containers /\ Created \in Containers
  BY DEF Absent, Created
<1>2. \A c \in ExitCodes \cup {KillCode}, o \in BOOLEAN : Exited(c, o) \in Containers
  BY DEF Exited
<1>3. \A c \in Containers : [c EXCEPT !.state = "running"] \in Containers
  OBVIOUS
<1>4. Failed \in Outcomes
  BY DEF Failed
<1>5. TimedOut \in Outcomes
  BY DEF Failed, TimedOut
<1>6. \A c \in Containers : Ended(c) \in Outcomes
  BY DEF Failed, Ended
<1>7. /\ Idle \in Early
      /\ [Idle EXCEPT !.pc = "create"] \in Early
      /\ Idle.pc = "idle" /\ Idle.id = NoId
  BY DEF Idle
<1> QED
  BY <1>1, <1>2, <1>3, <1>4, <1>5, <1>6, <1>7

LEMMA RunFacts ==
  ASSUME NEW r \in Early \cup Held
  PROVE  /\ \A i \in Ids : LET new == [r EXCEPT !.pc = "start", !.id = i]
                           IN  new \in Held /\ new.pc = "start" /\ new.id = i
         /\ \A pc \in {"post", "wait", "kill", "inspect", "remove", "returned"} :
              LET new == [r EXCEPT !.pc = pc]
              IN  /\ new.pc = pc /\ new.id = r.id /\ new.late = r.late
                  /\ r \in Held \/ pc = "returned" => new \in Early \cup Held
         /\ LET new == [r EXCEPT !.late = TRUE]
            IN  new \in Early \cup Held /\ new.pc = r.pc /\ new.id = r.id
         /\ r.pc \in {"start", "post", "wait", "kill", "inspect", "remove"} =>
              r \in Held /\ r.id \in Ids
         /\ r.id \in Ids \cup {NoId}
BY DEF Early, Held

ContainerTypes ==
  /\ flaws \in Flaws
  /\ server \in {"down", "cleaning", "serving"}
  /\ orphans \subseteq Ids /\ listed \subseteq Ids /\ refused \subseteq Ids
  /\ daemon \in [Ids -> Containers]
  /\ run \in Early \cup Held
  /\ jobLate \in BOOLEAN
  /\ out \in Outcomes
  /\ crashes \in 0..MaxCrashes

LEMMA TypeFacts ==
  /\ TypeOK <=> ContainerTypes
  /\ TypeOK' <=> ContainerTypes'
BY DEF TypeOK, ContainerTypes, Containers, Outcomes, Early, Held

\* What is written to the daemon are containers.
LEMMA DaemonTypes ==
  ASSUME daemon \in [Ids -> Containers]
  PROVE  /\ \A i \in Ids, c \in Containers : Set(i, c) => daemon' \in [Ids -> Containers]
         /\ \A i \in Ids : Running(i) => daemon' \in [Ids -> Containers]
         /\ CreatedOrNot => daemon' \in [Ids -> Containers]
         /\ run.id \in Ids /\ KillSent => daemon' \in [Ids -> Containers]
<1>1. \A i \in Ids, c \in Containers : Set(i, c) => daemon' \in [Ids -> Containers]
  BY DEF Set
<1>2. \A i \in Ids : Running(i) => daemon' \in [Ids -> Containers]
  BY DEF Running, Containers
<1>3. CreatedOrNot => daemon' \in [Ids -> Containers]
  BY <1>1, ContainerFacts DEF CreatedOrNot
<1>4. run.id \in Ids /\ KillSent => daemon' \in [Ids -> Containers]
  BY <1>1, ContainerFacts DEF KillSent
<1> QED
  BY <1>1, <1>2, <1>3, <1>4

LEMMA RunStepTypes ==
  ASSUME TypeOK, NoIdYet, RunStep
  PROVE  TypeOK' /\ NoIdYet' /\ run'.pc # "idle" /\ server' = server
<1>0. ContainerTypes
  BY TypeFacts
<1> SUFFICES ContainerTypes' /\ NoIdYet' /\ run'.pc # "idle" /\ server' = server
  BY TypeFacts
<1> USE <1>0 DEF ContainerTypes
<1>1. CASE Create
  <2>1. PICK i \in Ids : Set(i, Created) /\ run' = [run EXCEPT !.pc = "start", !.id = i]
    BY <1>1 DEF Create
  <2>2. run' \in Held /\ run'.pc = "start"
    BY <2>1 DEF Early, Held
  <2> QED
    BY <1>1, <2>1, <2>2, ContainerFacts, DaemonTypes DEF Create, NoIdYet, World, bootVars
<1>2. CASE CreateFails
  BY <1>2, ContainerFacts, RunFacts, DaemonTypes DEF CreateFails, Goto, NoIdYet, World, bootVars
<1>3. CASE Start
  BY <1>3, ContainerFacts, RunFacts, DaemonTypes DEF Start, Goto, NoIdYet, World, bootVars
<1>4. CASE StartFails
  <2>1. run \in Held /\ run.id \in Ids /\ Goto("remove")
    BY <1>4, RunFacts DEF StartFails
  <2>2. run' \in Early \cup Held /\ run'.pc = "remove"
    BY <2>1 DEF Goto, Early, Held
  <2>3. daemon' \in [Ids -> Containers] /\ out' \in Outcomes
    BY <1>4, <2>1, ContainerFacts, DaemonTypes DEF StartFails
  <2> QED
    BY <1>4, <2>2, <2>3 DEF StartFails, NoIdYet, World, bootVars
<1>5. CASE Post
  BY <1>5, ContainerFacts, RunFacts, DaemonTypes DEF Post, Goto, NoIdYet, World, bootVars
<1>6. CASE PostFails
  <2>1. run \in Held /\ (Goto("remove") \/ Goto("kill"))
    BY <1>6, RunFacts DEF PostFails
  <2>2. run' \in Early \cup Held /\ run'.pc \in {"remove", "kill"}
    BY <2>1 DEF Goto, Early, Held
  <2>3. out' \in Outcomes
    BY <1>6, ContainerFacts DEF PostFails
  <2> QED
    BY <1>6, <2>2, <2>3 DEF PostFails, NoIdYet, World, bootVars
<1>7. CASE WaitTimesOut
  BY <1>7, ContainerFacts, RunFacts, DaemonTypes DEF WaitTimesOut, Goto, NoIdYet, World, bootVars
<1>8. CASE WaitFails
  BY <1>8, ContainerFacts, RunFacts, DaemonTypes DEF WaitFails, Goto, NoIdYet, World, bootVars
<1>9. CASE WaitEnds
  BY <1>9, ContainerFacts, RunFacts, DaemonTypes DEF WaitEnds, Goto, NoIdYet, World, bootVars
<1>10. CASE Kill
  BY <1>10, ContainerFacts, RunFacts, DaemonTypes DEF Kill, Goto, NoIdYet, World, bootVars
<1>11. CASE Inspect
  <2>1. run' \in Early \cup Held /\ run'.pc = "remove"
    BY <1>11, ContainerFacts, RunFacts, DaemonTypes DEF Inspect, Goto
  <2>2. run.id \in Ids /\ daemon[run.id] \in Containers
    BY <1>11, RunFacts DEF Inspect
  <2>3. Ended(daemon[run.id]) \in Outcomes /\ Failed \in Outcomes
    BY <2>2, ContainerFacts
  <2>4. out' \in Outcomes
    BY <1>11, <2>3 DEF Inspect
  <2> QED
    BY <1>11, <2>1, <2>4 DEF Inspect, NoIdYet, World, bootVars
<1>12. CASE Remove
  <2>1. run \in Held /\ run.id \in Ids /\ Goto("returned")
    BY <1>12, RunFacts DEF Remove
  <2>2. run' \in Early \cup Held /\ run'.pc = "returned"
    BY <2>1, RunFacts DEF Goto
  <2>3. daemon' \in [Ids -> Containers]
    BY <1>12, <2>1, ContainerFacts, DaemonTypes DEF Remove, RemoveForced
  <2> QED
    BY <1>12, <2>2, <2>3 DEF Remove, NoIdYet, World, bootVars
<1> QED
  BY <1>1, <1>2, <1>3, <1>4, <1>5, <1>6, <1>7, <1>8, <1>9, <1>10, <1>11, <1>12,
     RunStep DEF RunStep

\* What happens around run keeps the types as well.
LEMMA WorldStepTypes ==
  ASSUME TypeOK, NoIdYet,
         RunDeadline \/ JobDeadline \/ Boot \/ RemoveOrphan \/ Serve \/ Crash
           \/ \E i \in Ids : Exits(i)
  PROVE  TypeOK' /\ NoIdYet'
<1>0. ContainerTypes
  BY TypeFacts
<1> SUFFICES ContainerTypes' /\ NoIdYet'
  BY TypeFacts
<1> USE <1>0 DEF ContainerTypes
<1>1. CASE RunDeadline
  BY <1>1, RunFacts DEF RunDeadline, NoIdYet, World, bootVars
<1>2. CASE JobDeadline
  BY <1>2 DEF JobDeadline, bootVars, NoIdYet
<1>3. CASE Boot
  BY <1>3, ContainerFacts DEF Boot, NoIdYet, Labelled
<1>6. CASE RemoveOrphan
  <2>1. daemon' \in [Ids -> Containers]
    BY <1>6, ContainerFacts, DaemonTypes DEF RemoveOrphan, RemoveForced
  <2>2. listed' \subseteq Ids /\ orphans' \subseteq Ids /\ refused' \subseteq Ids
    BY <1>6 DEF RemoveOrphan
  <2> QED
    BY <1>6, <2>1, <2>2 DEF RemoveOrphan, NoIdYet
<1>7. CASE Serve
  BY <1>7 DEF Serve, NoIdYet
<1>4. CASE Crash
  <2>1. daemon' \in [Ids -> Containers]
    <3>1. InFlight /\ (run.pc \in {"start", "kill", "remove"} => run.id \in Ids)
      BY <1>4, RunFacts DEF Crash
    <3> QED
      BY <3>1, ContainerFacts, DaemonTypes DEF InFlight, RemoveForced
  <2>2. crashes' \in 0..MaxCrashes
    BY <1>4, CrashesAssumption DEF Crash
  <2> QED
    BY <1>4, <2>1, <2>2, ContainerFacts DEF Crash, NoIdYet
<1>5. CASE \E i \in Ids : Exits(i)
  <2>1. PICK i \in Ids : Exits(i)
    BY <1>5
  <2>2. daemon' \in [Ids -> Containers]
    BY <2>1, ContainerFacts, DaemonTypes DEF Exits
  <2> QED
    BY <2>1, <2>2 DEF Exits, World, bootVars, NoIdYet
<1> QED
  BY <1>1, <1>2, <1>3, <1>4, <1>5, <1>6, <1>7

------------------------------------------------------------------------------
(* The types of Pipeline, and which call of run each stage is at.           *)

Stages == {"idle", "workspace", "configure", "build", "next", "case", "final"}

RunTypes ==
  /\ stage \in Stages
  /\ problem \in Problems
  /\ program \in Programs
  /\ build \in [Files -> Binary]
  /\ ran \in Binary
  /\ results \in Seq(Result) /\ Len(results) <= Len(problem.cases)
  /\ rows \in Seq(Result)
  /\ status \in Status
  /\ judgings \in 0..MaxJudgings

Shape ==
  /\ server # "serving" => stage = "idle"
  /\ stage \in {"idle", "workspace", "next", "final"} => run = Idle
  /\ stage \in {"configure", "build", "case"} => run.pc # "idle"
  /\ stage # "idle" => judgings >= 1
  /\ stage = "case" => Len(results) < Len(problem.cases)

TypeInv == TypeOK /\ NoIdYet /\ RunTypes /\ Shape

LEMMA TypeInvFacts == TypeInv => PipelineTypeOK
BY DEF TypeInv, PipelineTypeOK, RunTypes, Shape, Stages

LEMMA StatusFacts ==
  /\ Verdicts \subseteq Status /\ "RUNNING" \in Status /\ "PENDING" \in Status
  /\ {"IE", "SE", "CE"} \subseteq Verdicts
  /\ \A v \in {"SE", "CE"} : StageVerdict(v) \in {"IE", "SE", "CE"}
  /\ CaseStatus \in Verdicts
  /\ \A r : aggregate(r) \in Verdicts
BY DEF Status, Verdicts, Unfinished, StageVerdict, CaseStatus, classifyCase, aggregate

\* What cmake leaves in build/ are binaries.
LEMMA BuildTypes ==
  ASSUME build \in [Files -> Binary], problem \in Problems,
         judgings \in 1..MaxJudgings
  PROVE  /\ ConfigureLeaves => build' \in [Files -> Binary]
         /\ BuildsSome => build' \in [Files -> Binary]
         /\ BuildLeaves => build' \in [Files -> Binary]
<1>1. ConfigureLeaves => build' \in [Files -> Binary]
  BY DEF ConfigureLeaves, Binary
<1>2. ASSUME NEW done \in SUBSET DOMAIN problem.target, Builds(done)
      PROVE  build' \in [Files -> Binary]
  <2>1. \A f \in Files : (\E c \in done : problem.target[c] = f) =>
          (CHOOSE c \in done : problem.target[c] = f) \in Cases
    BY ProblemsAssumption DEF ProblemsAssumption
  <2> QED
    BY <1>2, <2>1 DEF Builds, Binary
<1> QED
  BY <1>1, <1>2 DEF BuildsSome, BuildLeaves

\* The case at hand is one, and its result fits behind the others.
LEMMA CaseFacts ==
  ASSUME RunTypes, Len(results) < Len(problem.cases)
  PROVE  /\ Case \in Cases
         /\ \A v \in Verdicts :
              LET new == Append(results, [case |-> Case, status |-> v])
              IN  /\ new \in Seq(Result) /\ Len(new) = Len(results) + 1
                  /\ Len(new) <= Len(problem.cases)
<1>1. problem.cases \in Seq(Cases) /\ results \in Seq(Result)
  BY ProblemsAssumption DEF ProblemsAssumption, RunTypes
<1>2. Case \in Cases
  BY <1>1 DEF Case
<1>3. \A v \in Verdicts : [case |-> Case, status |-> v] \in Result
  BY <1>2 DEF Result
<1> QED
  BY <1>1, <1>2, <1>3

\* The file the walk finds is one of those that match.
LEMMA FindFacts ==
  ASSUME NEW c \in Cases, Matches(c) # {}
  PROVE  /\ findCaseBinary(c) \in Files
         /\ <<findCaseBinary(c), c>> \in EndsWith
         /\ build[findCaseBinary(c)] # NoBinary
<1>1. Matches(c) \subseteq DOMAIN FileOrder /\ DOMAIN FileOrder \subseteq Nat
  BY FilesAssumption DEF FilesAssumption, Matches
<1>2. \E i \in Matches(c) : \A j \in Matches(c) : i <= j
  BY <1>1, LeastNatural
<1>3. PICK i \in Matches(c) : findCaseBinary(c) = FileOrder[i]
  BY <1>2 DEF findCaseBinary
<1>4. FileOrder[i] \in Files
  BY <1>1, FilesAssumption DEF FilesAssumption
<1> QED
  BY <1>3, <1>4 DEF Matches

\* Each way a step of Run uses run: it leaves it alone, it takes up a result
\* and goes on, or it calls run for the next stage.
LEMMA CallTypes ==
  ASSUME TypeOK, NoIdYet
  PROVE  /\ UNCHANGED vars => TypeOK' /\ NoIdYet' /\ UNCHANGED <<server, run>>
         /\ Returned => TypeOK' /\ NoIdYet' /\ run' = Idle /\ server' = server
         /\ \A s \in Stages : CallFor(s) =>
              /\ TypeOK' /\ NoIdYet' /\ server' = server /\ stage' = s
              /\ run'.pc = "create"
<1>0. ContainerTypes
  BY TypeFacts
<1>1. UNCHANGED vars => ContainerTypes' /\ NoIdYet' /\ UNCHANGED <<server, run>>
  BY <1>0 DEF vars, bootVars, ContainerTypes, NoIdYet
<1>2. Returned => ContainerTypes' /\ NoIdYet' /\ run' = Idle /\ server' = server
  BY <1>0, ContainerFacts DEF Returned, Docker, bootVars, ContainerTypes, NoIdYet
<1>3. /\ [Idle EXCEPT !.pc = "create"].pc = "create"
      /\ [Idle EXCEPT !.pc = "create"].id = NoId
  BY DEF Idle
<1>4. ASSUME NEW s \in Stages, CallFor(s)
      PROVE  /\ ContainerTypes' /\ NoIdYet' /\ server' = server /\ stage' = s
             /\ run'.pc = "create"
  BY <1>0, <1>3, <1>4, ContainerFacts DEF CallFor, Call, Docker, bootVars, ContainerTypes, NoIdYet
<1> QED
  BY <1>1, <1>2, <1>4, TypeFacts

\* Typing, one action of Run at a time.
LEMMA PipelineStepTypes ==
  ASSUME TypeInv, PipelineStep
  PROVE  TypeInv'
<1> USE DEF TypeInv, RunTypes, Shape, Stages
<1>1. CASE WorkspaceFails
  BY <1>1, CallTypes, StatusFacts DEF WorkspaceFails, PipelineFail
<1>2. CASE Configure
  BY <1>2, CallTypes DEF Configure
<1>3. CASE ConfigureFails
  BY <1>3, CallTypes, StatusFacts, BuildTypes DEF ConfigureFails, PipelineFail
<1>4. CASE Build
  BY <1>4, CallTypes, BuildTypes DEF Build
<1>5. CASE BuildFails
  BY <1>5, CallTypes, StatusFacts, BuildTypes DEF BuildFails, PipelineFail
<1>6. CASE NoCases
  BY <1>6, CallTypes, StatusFacts, BuildTypes DEF NoCases, PipelineFail
<1>7. CASE BuildPasses
  BY <1>7, CallTypes, BuildTypes DEF BuildPasses
<1>8. CASE BinaryMissing
  BY <1>8, CallTypes, CaseFacts, StatusFacts DEF BinaryMissing, MoreCases, AddResult
<1>9. CASE CopyFails
  BY <1>9, CallTypes, CaseFacts, StatusFacts DEF CopyFails, MoreCases, AddResult
<1>10. CASE RunCase
  BY <1>10, CallTypes, CaseFacts, FindFacts DEF RunCase, MoreCases
<1>11. CASE CaseReturns
  BY <1>11, CallTypes, CaseFacts, StatusFacts DEF CaseReturns, AddResult
<1>12. CASE StoreRows
  BY <1>12, CallTypes DEF StoreRows
<1>13. CASE Finish
  BY <1>13, CallTypes, StatusFacts DEF Finish, PipelineFail
<1> QED
  BY <1>1, <1>2, <1>3, <1>4, <1>5, <1>6, <1>7, <1>8, <1>9, <1>10, <1>11, <1>12,
     <1>13, PipelineStep DEF PipelineStep

LEMMA ProcessTypes ==
  ASSUME TypeInv, Process
  PROVE  TypeInv'
<1>1. ContainerTypes' /\ NoIdYet' /\ UNCHANGED <<server, run>>
  BY TypeFacts DEF Process, bootVars, TypeInv, ContainerTypes, NoIdYet
<1>2. RunTypes'
  <2>1. Len(<<>>) <= Len(problem'.cases) /\ <<>> \in Seq(Result)
    BY ProblemsAssumption DEF Process
  <2>2. judgings' \in 0..MaxJudgings
    BY DiskAssumption DEF Process, TypeInv, RunTypes
  <2> QED
    BY <2>1, <2>2, StatusFacts DEF Process, TypeInv, RunTypes, Stages
<1>3. Shape'
  BY <1>1 DEF Process, TypeInv, Shape, RunTypes
<1> QED
  BY <1>1, <1>2, <1>3, TypeFacts DEF TypeInv

LEMMA ContainerStepTypes ==
  ASSUME TypeInv, ContainerStep
  PROVE  TypeInv'
<1>1. RunTypes'
  BY DEF ContainerStep, TypeInv, RunTypes, run_vars
<1>2. TypeOK' /\ NoIdYet'
  BY RunStepTypes, WorldStepTypes DEF ContainerStep, ProgramExits, TypeInv
<1>3. Shape'
  <2> USE DEF TypeInv, Shape, RunTypes, Stages, run_vars
  <2>1. CASE RunStep
    <3>1. run.pc # "idle"
      BY <2>1 DEF RunStep, Create, CreateFails, Start, StartFails, Post, PostFails,
                  WaitTimesOut, WaitFails, WaitEnds, Kill, Inspect, Remove
    <3>2. stage \in {"configure", "build", "case"}
      BY <3>1, ContainerFacts
    <3> QED
      BY <2>1, <3>2, RunStepTypes DEF ContainerStep
  <2>2. CASE RunDeadline
    <3>1. stage \in {"configure", "build", "case"} /\ run'.pc = run.pc
      BY <2>2, ContainerFacts, TypeFacts, RunFacts DEF RunDeadline, ContainerTypes
    <3> QED
      BY <2>2, <3>1 DEF ContainerStep, RunDeadline, World, bootVars
  <2>3. CASE JobDeadline
    BY <2>3 DEF ContainerStep, JobDeadline, bootVars
  <2>4. CASE Boot \/ RemoveOrphan \/ Serve
    BY <2>4 DEF ContainerStep, Boot, RemoveOrphan, Serve
  <2>5. CASE \E i \in Ids : ProgramExits(i)
    BY <2>5 DEF ContainerStep, ProgramExits, Exits, World, bootVars
  <2> QED
    BY <2>1, <2>2, <2>3, <2>4, <2>5 DEF ContainerStep
<1> QED
  BY <1>1, <1>2, <1>3 DEF TypeInv

LEMMA DiesTypes ==
  ASSUME TypeInv, Dies
  PROVE  TypeInv'
<1>1. TypeOK' /\ NoIdYet'
  BY WorldStepTypes DEF Dies, TypeInv
<1>2. build' \in [Files -> Binary]
  BY BuildTypes DEF Dies, TypeInv, RunTypes, Shape
<1>3. Len(<<>>) <= Len(problem.cases) /\ <<>> \in Seq(Result)
  BY ProblemsAssumption DEF TypeInv, RunTypes
<1>4. RunTypes'
  BY <1>2, <1>3 DEF Dies, TypeInv, RunTypes, Stages
<1>5. Shape'
  BY DEF Dies, Crash, Shape
<1> QED
  BY <1>1, <1>4, <1>5 DEF TypeInv

LEMMA TypesInductive ==
  /\ PipelineInit => TypeInv
  /\ TypeInv /\ [PipelineNext]_all_vars => TypeInv'
<1>1. ASSUME PipelineInit
      PROVE  TypeInv
  <2> USE <1>1 DEF PipelineInit, Init
  <2>1. ContainerTypes /\ NoIdYet
    <3>1. crashes \in 0..MaxCrashes
      BY CrashesAssumption
    <3>2. daemon \in [Ids -> Containers] /\ run \in Early \cup Held /\ out \in Outcomes
      BY ContainerFacts
    <3> QED
      BY <3>1, <3>2, ContainerFacts DEF ContainerTypes, NoIdYet
  <2>2. RunTypes
    <3>1. Len(<<>>) <= Len(problem.cases) /\ <<>> \in Seq(Result)
      BY ProblemsAssumption
    <3> QED
      BY <3>1, StatusFacts, DiskAssumption DEF RunTypes, Stages, Binary
  <2> QED
    BY <2>1, <2>2, TypeFacts DEF TypeInv, Shape
<1>2. ASSUME TypeInv, UNCHANGED all_vars
      PROVE  TypeInv'
  BY <1>2, CallTypes DEF TypeInv, RunTypes, Shape, all_vars, run_vars
<1> QED
  BY <1>1, <1>2, PipelineStepTypes, ProcessTypes, ContainerStepTypes, DiesTypes
  DEF PipelineNext

\* Type correctness of the pipeline with the containers it runs: a call of run
\* that has a container to start, await, kill, inspect or remove knows its id, a
\* stage that calls run is at a call, and no judging has more results than its
\* problem has cases.
THEOREM PipelineTypeCorrect == PipelineSpec => []PipelineTypeOK
<1>1. PipelineSpec => []TypeInv
  BY TypesInductive, PTL DEF PipelineSpec
<1> QED
  BY <1>1, TypeInvFacts, PTL

------------------------------------------------------------------------------
(* Containers that are left over.                                           *)

\* If the daemon does what it is asked, a container that is not of the current
\* call has never been started, and the current call has removed its own
\* before it returns. While the server boots, what is not listed is gone.
Orphans ==
  ~Fails /\ ~Hangs =>
    /\ server = "serving" =>
         \A i \in Ids : i # run.id => daemon[i] \in {Absent, Created}
    /\ server = "cleaning" => \A i \in Ids \ listed : daemon[i] = Absent
    /\ run.pc = "returned" /\ run.id \in Ids => daemon[run.id] = Absent

LEMMA StateFacts ==
  /\ Absent.state = "absent" /\ Created.state = "created"
  /\ \A c \in ExitCodes \cup {KillCode}, o \in BOOLEAN :
       /\ Exited(c, o).state = "exited"
       /\ Exited(c, o).code = c /\ Exited(c, o).oom = o
BY DEF Absent, Created, Exited

LEMMA GotoFacts ==
  ASSUME TypeOK
  PROVE  /\ \A pc \in {"post", "wait", "kill", "inspect", "remove", "returned"} :
              Goto(pc) => run'.pc = pc /\ run'.id = run.id
         /\ RunDeadline => run'.pc = run.pc /\ run'.id = run.id
<1>1. run \in Early \cup Held
  BY TypeFacts DEF ContainerTypes
<1>2. ASSUME NEW pc \in {"post", "wait", "kill", "inspect", "remove", "returned"},
             Goto(pc)
      PROVE  run'.pc = pc /\ run'.id = run.id
  BY <1>1, <1>2 DEF Goto, Early, Held
<1>3. RunDeadline => run'.pc = run.pc /\ run'.id = run.id
  BY <1>1 DEF RunDeadline, Early, Held
<1> QED
  BY <1>2, <1>3

LEMMA OrphansRunStep ==
  ASSUME TypeOK, NoIdYet, Orphans, RunStep, server # "serving" => run = Idle
  PROVE  Orphans'
<1>0. ContainerTypes
  BY TypeFacts
<1>8. server = "serving" /\ UNCHANGED <<server, flaws>>
  BY ContainerFacts
  DEF RunStep, Create, CreateFails, Start, StartFails, Post, PostFails, WaitTimesOut,
      WaitFails, WaitEnds, Kill, Inspect, Remove, World, bootVars
<1>1. run' \in Early \cup Held /\ server' = server
  BY RunStepTypes, TypeFacts DEF ContainerTypes
<1> USE <1>0, <1>8, IdsAssumption DEF ContainerTypes, Orphans, Fails, Hangs
<1>2. CASE Create
  <2>1. PICK i \in Ids : Set(i, Created) /\ run' = [run EXCEPT !.pc = "start", !.id = i]
    BY <1>2 DEF Create
  <2>2. run'.pc = "start" /\ run'.id = i /\ run.id = NoId
    BY <1>2, <2>1 DEF Create, NoIdYet, Early, Held
  <2> QED
    BY <1>2, <2>1, <2>2 DEF Create, Set
<1>3. CASE CreateFails
  <2>1. run'.id = NoId /\ run.id = NoId
    BY <1>3, RunFacts DEF CreateFails, Goto, NoIdYet
  <2> QED
    BY <1>3, <2>1 DEF CreateFails, CreatedOrNot, Set
<1>4. CASE Start \/ StartFails
  <2>1. run'.id = run.id /\ run'.pc # "returned"
    BY <1>4, GotoFacts DEF Start, StartFails
  <2> QED
    BY <1>4, <2>1 DEF Start, StartFails, Running
<1>5. CASE Post \/ PostFails \/ WaitTimesOut \/ WaitFails \/ WaitEnds \/ Inspect
  <2>1. run'.id = run.id /\ run'.pc # "returned"
    BY <1>5, GotoFacts DEF Post, PostFails, WaitTimesOut, WaitFails, WaitEnds, Inspect
  <2> QED
    BY <1>5, <2>1 DEF Post, PostFails, WaitTimesOut, WaitFails, WaitEnds, Inspect
<1>6. CASE Kill
  <2>1. run'.id = run.id /\ run'.pc # "returned" /\ run.id \in Ids
    BY <1>6, RunFacts DEF Kill, Goto
  <2> QED
    BY <1>6, <2>1 DEF Kill, KillSent, Set
<1>7. CASE Remove
  <2>1. run'.id = run.id /\ run.id \in Ids
    BY <1>7, RunFacts DEF Remove, Goto
  <2> QED
    BY <1>7, <2>1 DEF Remove, RemoveForced, Set
<1> QED
  BY <1>2, <1>3, <1>4, <1>5, <1>6, <1>7, RunStep DEF RunStep

LEMMA OrphansWorldStep ==
  ASSUME TypeOK, NoIdYet, Orphans,
         server # "serving" => run = Idle,
         RunDeadline \/ JobDeadline \/ Boot \/ RemoveOrphan \/ Serve \/ Crash
           \/ \E i \in Ids : Exits(i)
  PROVE  Orphans'
<1>0. ContainerTypes
  BY TypeFacts
<1> USE <1>0 DEF ContainerTypes, Orphans, World, bootVars, Fails, Hangs
<1>1. CASE RunDeadline
  <2>1. run'.id = run.id /\ run'.pc = run.pc
    BY <1>1, GotoFacts
  <2> QED
    BY <1>1, <2>1 DEF RunDeadline
<1>2. CASE JobDeadline
  BY <1>2 DEF JobDeadline
<1>3. CASE Boot
  BY <1>3, ContainerFacts DEF Boot, Labelled
<1>6. CASE RemoveOrphan
  BY <1>6, ContainerFacts DEF RemoveOrphan, RemoveForced, Set
<1>7. CASE Serve
  BY <1>7, ContainerFacts DEF Serve
<1>4. CASE Crash
  BY <1>4, ContainerFacts DEF Crash
<1>5. CASE \E i \in Ids : Exits(i)
  <2>1. PICK i \in Ids : Exits(i)
    BY <1>5
  <2>2. daemon[i] \notin {Absent, Created} /\ UNCHANGED <<flaws, server, listed, run>>
    BY <2>1, StateFacts DEF Exits
  <2>3. \A j \in Ids : j # i => daemon'[j] = daemon[j]
    BY <2>1 DEF Exits, Set
  <2> QED
    BY <2>2, <2>3
<1> QED
  BY <1>1, <1>2, <1>3, <1>4, <1>5, <1>6, <1>7

LEMMA OrphansInductive ==
  /\ PipelineInit => Orphans
  /\ TypeInv /\ Orphans /\ [PipelineNext]_all_vars => Orphans'
<1>1. PipelineInit => Orphans
  BY ContainerFacts DEF PipelineInit, Init, Orphans
<1> SUFFICES ASSUME TypeInv, Orphans, [PipelineNext]_all_vars
             PROVE  Orphans'
  BY <1>1
<1> USE DEF TypeInv
<1>2. CASE UNCHANGED vars
  BY <1>2 DEF vars, bootVars, Orphans, Fails, Hangs
<1>3. CASE Returned
  BY <1>3, ContainerFacts, IdsAssumption DEF Returned, Docker, bootVars, Orphans, Fails, Hangs
<1>4. CASE UNCHANGED Docker /\ run'.pc = "create" /\ run'.id = NoId /\ run.pc \in {"idle", "returned"}
  <2>1. run.pc = "idle" => run.id = NoId
    BY DEF NoIdYet
  <2> QED
    BY <1>4, <2>1, IdsAssumption DEF Docker, bootVars, Orphans, Fails, Hangs
<1>5. CASE PipelineStep
  <2>1. [Idle EXCEPT !.pc = "create"].pc = "create" /\ [Idle EXCEPT !.pc = "create"].id = NoId
    BY DEF Idle
  <2>2. CASE Configure \/ RunCase
    <3>1. run.pc = "idle"
      BY <2>2, ContainerFacts DEF Configure, RunCase, MoreCases, Shape
    <3> QED
      BY <1>4, <2>1, <2>2, <3>1 DEF Configure, RunCase, CallFor, Call
  <2>3. CASE Build
    BY <1>4, <2>1, <2>3 DEF Build, CallFor, Call
  <2> QED
    BY <1>2, <1>3, <1>5, <2>2, <2>3
    DEF PipelineStep, WorkspaceFails, ConfigureFails, BuildFails, NoCases,
        BuildPasses, BinaryMissing, CopyFails, CaseReturns, StoreRows, Finish
<1>6. CASE Process
  BY <1>6 DEF Process, bootVars, Orphans, Fails, Hangs
<1>7. CASE ContainerStep \/ Dies
  BY <1>7, OrphansRunStep, OrphansWorldStep DEF ContainerStep, ProgramExits, Dies, Shape
<1> QED
  BY <1>2, <1>5, <1>6, <1>7 DEF PipelineNext, all_vars

\* With a daemon that does what it is asked, no program of an earlier call or
\* of a process before this one runs beside the current judging, whatever way
\* run was left and wherever the server died (docker.go:54-55, 167-172).
THEOREM NoOrphans == PipelineSpec => []NoOrphanRuns
<1>1. Orphans => NoOrphanRuns
  BY DEF Orphans, NoOrphanRuns, LeftOver
<1>2. PipelineSpec => [](TypeInv /\ Orphans)
  BY TypesInductive, OrphansInductive, PTL DEF PipelineSpec
<1> QED
  BY <1>1, <1>2, PTL

\* What a boot has still to do: every container of a process that died is one
\* the boot was refused or, before the jobs, one it has listed or will list.
CleanFirst ==
  /\ server = "down" => orphans \subseteq Labelled
  /\ server = "cleaning" => orphans \subseteq listed \cup refused
  /\ server = "serving" => orphans \subseteq refused

LEMMA CleanFirstInductive ==
  /\ PipelineInit => CleanFirst
  /\ TypeInv /\ CleanFirst /\ [PipelineNext]_all_vars => CleanFirst'
<1>1. PipelineInit => CleanFirst
  BY DEF PipelineInit, Init, CleanFirst
<1> SUFFICES ASSUME TypeInv, CleanFirst, [PipelineNext]_all_vars
             PROVE  CleanFirst'
  BY <1>1
<1>2. CASE UNCHANGED bootVars /\ server = "serving"
  BY <1>2 DEF bootVars, CleanFirst
<1>3. CASE UNCHANGED vars
  BY <1>3 DEF vars, bootVars, CleanFirst, Labelled
<1>4. ASSUME stage # "idle"
      PROVE  server = "serving"
  BY <1>4 DEF TypeInv, Shape
<1>5. CASE PipelineStep
  <2>1. stage # "idle"
    BY <1>5
    DEF PipelineStep, WorkspaceFails, Configure, ConfigureFails, Build, BuildFails,
        NoCases, BuildPasses, BinaryMissing, CopyFails, MoreCases, RunCase,
        CaseReturns, StoreRows, Finish
  <2>2. UNCHANGED bootVars
    BY <1>5
    DEF PipelineStep, WorkspaceFails, Configure, ConfigureFails, Build, BuildFails,
        NoCases, BuildPasses, BinaryMissing, CopyFails, RunCase, CaseReturns,
        StoreRows, Finish, CallFor, Returned, Docker, vars, bootVars
  <2> QED
    BY <1>2, <1>4, <2>1, <2>2
<1>6. CASE Process
  BY <1>2, <1>6 DEF Process
<1>7. CASE Dies
  BY <1>7 DEF Dies, Crash, CleanFirst, Labelled
<1>8. CASE ContainerStep
  <2>1. CASE RunStep \/ RunDeadline \/ JobDeadline
    <3>1. run.pc # "idle"
      BY <2>1, ContainerFacts
      DEF RunStep, Create, CreateFails, Start, StartFails, Post, PostFails,
          WaitTimesOut, WaitFails, WaitEnds, Kill, Inspect, Remove, RunDeadline,
          JobDeadline
    <3>2. server = "serving"
      BY <1>4, <3>1, ContainerFacts DEF TypeInv, Shape
    <3>3. UNCHANGED bootVars
      BY <2>1
      DEF RunStep, Create, CreateFails, Start, StartFails, Post, PostFails,
          WaitTimesOut, WaitFails, WaitEnds, Kill, Inspect, Remove, RunDeadline,
          JobDeadline, World
    <3> QED
      BY <1>2, <3>2, <3>3
  <2>2. CASE Boot
    BY <2>2 DEF Boot, CleanFirst, Labelled
  <2>3. CASE RemoveOrphan
    BY <2>3 DEF RemoveOrphan, CleanFirst
  <2>4. CASE Serve
    BY <2>4 DEF Serve, CleanFirst
  <2>5. CASE \E i \in Ids : ProgramExits(i)
    <3>1. PICK i \in Ids : Exits(i)
      BY <2>5 DEF ProgramExits
    <3>2. UNCHANGED bootVars /\ daemon[i] # Absent
      BY <3>1, StateFacts DEF Exits, World
    <3>3. PICK c \in ExitCodes \cup {KillCode}, o \in BOOLEAN : Set(i, Exited(c, o))
      BY <3>1 DEF Exits
    <3>6. daemon \in [Ids -> Containers]
      BY TypeFacts DEF TypeInv, ContainerTypes
    <3>4. \A j \in Ids : daemon'[j] # Absent <=> daemon[j] # Absent
      BY <3>2, <3>3, <3>6, StateFacts DEF Set
    <3>5. Labelled' = Labelled
      BY <3>4 DEF Labelled
    <3> QED
      BY <3>2, <3>5 DEF bootVars, CleanFirst
  <2> QED
    BY <1>8, <2>1, <2>2, <2>3, <2>4, <2>5 DEF ContainerStep
<1> QED
  BY <1>3, <1>5, <1>6, <1>7, <1>8 DEF PipelineNext, all_vars

\* Wherever a process died, in a judging or in a boot, a judging of a later one
\* runs beside a container of it only if the daemon refused to list or remove
\* that container (docker.go:54-71, engine.go:58-82).
THEOREM CleanupComesFirst == PipelineSpec => []OrphansGoFirst
<1>1. PipelineSpec => [](TypeInv /\ CleanFirst)
  BY TypesInductive, CleanFirstInductive, PTL DEF PipelineSpec
<1>2. TypeInv /\ CleanFirst => OrphansGoFirst
  BY DEF TypeInv, Shape, CleanFirst, OrphansGoFirst
<1> QED
  BY <1>1, <1>2, PTL

------------------------------------------------------------------------------
(* Exit codes.                                                              *)

\* What the container of the current call has ended with is an end of the
\* program in it, for a case one of the ends its binary has.
Earned(c) ==
  /\ c.code \in ExitCodes \/ c.oom
  /\ stage = "case" =>
       /\ program[ran.case] # {}
       /\ c.oom \/ c.code \in program[ran.case]

HonestExits ==
  /\ run.pc = "start" => daemon[run.id] = Created
  /\ run.pc \in {"post", "wait"} => daemon[run.id].state \in {"running", "exited"}
  /\ run.pc = "inspect" => daemon[run.id].state = "exited"
  /\ run.pc \in {"post", "wait", "inspect"} /\ daemon[run.id].state = "exited" =>
       Earned(daemon[run.id])
  /\ run.pc \in {"remove", "returned"} /\ ~out.err /\ ~out.timedOut => Earned(out)

LEMMA OutFacts ==
  /\ Failed.err /\ TimedOut.timedOut
  /\ \A c : /\ ~Ended(c).err /\ ~Ended(c).timedOut
            /\ Ended(c).code = c.code /\ Ended(c).oom = c.oom
BY DEF Failed, TimedOut, Ended

LEMMA HonestRunStep ==
  ASSUME TypeOK, NoIdYet, HonestExits, RunStep, UNCHANGED run_vars
  PROVE  HonestExits'
<1>0. ContainerTypes
  BY TypeFacts
<1> USE <1>0 DEF ContainerTypes, HonestExits, run_vars, Earned
<1>1. CASE Create
  <2>1. PICK i \in Ids : Set(i, Created) /\ run' = [run EXCEPT !.pc = "start", !.id = i]
    BY <1>1 DEF Create
  <2>2. run'.pc = "start" /\ run'.id = i
    BY <2>1 DEF Early, Held
  <2> QED
    BY <2>1, <2>2 DEF Set
<1>2. CASE CreateFails \/ StartFails \/ WaitFails
  <2>1. run'.pc \in {"remove", "returned"}
    BY <1>2, GotoFacts DEF CreateFails, StartFails, WaitFails
  <2>2. out'.err
    BY <1>2, OutFacts DEF CreateFails, StartFails, WaitFails
  <2> QED
    BY <2>1, <2>2
<1>3. CASE Start
  <2>1. run'.pc = "post" /\ run'.id = run.id /\ run.id \in Ids
    BY <1>3, GotoFacts, RunFacts DEF Start
  <2>2. daemon'[run.id].state = "running"
    BY <1>3, <2>1 DEF Start, Running, Containers
  <2> QED
    BY <2>1, <2>2
<1>4. CASE Post \/ WaitEnds
  <2>1. run'.pc \in {"wait", "inspect"} /\ run'.id = run.id
    BY <1>4, GotoFacts DEF Post, WaitEnds
  <2>2. UNCHANGED daemon /\ (run'.pc = "inspect" => daemon[run.id].state = "exited")
    BY <1>4, GotoFacts DEF Post, WaitEnds
  <2>3. run.pc \in {"post", "wait"}
    BY <1>4 DEF Post, WaitEnds
  <2> QED
    BY <2>1, <2>2, <2>3
<1>5. CASE PostFails \/ WaitTimesOut
  <2>1. run'.pc = "kill" \/ (run'.pc = "remove" /\ out'.err)
    BY <1>5, GotoFacts, OutFacts DEF PostFails, WaitTimesOut
  <2> QED
    BY <2>1
<1>6. CASE Kill
  <2>1. run'.pc = "remove" /\ out'.timedOut
    BY <1>6, GotoFacts, OutFacts DEF Kill
  <2> QED
    BY <2>1
<1>7. CASE Inspect
  <2>1. run'.pc = "remove" /\ (out' = Ended(daemon[run.id]) \/ out'.err)
    BY <1>7, GotoFacts, OutFacts DEF Inspect
  <2>2. daemon[run.id].state = "exited" /\ Earned(daemon[run.id])
    BY <1>7 DEF Inspect
  <2> QED
    BY <2>1, <2>2, OutFacts
<1>8. CASE Remove
  <2>1. run'.pc = "returned" /\ run.pc = "remove" /\ out' = out
    BY <1>8, GotoFacts DEF Remove
  <2> QED
    BY <2>1
<1> QED
  BY <1>1, <1>2, <1>3, <1>4, <1>5, <1>6, <1>7, <1>8, RunStep DEF RunStep

LEMMA HonestProgramExits ==
  ASSUME TypeOK, NoIdYet, HonestExits, UNCHANGED run_vars,
         NEW i \in Ids, ProgramExits(i)
  PROVE  HonestExits'
<1>0. ContainerTypes
  BY TypeFacts
<1>1. daemon[i].state = "running" /\ UNCHANGED <<run, out>>
  BY DEF ProgramExits, Exits, World, bootVars
<1>2. PICK c \in ExitCodes \cup {KillCode}, o \in BOOLEAN :
        Set(i, Exited(c, o)) /\ (c \in ExitCodes \/ o)
  BY DEF ProgramExits, Exits
<1>3. daemon' = [daemon EXCEPT ![i] = Exited(c, o)]
  BY <1>2 DEF Set
<1>4. CASE i # run.id
  <2>1. daemon'[run.id] = daemon[run.id]
    BY <1>3, <1>4
  <2> QED
    BY <1>1, <2>1 DEF HonestExits, run_vars, Earned
<1>5. CASE i = run.id
  <2>1. /\ daemon'[run.id].state = "exited"
        /\ daemon'[run.id].code = c /\ daemon'[run.id].oom = o
    BY <1>0, <1>3, <1>5, StateFacts DEF ContainerTypes
  <2>2. stage = "case" => /\ program[ran.case] # {}
                          /\ o \/ c \in program[ran.case]
    BY <1>2, <1>5, <2>1, ExitCodesAssumption DEF ProgramExits, KillCode
  <2>3. Earned(daemon[run.id])'
    BY <1>1, <1>2, <2>1, <2>2 DEF Earned, run_vars
  <2>4. run.pc # "start"
    BY <1>1, <1>5, StateFacts DEF HonestExits
  <2> QED
    BY <1>1, <2>1, <2>3, <2>4 DEF HonestExits, run_vars, Earned
<1> QED
  BY <1>4, <1>5

\* Between two calls, and where the next one is made, run has no container.
LEMMA PipelineStepCalls ==
  ASSUME TypeInv, PipelineStep
  PROVE  run'.pc \in {"idle", "create"}
<1>1. UNCHANGED vars /\ stage \in {"workspace", "next", "final"} => run'.pc = "idle"
  BY ContainerFacts DEF TypeInv, Shape, vars, bootVars
<1>2. Returned => run'.pc = "idle"
  BY ContainerFacts DEF Returned
<1>3. \A s \in Stages : CallFor(s) => run'.pc = "create"
  BY CallTypes DEF TypeInv
<1> QED
  BY <1>1, <1>2, <1>3, PipelineStep
  DEF PipelineStep, WorkspaceFails, Configure, ConfigureFails, Build, BuildFails,
      NoCases, BuildPasses, BinaryMissing, CopyFails, MoreCases, RunCase,
      CaseReturns, StoreRows, Finish, Stages

LEMMA HonestInductive ==
  /\ PipelineInit => HonestExits
  /\ TypeInv /\ HonestExits /\ [PipelineNext]_all_vars => HonestExits'
<1>1. PipelineInit => HonestExits
  BY ContainerFacts DEF PipelineInit, Init, HonestExits
<1> SUFFICES ASSUME TypeInv, HonestExits, [PipelineNext]_all_vars
             PROVE  HonestExits'
  BY <1>1
<1>2. CASE run'.pc \in {"idle", "create"}
  BY <1>2 DEF HonestExits
<1>3. CASE PipelineStep
  BY <1>2, <1>3, PipelineStepCalls
<1>4. CASE Process \/ Dies
  <2>1. run' = Idle
    BY <1>4 DEF Process, Dies, Crash, TypeInv, Shape
  <2> QED
    BY <1>2, <2>1, ContainerFacts
<1>5. CASE UNCHANGED all_vars
  BY <1>5 DEF all_vars, vars, bootVars, run_vars, HonestExits, Earned
<1>6. CASE ContainerStep
  <2>1. CASE RunStep
    BY <1>6, <2>1, HonestRunStep DEF ContainerStep, TypeInv
  <2>2. CASE RunDeadline
    <3>1. run'.pc = run.pc /\ run'.id = run.id /\ UNCHANGED <<daemon, out, run_vars>>
      BY <1>6, <2>2, GotoFacts DEF ContainerStep, RunDeadline, TypeInv
    <3> QED
      BY <3>1 DEF HonestExits, Earned, run_vars
  <2>3. CASE JobDeadline
    BY <1>6, <2>3 DEF ContainerStep, JobDeadline, HonestExits, Earned, run_vars
  <2>4. CASE Boot \/ RemoveOrphan \/ Serve
    <3>1. run' = Idle
      BY <2>4 DEF Boot, RemoveOrphan, Serve, TypeInv, Shape
    <3> QED
      BY <1>2, <3>1, ContainerFacts
  <2>5. CASE \E i \in Ids : ProgramExits(i)
    BY <1>6, <2>5, HonestProgramExits DEF ContainerStep, TypeInv
  <2> QED
    BY <1>6, <2>1, <2>2, <2>3, <2>4, <2>5 DEF ContainerStep
<1> QED
  BY <1>3, <1>4, <1>5, <1>6 DEF PipelineNext

\* run reports the exit code of a program that ended by itself or for its
\* memory, never that of its own kill, whatever requests fail, whichever
\* branch the select takes and wherever the server dies (docker.go:186-209).
THEOREM ExitCodesHonest == PipelineSpec => []ExitIsTheProgrammes
<1>1. HonestExits => ExitIsTheProgrammes
  BY DEF HonestExits, ExitIsTheProgrammes, Earned
<1>2. PipelineSpec => [](TypeInv /\ HonestExits)
  BY TypesInductive, HonestInductive, PTL DEF PipelineSpec
<1> QED
  BY <1>1, <1>2, PTL

------------------------------------------------------------------------------
(* The binary of a case.                                                    *)

\* Once the build has passed, what lies in build/ under the name of a target is
\* a target's of this name and of this judging.
FreshTarget(f) ==
  build[f].judging = judgings /\ problem.target[build[f].case] = f
    /\ build[f].case \in DOMAIN problem.target

Built ==
  /\ stage \in {"next", "case"} =>
       \A c \in DOMAIN problem.target : FreshTarget(problem.target[c])
  /\ OwnBinary

LEMMA BuiltAll ==
  ASSUME RunTypes, judgings \in 1..MaxJudgings, Builds(DOMAIN problem.target),
         UNCHANGED <<problem, judgings>>
  PROVE  \A c \in DOMAIN problem.target : FreshTarget(problem.target[c])'
<1> SUFFICES ASSUME NEW c \in DOMAIN problem.target
             PROVE  FreshTarget(problem.target[c])'
  OBVIOUS
<1> DEFINE f == problem.target[c]
           d == CHOOSE x \in DOMAIN problem.target : problem.target[x] = f
<1>1. f \in Files
  BY ProblemsAssumption DEF RunTypes
<1>2. d \in DOMAIN problem.target /\ problem.target[d] = f
  OBVIOUS
<1>3. build'[f] = [case |-> d, judging |-> judgings]
  BY <1>1 DEF Builds
<1> QED
  BY <1>2, <1>3 DEF FreshTarget

\* The file found for a case of an unambiguous problem is its own.
LEMMA FoundIsOwn ==
  ASSUME RunTypes, Built, stage = "next", Len(results) < Len(problem.cases),
         Matches(Case) # {}, Unambiguous(problem)
  PROVE  build[findCaseBinary(Case)] = [case |-> Case, judging |-> judgings]
<1> DEFINE f == findCaseBinary(Case)
<1>1. Case \in Cases
  BY CaseFacts
<1>2. f \in Files /\ <<f, Case>> \in EndsWith /\ build[f] # NoBinary
  BY <1>1, FindFacts
<1>3. {d \in DOMAIN problem.target : problem.target[d] = f} = {Case}
  <2>1. Len(results) + 1 \in DOMAIN problem.cases
    BY ProblemsAssumption DEF RunTypes
  <2> QED
    BY <1>2, <2>1 DEF Unambiguous, Case
<1>4. Case \in DOMAIN problem.target /\ problem.target[Case] = f
  BY <1>3
<1>5. FreshTarget(f)
  BY <1>4 DEF Built
<1>6. build[f].case = Case
  BY <1>3, <1>5 DEF FreshTarget
<1>7. PICK c \in Cases, j \in 1..MaxJudgings : build[f] = [case |-> c, judging |-> j]
  BY <1>2 DEF RunTypes, Binary
<1> HIDE DEF f
<1>8. c = Case /\ j = judgings
  BY <1>5, <1>6, <1>7 DEF FreshTarget
<1> QED
  BY <1>7, <1>8 DEF f

LEMMA BuiltInductive ==
  /\ PipelineInit => Built
  /\ TypeInv /\ Built /\ [PipelineNext]_all_vars => Built'
<1>1. PipelineInit => Built
  BY DEF PipelineInit, Built, OwnBinary
<1> SUFFICES ASSUME TypeInv, Built, [PipelineNext]_all_vars
             PROVE  Built'
  BY <1>1
<1>2. CASE stage' \notin {"next", "case"}
  BY <1>2 DEF Built, OwnBinary
<1>3. CASE UNCHANGED run_vars
  BY <1>3 DEF run_vars, Built, OwnBinary, FreshTarget, Unambiguous, Case
<1>4. CASE BuildPasses
  <2>1. Builds(DOMAIN problem.target) /\ UNCHANGED <<problem, judgings>> /\ stage' = "next"
    BY <1>4 DEF BuildPasses, BuildLeaves, StageOk
  <2>2. judgings \in 1..MaxJudgings
    BY <1>4 DEF BuildPasses, TypeInv, RunTypes, Shape
  <2> QED
    BY <2>1, <2>2, BuiltAll DEF Built, OwnBinary, TypeInv
<1>5. CASE BinaryMissing \/ CopyFails \/ CaseReturns
  <2>1. stage' = "next" /\ stage \in {"next", "case"} /\ UNCHANGED <<problem, build, judgings>>
    BY <1>5 DEF BinaryMissing, CopyFails, CaseReturns, AddResult, MoreCases
  <2> QED
    BY <2>1 DEF Built, OwnBinary, FreshTarget
<1>6. CASE RunCase
  <2>1. /\ stage = "next" /\ stage' = "case" /\ Len(results) < Len(problem.cases)
        /\ Matches(Case) # {} /\ ran' = build[findCaseBinary(Case)]
        /\ UNCHANGED <<problem, build, results, judgings>>
    BY <1>6 DEF RunCase, MoreCases, CallFor
  <2>2. Unambiguous(problem) => ran' = [case |-> Case, judging |-> judgings]
    BY <2>1, FoundIsOwn DEF TypeInv
  <2>3. Case' = Case /\ (Unambiguous(problem)' <=> Unambiguous(problem))
    BY <2>1 DEF Case, Unambiguous
  <2> QED
    BY <2>1, <2>2, <2>3 DEF Built, OwnBinary, FreshTarget
<1>7. CASE PipelineStep
  BY <1>2, <1>4, <1>5, <1>6, <1>7
  DEF PipelineStep, WorkspaceFails, Configure, ConfigureFails, Build, BuildFails,
      NoCases, StoreRows, Finish, PipelineFail, CallFor
<1> QED
  BY <1>2, <1>3, <1>7
  DEF PipelineNext, Process, ContainerStep, Dies, all_vars, run_vars

\* Whatever an earlier judging, a build that failed or an earlier version of
\* the problem has left in build/, the binary that runs for a case is its own and
\* of this judging, if the names are Unambiguous (pipeline.go:247-275).
THEOREM BinaryIsOwn == PipelineSpec => []OwnBinary
<1>1. PipelineSpec => [](TypeInv /\ Built)
  BY TypesInductive, BuiltInductive, PTL DEF PipelineSpec
<1>2. Built => OwnBinary
  BY DEF Built
<1> QED
  BY <1>1, <1>2, PTL

------------------------------------------------------------------------------
(* Rows and verdict.                                                        *)

CasesOf(r) == \A i \in DOMAIN r : r[i].case = problem.cases[i]

\* No rows until the loop over the cases is through, then those of all cases.
Rowed ==
  /\ stage # "idle" => status = "RUNNING" /\ CasesOf(results)
  /\ stage \in {"workspace", "configure", "build"} => results = <<>>
  /\ stage \notin {"idle", "final"} => rows = <<>>
  /\ stage = "final" => rows = results /\ Len(results) = Len(problem.cases)
  /\ VerdictFits

\* aggregate is the worst of the statuses that have a rank.
LEMMA AggregateFacts ==
  ASSUME NEW r \in Seq(Result), r # <<>>
  PROVE  LET v == aggregate([i \in DOMAIN r |-> r[i].status])
         IN  /\ \A i \in DOMAIN r : Rank(r[i].status) <= Rank(v)
             /\ v = "AC" \/ \E i \in DOMAIN r : r[i].status = v
<1> DEFINE st == [i \in DOMAIN r |-> r[i].status]
           has(s) == \E i \in DOMAIN r : r[i].status = s
           v == aggregate(st)
<1>1. st # <<>>
  BY DEF Result
<1>2. v = IF has("RE") THEN "RE" ELSE IF has("TLE") THEN "TLE"
          ELSE IF has("WA") THEN "WA" ELSE IF has("CE") THEN "CE" ELSE "AC"
  BY <1>1 DEF aggregate
<1> HIDE DEF v, st
<1>3. \A i \in DOMAIN r : r[i].status \in Verdicts /\ has(r[i].status)
  <2>1. \A i \in DOMAIN r : r[i] \in Result
    OBVIOUS
  <2> QED
    BY <2>1 DEF Result
<1>4. \A s \in Verdicts : has(s) => Rank(s) <= Rank(v)
  BY <1>2 DEF Rank, Verdicts
<1>5. v = "AC" \/ has(v)
  BY <1>2
<1> QED
  BY <1>3, <1>4, <1>5 DEF v, st

LEMMA FinishFits ==
  ASSUME RunTypes, CasesOf(results), rows = results,
         Len(results) = Len(problem.cases), Finish
  PROVE  VerdictFits'
<1> DEFINE v == aggregate([i \in DOMAIN results |-> results[i].status])
<1>1. UNCHANGED <<rows, problem>> /\ status' = v
  BY DEF Finish, PipelineFail
<1>2. CASE results = <<>>
  <2>1. [i \in DOMAIN results |-> results[i].status] = <<>>
    BY <1>2
  <2>2. v = "IE"
    BY <2>1 DEF aggregate
  <2> QED
    BY <1>1, <1>2, <2>2 DEF VerdictFits
<1>3. CASE results # <<>>
  <2>1. /\ \A i \in DOMAIN rows : Rank(rows[i].status) <= Rank(v)
        /\ v = "AC" \/ \E i \in DOMAIN rows : rows[i].status = v
    BY <1>3, AggregateFacts DEF RunTypes
  <2>2. [i \in DOMAIN rows |-> rows[i].case] = problem.cases
    <3>1. problem.cases \in Seq(Cases) /\ rows \in Seq(Result)
      BY ProblemsAssumption DEF RunTypes
    <3>2. DOMAIN rows = DOMAIN problem.cases
      BY <3>1
    <3> QED
      BY <3>1, <3>2 DEF CasesOf
  <2> HIDE DEF v
  <2> QED
    BY <1>1, <2>1, <2>2 DEF VerdictFits
<1> QED
  BY <1>2, <1>3

LEMMA AppendFits ==
  ASSUME RunTypes, CasesOf(results), Len(results) < Len(problem.cases),
         NEW v \in Verdicts, AddResult(v)
  PROVE  CasesOf(results)'
<1> DEFINE new == [case |-> Case, status |-> v]
<1>1. results' = Append(results, new) /\ problem' = problem
  BY DEF AddResult
<1>2. results \in Seq(Result) /\ new \in Result
  BY CaseFacts DEF RunTypes, Result
<1>3. new.case = problem.cases[Len(results) + 1]
  BY DEF Case
<1> HIDE DEF new
<1> QED
  BY <1>1, <1>2, <1>3 DEF CasesOf

LEMMA RowedInductive ==
  /\ PipelineInit => Rowed
  /\ TypeInv /\ Rowed /\ [PipelineNext]_all_vars => Rowed'
<1>1. PipelineInit => Rowed
  BY DEF PipelineInit, Rowed, VerdictFits, Verdicts
<1> SUFFICES ASSUME TypeInv, Rowed, [PipelineNext]_all_vars
             PROVE  Rowed'
  BY <1>1
<1>2. CASE UNCHANGED run_vars
  BY <1>2 DEF run_vars, Rowed, CasesOf, VerdictFits
<1>3. CASE \E v \in {"SE", "CE", "IE"} : PipelineFail(v) /\ rows = <<>> /\ UNCHANGED rows
  BY <1>3 DEF PipelineFail, Rowed, VerdictFits
<1>4. CASE WorkspaceFails \/ ConfigureFails \/ BuildFails \/ NoCases
  <2>1. rows = <<>> /\ UNCHANGED rows
    BY <1>4 DEF WorkspaceFails, ConfigureFails, BuildFails, NoCases, Rowed
  <2>2. \E v \in {"SE", "CE", "IE"} : PipelineFail(v)
    BY <1>4, StatusFacts DEF WorkspaceFails, ConfigureFails, BuildFails, NoCases
  <2> QED
    BY <1>3, <2>1, <2>2
<1>5. CASE Configure \/ Build \/ BuildPasses \/ RunCase
  BY <1>5 DEF Configure, Build, BuildPasses, RunCase, MoreCases, CallFor, Rowed,
              CasesOf, VerdictFits
<1>6. CASE BinaryMissing \/ CopyFails \/ CaseReturns
  <2>1. PICK v \in Verdicts : AddResult(v)
    BY <1>6, StatusFacts DEF BinaryMissing, CopyFails, CaseReturns
  <2>2. stage \in {"next", "case"} /\ Len(results) < Len(problem.cases)
    BY <1>6 DEF BinaryMissing, CopyFails, CaseReturns, MoreCases, TypeInv, Shape
  <2>3. CasesOf(results)'
    BY <2>1, <2>2, AppendFits DEF Rowed, TypeInv
  <2> QED
    BY <2>1, <2>2, <2>3 DEF AddResult, Rowed, VerdictFits
<1>7. CASE StoreRows
  <2>1. results \in Seq(Result) /\ rows = <<>>
    BY <1>7 DEF StoreRows, TypeInv, RunTypes, Rowed
  <2>2. rows \o results = results
    BY <2>1
  <2> QED
    BY <1>7, <2>2 DEF StoreRows, Rowed, CasesOf, VerdictFits
<1>8. CASE Finish
  <2>1. VerdictFits'
    BY <1>8, FinishFits DEF Finish, Rowed, TypeInv
  <2> QED
    BY <1>8, <2>1 DEF Finish, PipelineFail, Rowed
<1>9. CASE Process
  BY <1>9 DEF Process, Rowed, CasesOf, VerdictFits
<1>10. CASE Dies
  BY <1>10 DEF Dies, Rowed, VerdictFits, Verdicts
<1> QED
  BY <1>2, <1>4, <1>5, <1>6, <1>7, <1>8, <1>9, <1>10
  DEF PipelineNext, PipelineStep, ContainerStep, all_vars, run_vars

\* A published verdict stands on the complete rows of the problem it was judged
\* against, of which it is the worst, or on none at all, whatever crashes and
\* reruns came before (pipeline.go:118-191, status.go:30-59).
THEOREM VerdictsFit == PipelineSpec => []VerdictFits
<1>1. PipelineSpec => [](TypeInv /\ Rowed)
  BY TypesInductive, RowedInductive, PTL DEF PipelineSpec
<1>2. Rowed => VerdictFits
  BY DEF Rowed
<1> QED
  BY <1>1, <1>2, PTL

TruthfulRows(r) == \A i \in DOMAIN r : Deserved(r[i].case, r[i].status)

Truthful ==
  Unambiguous(problem) =>
    /\ stage # "idle" => TruthfulRows(results)
    /\ TruthfulRows(rows)

\* What a row deserves depends on nothing that changes during a judging.
LEMMA DeservedStable ==
  ASSUME UNCHANGED <<problem, program>>
  PROVE  /\ Unambiguous(problem)' <=> Unambiguous(problem)
         /\ UNCHANGED rows => (TruthfulRows(rows)' <=> TruthfulRows(rows))
         /\ UNCHANGED results => (TruthfulRows(results)' <=> TruthfulRows(results))
         /\ rows' = results => (TruthfulRows(rows)' <=> TruthfulRows(results))
<1>1. Unambiguous(problem)' <=> Unambiguous(problem)
  BY DEF Unambiguous
<1>2. UNCHANGED rows => (TruthfulRows(rows)' <=> TruthfulRows(rows))
  BY DEF TruthfulRows, Deserved
<1>3. UNCHANGED results => (TruthfulRows(results)' <=> TruthfulRows(results))
  BY DEF TruthfulRows, Deserved
<1>4. rows' = results => (TruthfulRows(rows)' <=> TruthfulRows(results))
  BY DEF TruthfulRows, Deserved
<1> QED
  BY <1>1, <1>2, <1>3, <1>4

\* A case without a binary is one that the problem does not build.
LEMMA MissingIsNotBuilt ==
  ASSUME RunTypes, Built, stage = "next", judgings >= 1,
         NEW c \in Cases, Matches(c) = {}
  PROVE  c \notin DOMAIN problem.target
<1> SUFFICES ASSUME c \in DOMAIN problem.target
             PROVE  FALSE
  OBVIOUS
<1> DEFINE f == problem.target[c]
<1>1. f \in Files /\ <<f, c>> \in EndsWith
  BY ProblemsAssumption DEF RunTypes
<1>2. build[f] # NoBinary
  <2>1. build[f].judging = judgings
    BY DEF Built, FreshTarget
  <2>2. NoBinary.judging = 0
    BY DEF NoBinary
  <2> QED
    BY <2>1, <2>2
<1>3. PICK i \in DOMAIN FileOrder : FileOrder[i] = f
  BY <1>1, FilesAssumption
<1> QED
  BY <1>1, <1>2, <1>3 DEF Matches

\* What CaseReturns says of a case is earned.
LEMMA CaseStatusIsTrue ==
  ASSUME TypeInv, Built, HonestExits, stage = "case", run.pc = "returned",
         Unambiguous(problem)
  PROVE  Deserved(Case, CaseStatus)
<1>1. CASE out.err
  BY <1>1 DEF CaseStatus, Deserved
<1>2. CASE ~out.err /\ out.timedOut
  BY <1>2 DEF CaseStatus, classifyCase, Deserved
<1>3. CASE ~out.err /\ ~out.timedOut
  <2>1. program[Case] # {} /\ (out.oom \/ out.code \in program[Case])
    BY <1>3 DEF HonestExits, Earned, Built, OwnBinary
  <2>2. CASE out.oom
    BY <1>3, <2>1, <2>2 DEF CaseStatus, classifyCase, Deserved
  <2>3. CASE ~out.oom
    <3>1. CaseStatus = classifyCase(out.code, FALSE, FALSE)
      BY <1>3, <2>3 DEF CaseStatus, classifyCase
    <3> QED
      BY <2>1, <2>3, <3>1 DEF Deserved
  <2> QED
    BY <2>2, <2>3
<1> QED
  BY <1>1, <1>2, <1>3

\* A result that is true is appended to results that are.
LEMMA AppendTruth ==
  ASSUME RunTypes, TruthfulRows(results), Len(results) < Len(problem.cases),
         NEW v \in Verdicts, Deserved(Case, v), AddResult(v)
  PROVE  TruthfulRows(results)'
<1> DEFINE new == [case |-> Case, status |-> v]
<1>1. results' = Append(results, new) /\ UNCHANGED <<problem, program>>
  BY DEF AddResult
<1>2. results \in Seq(Result) /\ new \in Result
  BY CaseFacts DEF RunTypes, Result
<1>3. new.case = Case /\ new.status = v
  OBVIOUS
<1> HIDE DEF new
<1>4. ASSUME NEW i \in DOMAIN results'
      PROVE  Deserved(results'[i].case, results'[i].status)
  <2>1. \/ i \in DOMAIN results /\ results'[i] = results[i]
        \/ results'[i] = new
    BY <1>1, <1>2
  <2> QED
    BY <1>3, <2>1 DEF TruthfulRows
<1> QED
  BY <1>1, <1>4 DEF TruthfulRows, Deserved

LEMMA TruthfulInductive ==
  /\ PipelineInit => Truthful
  /\ TypeInv /\ HonestExits /\ Built /\ Rowed /\ Truthful /\ [PipelineNext]_all_vars
       => Truthful'
<1>1. PipelineInit => Truthful
  BY DEF PipelineInit, Truthful, TruthfulRows
<1> SUFFICES ASSUME TypeInv, HonestExits, Built, Rowed, Truthful,
                    [PipelineNext]_all_vars
             PROVE  Truthful'
  BY <1>1
<1>2. CASE UNCHANGED <<problem, program, results, rows>> /\ stage # "idle"
  BY <1>2, DeservedStable DEF Truthful
<1>3. CASE UNCHANGED run_vars
  BY <1>3, DeservedStable DEF run_vars, Truthful
<1>4. CASE WorkspaceFails \/ Configure \/ ConfigureFails \/ Build \/ BuildFails
           \/ NoCases \/ RunCase \/ Finish
  BY <1>2, <1>4 DEF WorkspaceFails, Configure, ConfigureFails, Build, BuildFails,
                    NoCases, RunCase, MoreCases, Finish
<1>5. CASE BuildPasses
  <2>1. TruthfulRows(rows)'
    BY <1>5 DEF BuildPasses, TruthfulRows
  <2> QED
    BY <1>5, <2>1, DeservedStable DEF BuildPasses, Truthful
<1>6. CASE BinaryMissing \/ CopyFails \/ CaseReturns
  <2>1. stage \in {"next", "case"} /\ Len(results) < Len(problem.cases)
    BY <1>6 DEF BinaryMissing, CopyFails, CaseReturns, MoreCases, TypeInv, Shape
  <2>2. Case \in Cases
    BY <2>1, CaseFacts DEF TypeInv
  <2>3. ASSUME Unambiguous(problem)
        PROVE  \E v \in Verdicts : Deserved(Case, v) /\ AddResult(v)
    <3>1. CASE BinaryMissing
      <4>1. Case \notin DOMAIN problem.target
        BY <2>2, <3>1, MissingIsNotBuilt DEF BinaryMissing, MoreCases, TypeInv, Shape
      <4> QED
        BY <3>1, <4>1, StatusFacts DEF BinaryMissing, Deserved
    <3>2. CASE CopyFails
      BY <3>2, StatusFacts DEF CopyFails, Deserved
    <3>3. CASE CaseReturns
      BY <2>3, <3>3, StatusFacts, CaseStatusIsTrue DEF CaseReturns, Returned
    <3> QED
      BY <1>6, <3>1, <3>2, <3>3
  <2>4. UNCHANGED <<problem, program, rows>>
    BY <1>6 DEF BinaryMissing, CopyFails, CaseReturns, AddResult
  <2>5. Unambiguous(problem) => TruthfulRows(results)'
    BY <2>1, <2>3, AppendTruth DEF Truthful, TypeInv
  <2>6. TruthfulRows(rows) => TruthfulRows(rows)'
    BY <2>4 DEF TruthfulRows, Deserved
  <2> QED
    BY <2>4, <2>5, <2>6 DEF Truthful, Unambiguous
<1>7. CASE StoreRows
  <2>1. results \in Seq(Result) /\ rows = <<>> /\ stage # "idle"
    BY <1>7 DEF StoreRows, TypeInv, RunTypes, Rowed
  <2>2. rows' = results /\ UNCHANGED <<results, problem, program>>
    BY <1>7, <2>1 DEF StoreRows
  <2> QED
    BY <2>1, <2>2, DeservedStable DEF Truthful
<1>8. CASE Process
  BY <1>8 DEF Process, Truthful, TruthfulRows
<1>9. CASE Dies
  BY <1>9, DeservedStable DEF Dies, Truthful
<1> QED
  BY <1>3, <1>4, <1>5, <1>6, <1>7, <1>8, <1>9
  DEF PipelineNext, PipelineStep, ContainerStep, all_vars, run_vars

\* A row of a problem with Unambiguous names never blames a program for what it
\* did not do: not for a failure of the daemon or of the disk, for a kill, for a
\* leftover of another judging, or for another case (pipeline.go:129-180).
THEOREM RowsAreTruthful == PipelineSpec => []RowsTruthful
<1>1. PipelineSpec => [](TypeInv /\ HonestExits /\ Built /\ Rowed /\ Truthful)
  BY TypesInductive, HonestInductive, BuiltInductive, RowedInductive,
     TruthfulInductive, PTL DEF PipelineSpec
<1>2. Truthful => RowsTruthful
  BY DEF Truthful, TruthfulRows, RowsTruthful
<1> QED
  BY <1>1, <1>2, PTL
=============================================================================
