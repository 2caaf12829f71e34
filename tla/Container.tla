------------------------------ MODULE Container ------------------------------
(***************************************************************************)
(* dockerRunner (internal/judge/docker.go): one call of run as the         *)
(* sequence of its requests to the Docker daemon, beside the containers    *)
(* the daemon keeps, the deadline of the run and that of the job, the      *)
(* death of the server, and cleanupOrphans when it boots (engine.go).      *)
(*                                                                         *)
(* This is an open component: the calls of run come from Pipeline.         *)
(***************************************************************************)
EXTENDS Integers, FiniteSets

CONSTANTS
  Ids,          \* container ids
  NoId,         \* not a container id
  ExitCodes,    \* codes a program may exit with by itself
  Flaws,        \* the ways a daemon may be flawed: sets of "fail", requests
                \* may fail, and "hang", a request may get no answer at all
  MaxCrashes    \* bound: deaths of the server

ASSUME IdsAssumption == NoId \notin Ids
ASSUME ExitCodesAssumption == ExitCodes \subseteq 0..255 \ {137}
ASSUME FlawsAssumption == Flaws \subseteq SUBSET {"fail", "hang"}
ASSUME CrashesAssumption == MaxCrashes \in Nat

VARIABLES
  flaws,    \* of Flaws, those of this daemon
  server,   \* down; cleaning up as it boots; serving: jobs are dispatched
  daemon,   \* the labelled containers the daemon has
  orphans,  \* those of processes that died
  listed,   \* what cleanupOrphans has listed and not yet come to
  refused,  \* what this boot could not list or remove
  run,      \* the call of run: where it is, its container, and whether the
            \* deadline of the run (runSpec.Timeout) has passed
  jobLate,  \* whether the deadline of the job (the parent context) has passed
  out,      \* what run returns
  crashes   \* counter of the bound

bootVars == <<server, orphans, listed, refused>>
vars == <<flaws, bootVars, daemon, run, jobLate, out, crashes>>

\* SIGKILL ends a program with 128 + 9.
KillCode == 137
Codes == ExitCodes \cup {0, KillCode}

Absent == [state |-> "absent", code |-> 0, oom |-> FALSE]
Created == [Absent EXCEPT !.state = "created"]
Exited(code, oom) == [state |-> "exited", code |-> code, oom |-> oom]

Idle == [pc |-> "idle", id |-> NoId, late |-> FALSE]

\* What run returns: an error, TimedOut, or what the inspection found.
Failed == [err |-> TRUE, timedOut |-> FALSE, code |-> 0, oom |-> FALSE]
TimedOut == [Failed EXCEPT !.err = FALSE, !.timedOut = TRUE]
Ended(c) == [Failed EXCEPT !.err = FALSE, !.code = c.code, !.oom = c.oom]

TypeOK ==
  /\ flaws \in Flaws
  /\ server \in {"down", "cleaning", "serving"}
  /\ orphans \subseteq Ids /\ listed \subseteq Ids /\ refused \subseteq Ids
  /\ daemon \in [Ids -> [state : {"absent", "created", "running", "exited"},
                         code : Codes, oom : BOOLEAN]]
  /\ \/ run \in [pc : {"idle", "create", "returned"}, id : Ids \cup {NoId},
                 late : BOOLEAN]
     \/ run \in [pc : {"start", "post", "wait", "kill", "inspect", "remove"},
                 id : Ids, late : BOOLEAN]
  /\ jobLate \in BOOLEAN
  /\ out \in [err : BOOLEAN, timedOut : BOOLEAN, code : Codes, oom : BOOLEAN]
  /\ crashes \in 0..MaxCrashes

Init ==
  /\ flaws \in Flaws
  /\ server = "serving"
  /\ orphans = {} /\ listed = {} /\ refused = {}
  /\ daemon = [i \in Ids |-> Absent]
  /\ run = Idle
  /\ jobLate = FALSE
  /\ out = Failed
  /\ crashes = 0

------------------------------------------------------------------------------
(* run.                                                                     *)

Goto(pc) == run' = [run EXCEPT !.pc = pc]
Set(i, c) == daemon' = [daemon EXCEPT ![i] = c]
World == <<flaws, bootVars, jobLate, crashes>>

Fails == "fail" \in flaws
Hangs == "hang" \in flaws

\* A request under a context that is done fails.
RequestFails == jobLate \/ Fails

\* run is called, as long as there is an id left to model its container.
Call ==
  /\ \E i \in Ids : daemon[i] = Absent
  /\ run' = [Idle EXCEPT !.pc = "create"]

Create ==
  /\ run.pc = "create"
  /\ ~jobLate
  /\ \E i \in Ids :
       /\ daemon[i] = Absent
       /\ Set(i, Created)
       /\ run' = [run EXCEPT !.pc = "start", !.id = i]
  /\ UNCHANGED <<World, out>>

\* A creation whose answer did not arrive: the daemon may have done it.
CreatedOrNot ==
  \/ UNCHANGED daemon
  \/ \E i \in Ids : daemon[i] = Absent /\ Set(i, Created)

\* (mutant: the removal is deferred before the error of the creation is seen)
CreateFailsThenRemoves ==
  /\ run.pc = "create"
  /\ RequestFails
  /\ CreatedOrNot
  /\ Goto("remove")
  /\ out' = Failed
  /\ UNCHANGED World

\* run returns before the removal is deferred.
CreateFails ==
  /\ run.pc = "create"
  /\ RequestFails
  /\ CreatedOrNot
  /\ Goto("returned")
  /\ out' = Failed
  /\ UNCHANGED World

Running(i) == daemon' = [daemon EXCEPT ![i].state = "running"]

Start ==
  /\ run.pc = "start"
  /\ ~jobLate
  /\ Running(run.id)
  /\ Goto("post")
  /\ UNCHANGED <<World, out>>

StartFails ==
  /\ run.pc = "start"
  /\ RequestFails
  /\ UNCHANGED daemon \/ Running(run.id)
  /\ Goto("remove")
  /\ out' = Failed
  /\ UNCHANGED World

\* (mutant: a wait without a context that ends)
WaitForever == FALSE

\* The wait context is a child of the job's.
WaitDone == run.late \/ jobLate

\* ContainerWait sends its request: when it returns the select is reached.
Post ==
  /\ run.pc = "post"
  /\ ~WaitDone
  /\ Goto("wait")
  /\ UNCHANGED <<World, daemon, out>>

\* The request fails: errCh is ready at once. If the wait context is done as
\* well, the select takes either branch.
PostFails ==
  /\ run.pc = "post"
  /\ WaitDone \/ Fails
  /\ \/ Goto("remove") /\ out' = Failed
     \/ WaitDone /\ Goto("kill") /\ UNCHANGED out
  /\ UNCHANGED <<World, daemon>>

\* The select, the goroutine parked in it: the first event decides.
WaitTimesOut ==
  /\ run.pc = "wait"
  /\ WaitDone
  /\ Goto("kill")
  /\ UNCHANGED <<World, daemon, out>>

WaitFails ==
  /\ run.pc = "wait"
  /\ Fails
  /\ Goto("remove")
  /\ out' = Failed
  /\ UNCHANGED <<World, daemon>>

WaitEnds ==
  /\ run.pc = "wait"
  /\ daemon[run.id].state = "exited"
  /\ Goto("inspect")
  /\ UNCHANGED <<World, daemon, out>>

\* The kill has a context of its own and its error is ignored.
KillSent ==
  \/ /\ daemon[run.id].state = "running"
     /\ Set(run.id, Exited(KillCode, FALSE))
  \/ /\ daemon[run.id].state # "running" \/ Fails \/ Hangs
     /\ UNCHANGED daemon

\* (mutant: the killed container is inspected like one that has ended)
KillThenInspect ==
  /\ run.pc = "kill"
  /\ KillSent
  /\ Goto("inspect")
  /\ UNCHANGED <<World, out>>

Kill ==
  /\ run.pc = "kill"
  /\ KillSent
  /\ Goto("remove")
  /\ out' = TimedOut
  /\ UNCHANGED World

\* The one request with neither a deadline nor a cancelled context.
Inspect ==
  /\ run.pc = "inspect"
  /\ out' = Ended(daemon[run.id]) \/ (Fails /\ out' = Failed)
  /\ Goto("remove")
  /\ UNCHANGED <<World, daemon>>

\* The deferred removal, on a context of its own; its error is ignored.
\* Forced, it ends a container that still runs.
RemoveStopped(i) ==
  IF daemon[i].state = "running" THEN UNCHANGED daemon ELSE Set(i, Absent)
RemoveForced(i) == Set(i, Absent)

\* (mutant: the removal has no deadline, and a silent daemon never answers it)
RemoveWaits ==
  /\ run.pc = "remove" /\ ~Hangs
  /\ RemoveForced(run.id) \/ (Fails /\ UNCHANGED daemon)
  /\ Goto("returned")
  /\ UNCHANGED <<World, out>>

Remove ==
  /\ run.pc = "remove"
  /\ \/ RemoveForced(run.id)
     \/ (Fails \/ Hangs) /\ UNCHANGED daemon
  /\ Goto("returned")
  /\ UNCHANGED <<World, out>>

RunStep ==
  \/ Create \/ CreateFails \/ Start \/ StartFails \/ Post \/ PostFails
  \/ WaitTimesOut \/ WaitFails \/ WaitEnds \/ Kill \/ Inspect \/ Remove

------------------------------------------------------------------------------
(* The programs, the timers, and the server.                                *)

\* The program in a running container exits, or is killed for its memory. It
\* may also outlive a process of its own that was killed.
Exits(i) ==
  /\ daemon[i].state = "running"
  /\ \/ \E c \in ExitCodes, o \in BOOLEAN : Set(i, Exited(c, o))
     \/ Set(i, Exited(KillCode, TRUE))
  /\ UNCHANGED <<World, run, out>>

\* The timer of the run starts with its wait.
RunDeadline ==
  /\ run.pc \in {"post", "wait"}
  /\ ~run.late
  /\ run' = [run EXCEPT !.late = TRUE]
  /\ UNCHANGED <<World, daemon, out>>

JobDeadline ==
  /\ run.pc # "idle"
  /\ ~jobLate
  /\ jobLate' = TRUE
  /\ UNCHANGED <<flaws, bootVars, crashes, daemon, run, out>>

\* The request under way when the server dies may still be done.
InFlight ==
  \/ UNCHANGED daemon
  \/ run.pc = "create" /\ CreatedOrNot
  \/ run.pc = "start" /\ Running(run.id)
  \/ run.pc = "kill" /\ KillSent
  \/ run.pc = "remove" /\ RemoveForced(run.id)
  \/ \E i \in listed : RemoveForced(i)

\* The server dies: in a call, between two of them, or as it boots.
Crash ==
  /\ server # "down"
  /\ crashes < MaxCrashes
  /\ server' = "down"
  /\ crashes' = crashes + 1
  /\ InFlight
  /\ orphans' = {i \in Ids : daemon'[i] # Absent}
  /\ listed' = {} /\ refused' = {}
  /\ run' = Idle
  /\ jobLate' = FALSE
  /\ UNCHANGED <<flaws, out>>

\* ContainerList with All: every labelled container, running or not.
Labelled == {i \in Ids : daemon[i] # Absent}

\* Start pings the daemon and lists the containers. When it gets no answer to
\* the ping, or an error, it logs that and goes on without a cleanup.
Boot ==
  /\ server = "down"
  /\ \/ /\ server' = "cleaning"
        /\ listed' = Labelled
        /\ UNCHANGED refused
     \/ /\ Fails \/ Hangs
        /\ server' = "serving"
        /\ refused' = {i \in Ids : daemon[i] # Absent}
        /\ UNCHANGED listed
  /\ UNCHANGED <<flaws, daemon, orphans, run, jobLate, out, crashes>>

\* cleanupOrphans removes one after the other, and passes over an error.
RemoveOrphan ==
  /\ server = "cleaning"
  /\ \E i \in listed :
       /\ listed' = listed \ {i}
       /\ \/ RemoveForced(i) /\ orphans' = orphans \ {i} /\ UNCHANGED refused
          \/ Fails /\ refused' = refused \cup {i} /\ UNCHANGED <<daemon, orphans>>
  /\ UNCHANGED <<flaws, server, run, jobLate, out, crashes>>

\* (mutant: the dispatcher is started beside the cleanup)
ServeAtOnce ==
  /\ server = "cleaning"
  /\ server' = "serving"
  /\ UNCHANGED <<flaws, daemon, orphans, listed, refused, run, jobLate, out, crashes>>

\* After the last one, Start starts the dispatcher.
Serve ==
  /\ server = "cleaning" /\ listed = {}
  /\ server' = "serving"
  /\ UNCHANGED <<flaws, daemon, orphans, listed, refused, run, jobLate, out, crashes>>

\* A step that no answer of the daemon can delay forever: its context ends.
Bounded ==
  \/ jobLate /\ (CreateFails \/ StartFails)
  \/ WaitDone /\ (PostFails \/ WaitTimesOut)
  \/ Kill \/ Remove

\* A request that the daemon answers or refuses. That it reports a failure to
\* a call that waits for a program is not to be relied on.
Answered == RunStep /\ (run.pc # "wait" \/ WaitEnds \/ WaitTimesOut)

\* Timers fire; requests are answered, unless Hangs. A program in a
\* container need not end.
RunFairness ==
  /\ WF_vars(RunDeadline) /\ WF_vars(JobDeadline)
  /\ WF_vars(Bounded)
  /\ ~Hangs => WF_vars(Answered)

------------------------------------------------------------------------------
\* A container that is not of the current call: left over.
LeftOver(i) == daemon[i] # Absent /\ run.id # i

\* If the daemon does what it is asked, every way out of run after the
\* creation has removed the container - the timeout, an end of the job's
\* context, each failure - and a boot removes what a crash left. What remains
\* is at most a container whose creation was cut short, and that one never
\* runs a program (docker.go:54-55, 167-172).
NoOrphanRuns ==
  server = "serving" /\ ~Fails /\ ~Hangs =>
    \A i \in Ids : LeftOver(i) => daemon[i] = Created

\* run reports an exit code only of a program that ended by itself or for its
\* memory, never that of its own kill, whatever fails and whichever branch the
\* select takes (docker.go:186-209).
ExitIsTheProgrammes ==
  run.pc \in {"remove", "returned"} /\ ~out.err /\ ~out.timedOut =>
    out.code \in ExitCodes \/ out.oom
==============================================================================
