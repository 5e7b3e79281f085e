-------------------------- MODULE TargetLifecycle --------------------------
(***************************************************************************)
(* The servers and teardown commands of the targets a command tests:       *)
(* startManagedServer and stopProcessTree of                               *)
(* packages/playwright-adapter/src/serverManager.ts, and their two users,  *)
(* runPlaywrightContracts (`visual-hive run`) and                          *)
(* startMutationTargetSession (`visual-hive mutate`).                      *)
(*                                                                         *)
(* Commands of one workspace start servers at the same addresses.  Every   *)
(* service has an address of its own; who answers there is not always the  *)
(* child that was spawned for it.  Timeouts are steps that may be taken,   *)
(* and whoever is slow may pass for nobody when the code asks.             *)
(***************************************************************************)
EXTENDS Sequences, SequencesExt

CONSTANTS
  Commands,   \* invocations that test targets
  Mutates,    \* those of them that are `visual-hive mutate`
  Plan,       \* the targets they test, in the order of the plan
  Services,   \* the servers of all targets
  Uses,       \* the servers of each target, in the order of the configuration
  Outsider,   \* a process that is none of the commands' children
  Nobody      \* no process

Targets == Range(Plan)

(* A target is planned once, and no address is used for two services.      *)
ASSUME TargetAssumption ==
  /\ Mutates \subseteq Commands
  /\ Plan \in Seq(Targets) /\ IsInjective(Plan)
  /\ Uses \in [Targets -> Seq(Services)] /\ \A t \in Targets : IsInjective(Uses[t])
  /\ \A t, u \in Targets : t # u => Range(Uses[t]) \cap Range(Uses[u]) = {}
  /\ Outsider \notin Commands /\ Nobody \notin Commands /\ Outsider # Nobody

VARIABLES
  stage,      \* the step each command is about to take
  pending,    \* the targets it has still to start, the first being under way
  needed,     \* the services of that one it has still to start, likewise
  started,    \* the services it has started, in order
  teardowns,  \* the targets whose teardown it has noted, in order
  child,      \* the child it spawned for each service
  answers,    \* who answers at the address of each service
  trouble,    \* the errors it has met: their kinds
  ready,      \* history: the targets it started completely
  torn,       \* history: the targets whose teardown it has run
  survived,   \* history: the services whose child outlived its stop and still runs
  dipped,     \* history: commands that lost a server while they tested
  raced       \* history: the services whose address another took while it was starting
              \* them, or held without answering its probe

targetVars == <<stage, pending, needed, started, teardowns,
                child, answers, trouble, ready, torn, survived,
                dipped, raced>>

-----------------------------------------------------------------------------
Stages == {"idle", "install", "next", "setup", "launch", "probe", "spawn",
           "ready", "check", "test", "stop", "teardown", "done"}
Children == {"none", "alive", "dead"}
Troubles == {"target", "execution", "cleanup"}

TargetTypeOK ==
  /\ stage \in [Commands -> Stages]
  /\ pending \in [Commands -> Seq(Targets)]
  /\ needed \in [Commands -> Seq(Services)]
  /\ started \in [Commands -> Seq(Services)]
  /\ teardowns \in [Commands -> Seq(Targets)]
  /\ child \in [Commands -> [Services -> Children]]
  /\ answers \in [Services -> Commands \cup {Outsider, Nobody}]
  /\ trouble \in [Commands -> SUBSET Troubles]
  /\ ready \in [Commands -> SUBSET Targets]
  /\ torn \in [Commands -> SUBSET Targets]
  /\ survived \in [Commands -> SUBSET Services]
  /\ dipped \in SUBSET Commands
  /\ raced \in [Commands -> SUBSET Services]

TargetInit ==
  /\ stage = [c \in Commands |-> "idle"]
  /\ pending = [c \in Commands |-> <<>>]
  /\ needed = [c \in Commands |-> <<>>]
  /\ started = [c \in Commands |-> <<>>]
  /\ teardowns = [c \in Commands |-> <<>>]
  /\ child = [c \in Commands |-> [s \in Services |-> "none"]]
  /\ answers = [s \in Services |-> Nobody]
  /\ trouble = [c \in Commands |-> {}]
  /\ ready = [c \in Commands |-> {}]
  /\ torn = [c \in Commands |-> {}]
  /\ survived = [c \in Commands |-> {}]
  /\ dipped = {}
  /\ raced = [c \in Commands |-> {}]

Turn(c, step) == stage' = [stage EXCEPT ![c] = step]
Meets(c, kind) == trouble' = [trouble EXCEPT ![c] = @ \cup {kind}]
Starting(c, s) == stage[c] \in {"spawn", "ready"} /\ Head(needed[c]) = s
Forgets(c, s) == raced' = [raced EXCEPT ![c] = @ \ {s}]

-----------------------------------------------------------------------------
(* The world the commands run in: a child binds the address of its service *)
(* when it is free, anything else may bind it first, and whatever answers  *)
(* may end.  A child that finds the address taken may linger.              *)
Binds(owner, s) ==
  /\ answers[s] = Nobody
  /\ answers' = [answers EXCEPT ![s] = owner]
  /\ raced' = [c \in Commands |->
                 IF c # owner /\ Starting(c, s) THEN raced[c] \cup {s} ELSE raced[c]]

ChildBinds(c, s) ==
  /\ child[c][s] = "alive"
  /\ Binds(c, s)
  /\ UNCHANGED <<stage, pending, needed, started, teardowns,
                 child, trouble, ready, torn, survived, dipped>>

OutsiderBinds(s) ==
  /\ Binds(Outsider, s)
  /\ UNCHANGED <<stage, pending, needed, started, teardowns,
                 child, trouble, ready, torn, survived, dipped>>

OutsiderLeaves(s) ==
  /\ answers[s] = Outsider
  /\ answers' = [answers EXCEPT ![s] = Nobody]
  /\ UNCHANGED <<stage, pending, needed, started, teardowns,
                 child, trouble, ready, torn, survived, dipped, raced>>

Dead(c, s) == child' = [child EXCEPT ![c][s] = "dead"]
Frees(c, s) == answers' = [answers EXCEPT ![s] = IF @ = c THEN Nobody ELSE @]

ChildDies(c, s) ==
  /\ child[c][s] = "alive"
  /\ Dead(c, s)
  /\ Frees(c, s)
  /\ survived' = [survived EXCEPT ![c] = @ \ {s}]
  /\ dipped' = dipped \cup {x \in {c} : stage[c] = "test" /\ s \in Range(started[c])}
  /\ UNCHANGED <<stage, pending, needed, started, teardowns, trouble, ready, torn, raced>>

-----------------------------------------------------------------------------
Begins(c) ==
  /\ stage[c] = "idle"
  /\ Turn(c, IF c \in Mutates THEN "next" ELSE "install")
  /\ pending' = [pending EXCEPT ![c] = Plan]
  /\ UNCHANGED <<needed, started, teardowns, child, answers,
                 trouble, ready, torn, survived, dipped, raced>>

(* `run` installs for every target before it starts any; a failed install  *)
(* ends the attempt.  `mutate` installs each target as part of its setup.  *)
Installs(c) ==
  /\ stage[c] = "install"
  /\ \/ Turn(c, "next") /\ UNCHANGED trouble
     \/ Turn(c, "stop") /\ Meets(c, "execution")
  /\ UNCHANGED <<pending, needed, started, teardowns, child,
                 answers, ready, torn, survived, dipped, raced>>

NextTarget(c) ==
  /\ stage[c] = "next"
  /\ \/ /\ pending[c] # <<>>
        /\ needed' = [needed EXCEPT ![c] = Uses[Head(pending[c])]]
        /\ Turn(c, "setup")
     \/ /\ pending[c] = <<>>
        /\ Turn(c, "check")
        /\ UNCHANGED needed
  /\ UNCHANGED <<pending, started, teardowns, child, answers, trouble, ready,
                 torn, survived, dipped, raced>>

(* A target that does not start: `run` notes it and goes on with the next, *)
(* `mutate` gives up and stops what it has started.                        *)
TargetFails(c) ==
  /\ Meets(c, "target")
  /\ pending' = [pending EXCEPT ![c] = Tail(@)]
  /\ needed' = [needed EXCEPT ![c] = <<>>]
  /\ Turn(c, IF c \in Mutates THEN "stop" ELSE "next")

(* Build and setup commands.                                               *)
SetsUp(c) ==
  /\ stage[c] = "setup"
  /\ \/ Turn(c, "launch") /\ UNCHANGED <<trouble, pending, needed>>
     \/ TargetFails(c)
  /\ UNCHANGED <<started, teardowns, child, answers, ready, torn, survived, dipped, raced>>

(* Mutant of Notes: the list is pushed where its first element should be.  *)
NotesAll(c) == teardowns' = [teardowns EXCEPT ![c] = Append(@, pending[c])]

Notes(c) == teardowns' = [teardowns EXCEPT ![c] = Append(@, Head(pending[c]))]

TargetStarted(c) ==
  /\ needed[c] = <<>>
  /\ ready' = [ready EXCEPT ![c] = @ \cup {Head(pending[c])}]
  /\ pending' = [pending EXCEPT ![c] = Tail(@)]
  /\ Turn(c, "next")

(* Mutant of Launches: the teardown is noted before the services start.    *)
LaunchesNotingFirst(c) ==
  /\ stage[c] = "launch"
  /\ \/ needed[c] # <<>> /\ Turn(c, "probe") /\ UNCHANGED <<pending, ready>>
     \/ TargetStarted(c)
  /\ \/ needed[c] = Uses[Head(pending[c])] /\ Notes(c)
     \/ needed[c] # Uses[Head(pending[c])] /\ UNCHANGED teardowns
  /\ UNCHANGED <<needed, started, child, answers, trouble, torn, survived, dipped, raced>>

(* One service after another; the target's teardown is noted at the end.   *)
Launches(c) ==
  /\ stage[c] = "launch"
  /\ \/ needed[c] # <<>> /\ Turn(c, "probe") /\ UNCHANGED <<pending, ready, teardowns>>
     \/ TargetStarted(c) /\ Notes(c)
  /\ UNCHANGED <<needed, started, child, answers, trouble, torn, survived, dipped, raced>>

(* Mutant of Probes: nobody asks whether the address is taken.             *)
ProbesNothing(c) ==
  /\ stage[c] = "probe"
  /\ Turn(c, "spawn")
  /\ UNCHANGED <<pending, needed, started, teardowns, child,
                 answers, trouble, ready, torn, survived, dipped, raced>>

(* startManagedServer asks whether the address answers, waits for it to    *)
(* close, and refuses it when it does not, or when time is up.  Any error  *)
(* of the request, one that took too long included, passes for closed ...  *)
Probes(c) ==
  LET s == Head(needed[c]) IN
  /\ stage[c] = "probe"
  /\ \/ /\ Turn(c, "spawn")
        /\ raced' = [raced EXCEPT ![c] = @ \cup {x \in {s} : answers[x] # Nobody}]
        /\ UNCHANGED <<trouble, pending, needed>>
     \/ TargetFails(c) /\ UNCHANGED raced
  /\ UNCHANGED <<started, teardowns, child, answers, ready, torn, survived, dipped>>

(* ... spawns the child ...                                                *)
Spawns(c) ==
  /\ stage[c] = "spawn"
  /\ child' = [child EXCEPT ![c][Head(needed[c])] = "alive"]
  /\ Turn(c, "ready")
  /\ UNCHANGED <<pending, needed, started, teardowns, answers, trouble, ready,
                 torn, survived, dipped, raced>>

(* ... and waits until the address answers while the child still runs.     *)
BecomesReady(c) ==
  LET s == Head(needed[c]) IN
    /\ stage[c] = "ready"
    /\ child[c][s] = "alive"
    /\ answers[s] # Nobody
    /\ started' = [started EXCEPT ![c] = Append(@, s)]
    /\ needed' = [needed EXCEPT ![c] = Tail(@)]
    /\ Turn(c, "launch")
    /\ UNCHANGED <<pending, teardowns, child, answers, trouble, ready, torn, survived,
                   dipped, raced>>

(* stopProcessTree: the process group is ended, or outlives both signals.  *)
(* It also fails while the address is seen to answer still.                *)
Stopped(c, s) == Dead(c, s) /\ Frees(c, s) /\ UNCHANGED survived
NotStopped(c, s) ==
  \/ /\ child[c][s] = "alive"
     /\ survived' = [survived EXCEPT ![c] = @ \cup {s}]
     /\ UNCHANGED <<child, answers>>
  \/ Dead(c, s) /\ Frees(c, s) /\ answers'[s] # Nobody /\ UNCHANGED survived

(* Mutant of NeverReady: the child is left to itself.                      *)
NeverReadyLeavesChild(c) ==
  /\ stage[c] = "ready"
  /\ TargetFails(c)
  /\ UNCHANGED <<started, teardowns, child, answers, ready, torn, survived, dipped, raced>>

(* The child ended, or time is up: it is stopped and the start fails, with *)
(* the error of the stop when that fails too.                              *)
NeverReady(c) ==
  /\ stage[c] = "ready"
  /\ Stopped(c, Head(needed[c])) \/ NotStopped(c, Head(needed[c]))
  /\ TargetFails(c)
  /\ Forgets(c, Head(needed[c]))
  /\ UNCHANGED <<started, teardowns, ready, torn, dipped>>

-----------------------------------------------------------------------------
AllAlive(c) == \A s \in Range(started[c]) : child[c][s] = "alive"

(* `run` needs a target that started and every server alive before ...     *)
Checks(c) ==
  /\ stage[c] = "check"
  /\ \/ /\ c \in Mutates \/ (ready[c] # {} /\ AllAlive(c))
        /\ Turn(c, "test")
        /\ dipped' = dipped \cup {x \in {c} : ~AllAlive(c)}
        /\ UNCHANGED trouble
     \/ /\ c \notin Mutates /\ ~(ready[c] # {} /\ AllAlive(c))
        /\ Meets(c, "execution")
        /\ Turn(c, "stop")
        /\ UNCHANGED dipped
  /\ UNCHANGED <<pending, needed, started, teardowns, child,
                 answers, ready, torn, survived, raced>>

(* Mutant of Tests: the servers are not looked at again.                   *)
TestsOnce(c) ==
  /\ stage[c] = "test"
  /\ \/ UNCHANGED trouble
     \/ Meets(c, "execution")
  /\ Turn(c, "stop")
  /\ UNCHANGED <<pending, needed, started, teardowns, child,
                 answers, ready, torn, survived, dipped, raced>>

(* ... and after the browser has run.  `mutate` asks neither time.         *)
Tests(c) ==
  /\ stage[c] = "test"
  /\ \/ (c \in Mutates \/ AllAlive(c)) /\ UNCHANGED trouble
     \/ Meets(c, "execution")
  /\ Turn(c, "stop")
  /\ UNCHANGED <<pending, needed, started, teardowns, child,
                 answers, ready, torn, survived, dipped, raced>>

-----------------------------------------------------------------------------
(* The last server started is stopped first.  `run` collects the errors    *)
(* and goes on; in `mutate` the first one ends the command.                *)
Stops(c) ==
  LET s == Last(started[c]) IN
  /\ stage[c] = "stop"
  /\ started[c] # <<>>
  /\ started' = [started EXCEPT ![c] = Front(@)]
  /\ \/ Stopped(c, s) /\ UNCHANGED <<stage, trouble>>
     \/ /\ NotStopped(c, s)
        /\ Meets(c, "cleanup")
        /\ IF c \in Mutates THEN Turn(c, "done") ELSE UNCHANGED stage
  /\ Forgets(c, s)
  /\ UNCHANGED <<pending, needed, teardowns, ready, torn, dipped>>

AllStopped(c) ==
  /\ stage[c] = "stop"
  /\ started[c] = <<>>
  /\ Turn(c, "teardown")
  /\ UNCHANGED <<pending, needed, started, teardowns, child,
                 answers, trouble, ready, torn, survived, dipped, raced>>

(* The last teardown noted is run first.  Its exit code counts for nothing;*)
(* a command that cannot run or is timed out is an error as above.         *)
TearsDown(c) ==
  LET t == Last(teardowns[c]) IN
  /\ stage[c] = "teardown"
  /\ teardowns[c] # <<>>
  /\ teardowns' = [teardowns EXCEPT ![c] = Front(@)]
  /\ torn' = [torn EXCEPT ![c] = @ \cup {t}]
  /\ \/ UNCHANGED <<stage, trouble>>
     \/ /\ Meets(c, "cleanup")
        /\ IF c \in Mutates THEN Turn(c, "done") ELSE UNCHANGED stage
  /\ UNCHANGED <<pending, needed, started, child, answers,
                 ready, survived, dipped, raced>>

TargetDone(c) ==
  /\ stage[c] = "teardown"
  /\ teardowns[c] = <<>>
  /\ Turn(c, "done")
  /\ UNCHANGED <<pending, needed, started, teardowns, child,
                 answers, trouble, ready, torn, survived, dipped, raced>>

-----------------------------------------------------------------------------
TargetStep(c) ==
  \/ Begins(c) \/ Installs(c) \/ NextTarget(c) \/ SetsUp(c) \/ Launches(c)
  \/ Probes(c) \/ Spawns(c) \/ BecomesReady(c) \/ NeverReady(c)
  \/ Checks(c) \/ Tests(c)
  \/ Stops(c) \/ AllStopped(c) \/ TearsDown(c) \/ TargetDone(c)

TargetNext ==
  \/ \E c \in Commands : TargetStep(c)
  \/ \E c \in Commands, s \in Services : ChildBinds(c, s) \/ ChildDies(c, s)
  \/ \E s \in Services : OutsiderBinds(s) \/ OutsiderLeaves(s)

TargetSpec == TargetInit /\ [][TargetNext]_targetVars

-----------------------------------------------------------------------------
(* Whatever a command spawned and leaves running when it ends, because a   *)
(* start failed half-way or a process would not die, has outlived a stop   *)
(* that was reported; `mutate` also leaves the servers it had still to     *)
(* stop, and reports that.                                                 *)
LeftoverReported ==
  \A c \in Commands, s \in Services :
    stage[c] = "done" /\ child[c][s] = "alive" =>
      \/ s \in survived[c] /\ trouble[c] # {}
      \/ c \in Mutates /\ "cleanup" \in trouble[c]

(* When `run` has ended, the teardown of every target it started has been  *)
(* run, and of no other; `mutate` leaves some out only if it reports an    *)
(* error of its cleanup.                                                   *)
TeardownsTried ==
  \A c \in Commands : stage[c] = "done" =>
    /\ torn[c] \subseteq ready[c]
    /\ torn[c] = ready[c] \/ (c \in Mutates /\ "cleanup" \in trouble[c])

(* A `run` without an error had every server it started up for as long as  *)
(* the browser tested.                                                     *)
PassedServed ==
  \A c \in Commands \ Mutates : stage[c] = "done" /\ trouble[c] = {} => c \notin dipped

(* A server judged ready answers at its address itself for as long as its  *)
(* child lives, unless another took that address while it was starting, or *)
(* had it and did not answer the probe.                                    *)
OwnServer ==
  \A c \in Commands : \A s \in Range(started[c]) \ raced[c] :
    child[c][s] = "alive" => answers[s] = c
=============================================================================
