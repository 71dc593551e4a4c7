----------------------------- MODULE AgentRunner -----------------------------
(***************************************************************************)
(* The life of one agent in AgentRunner (src/trading/agents/runner.py):    *)
(* its scan loop, the requests that start, stop and scan it                *)
(* (src/trading/api/routes/agents.py), and the reconciliation with the     *)
(* registry, by the polling loop and by POST /agents/sync.                 *)
(*                                                                         *)
(* An agent is an object, built from a version of its row in the registry; *)
(* a loop is a task over one object.  A started object may have several    *)
(* loops, of which the runner remembers the last.  What a scan does is a   *)
(* single stage here; OpportunityRouter is what its opportunities go       *)
(* through.  Nothing validates the schedule in the registry: a loop can    *)
(* die of it.                                                              *)
(***************************************************************************)
EXTENDS Naturals

CONSTANTS
  Calls,      \* requests to start, to stop, to scan or to sync
  Poller,     \* the polling loop
  LastVersion,  \* the registry holds configurations 1..LastVersion: a bound
  Buildable,  \* those an agent can be instantiated from
  BadCron,      \* those whose parameters.cron croniter may refuse
  BadInterval,  \* those whose interval may be no number
  MaxObjects, MaxLoops,  \* bounds of the model: objects built, loops created
  Faults      \* what may go wrong

Versions == 1..LastVersion

ASSUME RunnerAssumption ==
  /\ Poller \notin Calls
  /\ LastVersion \in Nat \ {0}
  /\ 1 \in Buildable /\ Buildable \subseteq 1..LastVersion
  /\ BadCron \subseteq Versions /\ BadInterval \subseteq Versions
  /\ MaxObjects \in Nat \ {0} /\ MaxLoops \in Nat \ {0}
  /\ Faults \subseteq {"setup", "scan", "slow", "list"}

Objects == 1..MaxObjects
Loops == 1..MaxLoops
Callers == Calls \cup {Poller}

VARIABLES
  registry,     \* the agent's row: active or dormant, and its version
  schedule,     \* what is wrong with the schedule of a version
  agent,        \* _agents: the object, or 0
  config,       \* the version an object was built from, or 0
  draining,     \* objects with _draining
  status,       \* _status
  fingerprint,  \* _registry_configs: the version last seen, or 0
  task,         \* _tasks: the loop, or 0
  loop,         \* where a loop stands: "ended" it has returned, "dead" it has raised
  object,       \* the object it scans with
  pc,           \* where a call stands
  held,         \* the object a call starts
  waits,        \* the loop it waits for
  listed,       \* the row as a reconciliation has listed it
  next,         \* what a call does once the agent has stopped
  clash         \* history: the runner lost sight of a loop

rows == <<registry, schedule>>
reg == <<agent, config, draining, status, fingerprint>>
loops == <<task, loop, object>>
calls == <<pc, held, waits, listed, next>>
vars == <<rows, reg, loops, calls, clash>>

Rows == [active : BOOLEAN, version : Versions]
Schedules ==
  {f \in [Versions -> {"sound", "cron", "interval"}] : \A v \in Versions :
     (f[v] = "cron" => v \in BadCron) /\ (f[v] = "interval" => v \in BadInterval)}
FirstRow == [active |-> TRUE, version |-> 1]
Live == {"checking", "scanning", "waiting"}

RunnerTypeOK ==
  /\ registry \in Rows /\ schedule \in Schedules
  /\ agent \in Objects \cup {0}
  /\ config \in [Objects -> Versions \cup {0}]
  /\ draining \subseteq Objects
  /\ status \in {"stopped", "running", "error"}
  /\ fingerprint \in Versions \cup {0}
  /\ task \in Loops \cup {0}
  /\ loop \in [Loops -> Live \cup {"none", "ended", "dead"}]
  /\ object \in [Loops -> Objects \cup {0}]
  /\ pc \in [Callers -> {"idle", "setup", "draining", "tearing", "scanning", "listed", "ended"}]
  /\ held \in [Callers -> Objects \cup {0}]
  /\ waits \in [Callers -> Loops \cup {0}]
  /\ listed \in [Callers -> Rows]
  /\ next \in [Callers -> {"end", "drop", "rebuild"}]
  /\ clash \in BOOLEAN

\* The agent is registered at boot from version 1, and not started yet.
Init ==
  /\ registry = FirstRow /\ schedule \in Schedules
  /\ agent = 1 /\ config = [o \in Objects |-> IF o = 1 THEN 1 ELSE 0]
  /\ draining = {} /\ status = "stopped" /\ fingerprint = 0
  /\ task = 0
  /\ loop = [l \in Loops |-> "none"] /\ object = [l \in Loops |-> 0]
  /\ pc = [c \in Callers |-> "idle"]
  /\ held = [c \in Callers |-> 0] /\ waits = [c \in Callers |-> 0]
  /\ listed = [c \in Callers |-> FirstRow]
  /\ next = [c \in Callers |-> "end"]
  /\ clash = FALSE

Goto(c, from, to) == pc[c] = from /\ pc' = [pc EXCEPT ![c] = to]
Rest(c) == IF c = Poller THEN "idle" ELSE "ended"

\* A call is over, with all it knew.
Leaves(c, from) ==
  /\ Goto(c, from, Rest(c))
  /\ held' = [held EXCEPT ![c] = 0] /\ waits' = [waits EXCEPT ![c] = 0]
  /\ listed' = [listed EXCEPT ![c] = FirstRow] /\ next' = [next EXCEPT ![c] = "end"]

Busy(c) == pc[c] \in {"setup", "draining", "tearing"}
Alive(l) == loop[l] \in Live

\* A call that starts or stops the agent while another does.
Clashes(c) == clash' = (clash \/ \E d \in Callers \ {c} : Busy(d))

-------------------------------------------------------------------------------
(* Starting.                                                               *)

\* Mutant: an agent that failed counts as stopped, and one that runs too.
StartsMutant == TRUE

\* An agent in ERROR is started again, although its loop goes on.
Starts == status # "running"

\* start_agent up to the await of setup.
StartAgent(c) ==
  /\ c \in Calls /\ agent # 0
  /\ IF Starts
     THEN /\ Goto(c, "idle", "setup")
          /\ held' = [held EXCEPT ![c] = agent]
          /\ clash' = (clash \/ (\E d \in Callers \ {c} : Busy(d))
                             \/ (status = "error" /\ \E l \in Loops : Alive(l)))
     ELSE Goto(c, "idle", "ended") /\ UNCHANGED <<held, clash>>
  /\ UNCHANGED <<rows, reg, loops, waits, listed, next>>

\* The loop it creates takes the place of any other in _tasks.
Started(c) ==
  /\ Leaves(c, "setup")
  /\ status' = "running"
  /\ \E l \in Loops :
       /\ loop[l] = "none" /\ \A k \in Loops : loop[k] = "none" => l <= k
       /\ task' = l
       /\ loop' = [loop EXCEPT ![l] = "checking"]
       /\ object' = [object EXCEPT ![l] = held[c]]
  /\ UNCHANGED <<rows, agent, config, draining, fingerprint, clash>>

SetupFails(c) ==
  /\ "setup" \in Faults
  /\ Leaves(c, "setup")
  /\ UNCHANGED <<rows, reg, loops, clash>>

-------------------------------------------------------------------------------
(* Stopping.                                                               *)

\* stop_agent up to its first await.
Stops(c, after) ==
  /\ waits' = [waits EXCEPT ![c] = task]
  /\ next' = [next EXCEPT ![c] = after]
  /\ IF task # 0 THEN pc' = [pc EXCEPT ![c] = "draining"] /\ draining' = draining \cup {agent}
     ELSE pc' = [pc EXCEPT ![c] = "tearing"] /\ UNCHANGED draining
  /\ Clashes(c)

StopAgent(c) ==
  /\ c \in Calls /\ pc[c] = "idle" /\ agent # 0
  /\ Stops(c, "end")
  /\ UNCHANGED <<rows, agent, config, status, fingerprint, loops, held, listed>>

\* The loop has come to its end: whatever loop _tasks holds by now is popped.
Drained(c) ==
  /\ pc[c] = "draining" /\ loop[waits[c]] = "ended"
  /\ Goto(c, "draining", "tearing")
  /\ task' = 0 /\ waits' = [waits EXCEPT ![c] = 0]
  /\ UNCHANGED <<rows, reg, loop, object, held, listed, next, clash>>

\* What the loop has raised is raised again by the await of its task, past the handler:
\* the loop stays in _tasks, and the call ends with an error.
DrainRaises(c) ==
  /\ Leaves(c, "draining")
  /\ loop[waits[c]] = "dead"
  /\ UNCHANGED <<rows, reg, loops, clash>>

\* It has not within 30 seconds, and is cancelled, scan and all.
DrainTimeout(c) ==
  /\ "slow" \in Faults
  /\ pc[c] = "draining" /\ Alive(waits[c])
  /\ Goto(c, "draining", "tearing")
  /\ loop' = [loop EXCEPT ![waits[c]] = "ended"]
  /\ task' = 0 /\ waits' = [waits EXCEPT ![c] = 0]
  /\ UNCHANGED <<rows, reg, object, held, listed, next, clash>>

\* A new object takes the place of the old one, and is started.
Builds(c) ==
  \E o \in Objects :
    /\ config[o] = 0 /\ \A p \in Objects : config[p] = 0 => o <= p
    /\ agent' = o
    /\ config' = [config EXCEPT ![o] = listed[c].version]
    /\ fingerprint' = listed[c].version
    /\ held' = [held EXCEPT ![c] = o] /\ waits' = [waits EXCEPT ![c] = 0]
    /\ listed' = [listed EXCEPT ![c] = FirstRow] /\ next' = [next EXCEPT ![c] = "end"]
    /\ pc' = [pc EXCEPT ![c] = "setup"]

\* Teardown is over.
Stopped(c) ==
  /\ pc[c] = "tearing"
  /\ status' = "stopped"
  /\ \/ /\ next[c] = "end"
        /\ Leaves(c, "tearing")
        /\ UNCHANGED <<agent, config, fingerprint>>
     \/ /\ next[c] = "drop"
        /\ agent' = 0
        /\ fingerprint' = IF agent = 0 THEN fingerprint ELSE 0
        /\ Leaves(c, "tearing")
        /\ UNCHANGED config
     \/ /\ next[c] = "rebuild" /\ agent # 0 /\ listed[c].version \in Buildable
        /\ Builds(c)
     \/ /\ next[c] = "rebuild" /\ (agent = 0 \/ listed[c].version \notin Buildable)
        /\ agent' = 0
        /\ Leaves(c, "tearing")
        /\ UNCHANGED <<config, fingerprint>>
  /\ UNCHANGED <<rows, draining, loops, clash>>

-------------------------------------------------------------------------------
(* The loop.                                                               *)

\* A scan may leave the agent in ERROR.
Scans == status' \in {status} \cup IF "scan" \in Faults THEN {"error"} ELSE {}

Schedule(l) == schedule[config[object[l]]]

Checks(l) ==
  /\ loop[l] = "checking" /\ Schedule(l) # "cron"
  /\ loop' = [loop EXCEPT ![l] = IF object[l] \in draining THEN "ended" ELSE "scanning"]
  /\ UNCHANGED <<rows, reg, task, object, calls, clash>>

\* The wait is for the whole interval: nobody sets _drain_event.
Scanned(l) ==
  /\ loop[l] = "scanning"
  /\ \/ object[l] \in draining /\ loop' = [loop EXCEPT ![l] = "ended"]
     \/ /\ object[l] \notin draining /\ Schedule(l) # "interval"
        /\ loop' = [loop EXCEPT ![l] = "waiting"]
  /\ Scans
  /\ UNCHANGED <<rows, agent, config, draining, fingerprint, task, object, calls, clash>>

\* croniter raises before the loop checks anything, and the wait for an interval that is
\* no number after the first scan; nobody looks at what the task has raised.
Dies(l) ==
  /\ \/ loop[l] = "checking" /\ Schedule(l) = "cron" /\ UNCHANGED status
     \/ /\ loop[l] = "scanning" /\ object[l] \notin draining /\ Schedule(l) = "interval"
        /\ Scans
  /\ loop' = [loop EXCEPT ![l] = "dead"]
  /\ UNCHANGED <<rows, agent, config, draining, fingerprint, task, object, calls, clash>>

Wakes(l) ==
  /\ loop[l] = "waiting"
  /\ loop' = [loop EXCEPT ![l] = "checking"]
  /\ UNCHANGED <<rows, reg, task, object, calls, clash>>

-------------------------------------------------------------------------------
(* A single scan by request, beside whatever the loop does.                *)

RunOnce(c) ==
  /\ c \in Calls /\ agent # 0
  /\ Goto(c, "idle", "scanning")
  /\ UNCHANGED <<rows, reg, loops, held, waits, listed, next, clash>>

RanOnce(c) ==
  /\ Goto(c, "scanning", "ended")
  /\ Scans
  /\ UNCHANGED <<rows, agent, config, draining, fingerprint, loops, held, waits, listed, next, clash>>

-------------------------------------------------------------------------------
(* The registry and its reconciliation.                                    *)

\* PATCH /agents/{name}, the tuner, promotions: to a version not used before.
Patch ==
  /\ \E v \in Versions :
       /\ v = registry.version + 1
       /\ \E on \in BOOLEAN : registry' = [active |-> on, version |-> v]
  /\ UNCHANGED <<schedule, reg, loops, calls, clash>>

ListActive(c) ==
  /\ Goto(c, "idle", "listed")
  /\ listed' = [listed EXCEPT ![c] = registry]
  /\ UNCHANGED <<rows, reg, loops, held, waits, next, clash>>

\* It is logged, or answered with 500.
ListFails(c) ==
  /\ "list" \in Faults
  /\ c \in Calls /\ Goto(c, "idle", "ended")
  /\ UNCHANGED <<rows, reg, loops, held, waits, listed, next, clash>>

\* Mutant: an agent that is no longer active is stopped, and stays in _agents.
HotStopMutant(c) ==
  /\ pc[c] = "listed" /\ agent # 0 /\ ~listed[c].active
  /\ Stops(c, "end")
  /\ UNCHANGED <<rows, agent, config, status, fingerprint, loops, held, listed>>

HotStop(c) ==
  /\ pc[c] = "listed" /\ agent # 0 /\ ~listed[c].active
  /\ Stops(c, "drop")
  /\ UNCHANGED <<rows, agent, config, status, fingerprint, loops, held, listed>>

Changed(c) == fingerprint # 0 /\ fingerprint # listed[c].version

WarmRestart(c) ==
  /\ pc[c] = "listed" /\ agent # 0 /\ listed[c].active /\ Changed(c)
  /\ Stops(c, "rebuild")
  /\ UNCHANGED <<rows, agent, config, status, fingerprint, loops, held, listed>>

\* Mutant: what was listed becomes the fingerprint whatever the agent was built from.
SyncMutant(c) ==
  /\ agent # 0 /\ listed[c].active
  /\ Leaves(c, "listed")
  /\ fingerprint' = listed[c].version
  /\ UNCHANGED <<rows, agent, config, draining, status, loops, clash>>

\* The first row seen is taken for the one the agent was built from.
Sync(c) ==
  /\ agent # 0 /\ listed[c].active /\ ~Changed(c)
  /\ Leaves(c, "listed")
  /\ fingerprint' = listed[c].version
  /\ UNCHANGED <<rows, agent, config, draining, status, loops, clash>>

HotStart(c) ==
  /\ pc[c] = "listed" /\ agent = 0 /\ listed[c].active
  /\ IF listed[c].version \in Buildable
     THEN Builds(c) /\ status' = "stopped" /\ Clashes(c)
     ELSE Leaves(c, "listed") /\ UNCHANGED <<agent, config, status, fingerprint, clash>>
  /\ UNCHANGED <<rows, draining, loops>>

NothingToDo(c) ==
  /\ agent = 0 /\ ~listed[c].active
  /\ Leaves(c, "listed")
  /\ UNCHANGED <<rows, reg, loops, clash>>

-------------------------------------------------------------------------------

LifeStep(c) ==
  \/ Started(c) \/ SetupFails(c) \/ Drained(c) \/ DrainRaises(c) \/ DrainTimeout(c)
  \/ Stopped(c)
Reconciles(c) ==
  \/ ListActive(c) \/ HotStop(c) \/ WarmRestart(c) \/ Sync(c) \/ HotStart(c)
  \/ NothingToDo(c)
LoopStep(l) == Checks(l) \/ Scanned(l) \/ Wakes(l) \/ Dies(l)

Next ==
  \/ \E c \in Callers :
       \/ StartAgent(c) \/ StopAgent(c) \/ RunOnce(c) \/ RanOnce(c)
       \/ LifeStep(c) \/ Reconciles(c) \/ ListFails(c)
  \/ \E l \in Loops : LoopStep(l)
  \/ Patch

Spec == Init /\ [][Next]_vars

\* The polling loop goes on, setup and teardown return, and loops run.
FairSpec ==
  /\ Spec
  /\ \A c \in Callers : WF_vars(LifeStep(c))
  /\ WF_vars(Reconciles(Poller))
  /\ \A l \in Loops : WF_vars(LoopStep(l))

-------------------------------------------------------------------------------
(* Properties.                                                             *)

Quiet == \A c \in Callers : ~Busy(c)

\* As long as starts, stops and reconciliations do not overlap, and no agent that failed
\* is started again, the runner can stop every loop that runs: there is one at most, it
\* is the one in _tasks, of the agent's own object.
LoopsAreHeld ==
  clash \/ \A l \in Loops : Alive(l) => l = task /\ object[l] = agent

\* The loop the runner knows has raised.
Died == task # 0 /\ loop[task] = "dead"

\* And the status tells: no loop goes on in a stopped agent, and there is one in a
\* running agent, but for one that was stopped before (its object stays draining), and
\* one whose loop has died: it is called running for ever.
StatusTells ==
  ~clash /\ Quiet =>
    /\ status = "stopped" => \A l \in Loops : ~Alive(l)
    /\ status = "running" => agent \in draining \/ Died \/ \E l \in Loops : Alive(l)

\* The fingerprint is of the configuration the agent runs with, but for the object
\* registered at boot, whatever overlaps.
FingerprintTells == agent \notin {0, 1} /\ fingerprint # 0 => fingerprint = config[agent]

\* A change in the registry is taken in the end: the agent is gone, or it runs by the
\* row, as far as the runner can tell; but for an agent whose loop has died, which no
\* stop gets rid of.
ChangesAreTaken ==
  <>[](\/ Died
       \/ IF registry.active THEN agent # 0 => fingerprint = registry.version ELSE agent = 0)

===============================================================================
