-------------------------- MODULE AgentRunnerProofs ---------------------------
(***************************************************************************)
(* Theorems about AgentRunner: types, what the fingerprint tells, and that *)
(* without overlapping calls the runner holds every loop that runs.        *)
(***************************************************************************)
EXTENDS AgentRunner, TLAPS

-------------------------------------------------------------------------------
(* Types.                                                                  *)

\* A call that is over knows nothing, and the others what they did.
LEMMA LeavesTypes ==
  ASSUME RunnerTypeOK, NEW c \in Callers, NEW from, Leaves(c, from)
  PROVE  /\ pc' \in [Callers ->
                      {"idle", "setup", "draining", "tearing", "scanning", "listed", "ended"}]
         /\ held' \in [Callers -> Objects \cup {0}]
         /\ waits' \in [Callers -> Loops \cup {0}]
         /\ listed' \in [Callers -> Rows]
         /\ next' \in [Callers -> {"end", "drop", "rebuild"}]
<1>1. FirstRow \in Rows
  BY RunnerAssumption DEF FirstRow, Rows, Versions
<1> QED
  BY <1>1 DEF RunnerTypeOK, Leaves, Goto, Rest

\* Types of the registry, the agent, the loops and the calls.
THEOREM RunnerTypeCorrect == Spec => []RunnerTypeOK
<1> USE RunnerAssumption DEF Objects, Versions, Rows, FirstRow
<1>1. ASSUME Init PROVE RunnerTypeOK
  <2>1. clash \in BOOLEAN
    BY <1>1, Zenon DEF Init
  <2>2. registry \in Rows /\ schedule \in Schedules
    BY <1>1 DEF Init
  <2>3. agent \in Objects /\ config \in [Objects -> Versions \cup {0}]
    BY <1>1 DEF Init
  <2> QED
    BY <1>1, <2>1, <2>2, <2>3 DEF Init, RunnerTypeOK, Live
<1>2. RunnerTypeOK /\ [Next]_vars => RunnerTypeOK'
  <2> SUFFICES ASSUME RunnerTypeOK, [Next]_vars PROVE RunnerTypeOK'
    OBVIOUS
  <2> USE DEF RunnerTypeOK, Goto, Rest, Live, Busy, Clashes, rows, reg, loops, calls
  <2>1. ASSUME NEW c \in Callers, StartAgent(c) PROVE RunnerTypeOK'
    <3>1. clash' \in BOOLEAN
      BY <2>1, Zenon DEF StartAgent
    <3>2. held' \in [Callers -> Objects \cup {0}]
      <4>1. held' = held \/ held' = [held EXCEPT ![c] = agent]
        BY <2>1, Zenon DEF StartAgent
      <4> QED
        BY <4>1
    <3>3. pc' \in [Callers ->
                     {"idle", "setup", "draining", "tearing", "scanning", "listed", "ended"}]
      <4>1. pc' = [pc EXCEPT ![c] = "setup"] \/ pc' = [pc EXCEPT ![c] = "ended"]
        BY <2>1, Zenon DEF StartAgent
      <4> QED
        BY <4>1
    <3>4. /\ UNCHANGED <<rows, reg, loops, waits, listed, next>>
      BY <2>1, Zenon DEF StartAgent
    <3> QED
      BY <3>1, <3>2, <3>3, <3>4
  <2>2. ASSUME NEW c \in Callers, Started(c) PROVE RunnerTypeOK'
    <3>1. Leaves(c, "setup")
      BY <2>2 DEF Started
    <3> QED
      BY <2>2, <3>1, LeavesTypes DEF Started
  <2>3. ASSUME NEW c \in Callers, StopAgent(c) \/ HotStop(c) \/ WarmRestart(c)
        PROVE  RunnerTypeOK'
    <3>0. agent \in Objects
      BY <2>3 DEF StopAgent, HotStop, WarmRestart
    <3>1. PICK after \in {"end", "drop", "rebuild"} : Stops(c, after)
      BY <2>3, Zenon DEF StopAgent, HotStop, WarmRestart
    <3>2. /\ waits' \in [Callers -> Loops \cup {0}]
          /\ next' \in [Callers -> {"end", "drop", "rebuild"}]
      BY <3>1 DEF Stops
    <3>4. draining' \subseteq Objects
      <4>1. draining' = draining \/ draining' = draining \cup {agent}
        BY <3>1, Zenon DEF Stops
      <4> QED
        BY <3>0, <4>1
    <3>5. pc' \in [Callers ->
                     {"idle", "setup", "draining", "tearing", "scanning", "listed", "ended"}]
      <4>1. \/ pc' = [pc EXCEPT ![c] = "draining"]
            \/ pc' = [pc EXCEPT ![c] = "tearing"]
        BY <3>1, Zenon DEF Stops
      <4> QED
        BY <4>1
    <3>3. clash' \in BOOLEAN
      BY <3>1, Zenon DEF Stops
    <3> QED
      BY <2>3, <3>2, <3>3, <3>4, <3>5 DEF StopAgent, HotStop, WarmRestart
  <2>4. ASSUME NEW c \in Callers, Drained(c) \/ DrainTimeout(c) PROVE RunnerTypeOK'
    BY <2>4 DEF Drained, DrainTimeout
  <2>5. ASSUME NEW c \in Callers, Builds(c)
        PROVE  /\ agent' \in Objects /\ config' \in [Objects -> Versions \cup {0}]
               /\ fingerprint' \in Versions
               /\ held' \in [Callers -> Objects \cup {0}]
               /\ waits' \in [Callers -> Loops \cup {0}]
               /\ listed' \in [Callers -> Rows]
               /\ next' \in [Callers -> {"end", "drop", "rebuild"}]
               /\ pc' \in [Callers ->
                             {"idle", "setup", "draining", "tearing", "scanning", "listed", "ended"}]
    BY <2>5 DEF Builds
  <2>6. ASSUME NEW c \in Callers, Stopped(c) PROVE RunnerTypeOK'
    <3>1. CASE Builds(c)
      BY <2>5, <2>6, <3>1 DEF Stopped
    <3>2. CASE ~Builds(c)
      <4>1. Leaves(c, "tearing")
        BY <2>6, <3>2 DEF Stopped
      <4> QED
        BY <2>6, <3>2, <4>1, LeavesTypes DEF Stopped
    <3> QED
      BY <3>1, <3>2
  <2>7. ASSUME NEW c \in Callers, HotStart(c) PROVE RunnerTypeOK'
    <3>1. CASE Builds(c)
      BY <2>5, <2>7, <3>1 DEF HotStart
    <3>2. CASE ~Builds(c)
      <4>1. Leaves(c, "listed")
        BY <2>7, <3>2 DEF HotStart
      <4> QED
        BY <2>7, <3>2, <4>1, LeavesTypes DEF HotStart
    <3> QED
      BY <3>1, <3>2
  <2>8. ASSUME NEW c \in Callers, RunOnce(c) \/ RanOnce(c) \/ ListFails(c) PROVE RunnerTypeOK'
    BY <2>8 DEF RunOnce, RanOnce, ListFails, Scans
  <2>9. ASSUME NEW c \in Callers,
               ListActive(c) \/ Sync(c) \/ NothingToDo(c) \/ SetupFails(c) \/ DrainRaises(c)
        PROVE  RunnerTypeOK'
    <3>1. CASE ListActive(c)
      BY <3>1 DEF ListActive
    <3>2. CASE Sync(c)
      <4>1. Leaves(c, "listed")
        BY <3>2 DEF Sync
      <4> QED
        BY <3>2, <4>1, LeavesTypes DEF Sync
    <3>3. CASE NothingToDo(c) \/ SetupFails(c) \/ DrainRaises(c)
      <4>1. /\ \E from : Leaves(c, from)
            /\ UNCHANGED <<rows, reg, loops, clash>>
        BY <3>3, Zenon DEF NothingToDo, SetupFails, DrainRaises
      <4> QED
        BY <4>1, LeavesTypes
    <3> QED
      BY <2>9, <3>1, <3>2, <3>3
  <2>10. ASSUME NEW l \in Loops, LoopStep(l) PROVE RunnerTypeOK'
    BY <2>10 DEF LoopStep, Checks, Scanned, Wakes, Dies, Scans
  <2>11. CASE Patch
    BY <2>11 DEF Patch
  <2>12. CASE UNCHANGED vars
    BY <2>12 DEF vars
  <2> QED
    BY <2>1, <2>2, <2>3, <2>4, <2>6, <2>7, <2>8, <2>9, <2>10, <2>11, <2>12
    DEF Next, LifeStep, Reconciles
<1> QED
  BY <1>1, <1>2, PTL DEF Spec

-------------------------------------------------------------------------------
(* The fingerprint.                                                        *)

\* An agent built after boot has a fingerprint: without one, the next row seen would be
\* taken for the one it was built from.
BuiltHasFingerprint ==
  agent \notin {0, 1} => fingerprint = config[agent] /\ fingerprint # 0

\* The fingerprint is of the configuration the agent runs with (reconciliation with the
\* registry), whatever calls overlap.
THEOREM TheFingerprintTells == Spec => []FingerprintTells
<1>1. Init => BuiltHasFingerprint
  BY DEF Init, BuiltHasFingerprint
<1>2. RunnerTypeOK /\ BuiltHasFingerprint /\ [Next]_vars => BuiltHasFingerprint'
  <2> SUFFICES ASSUME RunnerTypeOK, BuiltHasFingerprint, [Next]_vars
               PROVE  BuiltHasFingerprint'
    OBVIOUS
  <2> USE DEF BuiltHasFingerprint, rows, reg, loops, calls
  <2>1. ASSUME NEW c \in Callers, Builds(c) PROVE BuiltHasFingerprint'
    BY <2>1, RunnerAssumption DEF Builds, RunnerTypeOK, Rows, Versions
  <2>2. ASSUME NEW c \in Callers, Stopped(c) PROVE BuiltHasFingerprint'
    BY <2>1, <2>2 DEF Stopped
  <2>3. ASSUME NEW c \in Callers, HotStart(c) PROVE BuiltHasFingerprint'
    BY <2>1, <2>3 DEF HotStart
  <2>4. ASSUME NEW c \in Callers, Sync(c) PROVE BuiltHasFingerprint'
    BY <2>4 DEF Sync, Changed
  <2>5. CASE UNCHANGED <<agent, config, fingerprint>>
    BY <2>5
  <2> QED
    BY <2>2, <2>3, <2>4, <2>5
    DEF Next, LifeStep, Reconciles, LoopStep, vars, StartAgent, Started, SetupFails, StopAgent,
        Drained, DrainRaises, DrainTimeout, Checks, Scanned, Wakes, Dies, RunOnce, RanOnce,
        Patch, ListActive, ListFails, HotStop, WarmRestart, NothingToDo
<1>3. BuiltHasFingerprint => FingerprintTells
  BY DEF BuiltHasFingerprint, FingerprintTells
<1> QED
  BY <1>1, <1>2, <1>3, RunnerTypeCorrect, PTL DEF Spec

-------------------------------------------------------------------------------
(* The loops.                                                              *)

NoneAlive == \A l \in Loops : ~Alive(l)

\* One call at most starts or stops the agent; what it holds is what the runner holds.
OneAtATime ==
  /\ \A c, d \in Callers : Busy(c) /\ Busy(d) => c = d
  /\ \A c \in Callers : pc[c] = "setup" => held[c] = agent /\ agent # 0 /\ NoneAlive
  /\ \A c \in Callers : pc[c] = "draining" => waits[c] = task /\ agent \in draining
  /\ \A c \in Callers : pc[c] = "tearing" => NoneAlive

\* What runs is the runner's, and the status says whether something does.
LoopsAreOwn ==
  /\ \A l \in Loops : Alive(l) => l = task /\ object[l] = agent /\ agent # 0
  /\ status = "stopped" => NoneAlive
  /\ status = "running" => agent \in draining \/ Died \/ ~NoneAlive

RunnerInv == clash \/ (OneAtATime /\ LoopsAreOwn)

\* An agent is stopped by nobody but the one call.
LEMMA StopsStep ==
  ASSUME RunnerTypeOK, OneAtATime, LoopsAreOwn, ~clash',
         NEW c \in Callers, NEW after, Stops(c, after), ~Busy(c),
         agent # 0, UNCHANGED <<agent, status, loops, held>>
  PROVE  OneAtATime' /\ LoopsAreOwn'
<1> USE DEF RunnerTypeOK, Busy, Alive, NoneAlive, Died, loops
<1>1. \A d \in Callers \ {c} : ~Busy(d) /\ pc'[d] = pc[d]
  BY DEF Stops, Clashes
<1>2. /\ \A d \in Callers \ {c} : waits'[d] = waits[d]
      /\ waits'[c] = task
  BY DEF Stops
<1>3. \/ pc'[c] = "draining" /\ draining' = draining \cup {agent}
      \/ pc'[c] = "tearing" /\ task = 0 /\ draining' = draining
  BY DEF Stops
<1>4. task = 0 => NoneAlive
  BY DEF LoopsAreOwn, Loops
<1>5. OneAtATime'
  BY <1>1, <1>2, <1>3, <1>4 DEF OneAtATime
<1>6. LoopsAreOwn'
  BY <1>3 DEF LoopsAreOwn
<1> QED
  BY <1>5, <1>6

\* A new object is built when nothing runs.
LEMMA BuildsStep ==
  ASSUME RunnerTypeOK, OneAtATime, NEW c \in Callers, Builds(c), NoneAlive, UNCHANGED loop,
         \A d \in Callers \ {c} : ~Busy(d), status' = "stopped"
  PROVE  OneAtATime' /\ LoopsAreOwn'
<1> USE DEF RunnerTypeOK, Busy, Alive, NoneAlive
<1>1. \A d \in Callers \ {c} : pc'[d] = pc[d] /\ held'[d] = held[d]
  BY DEF Builds
<1>2. pc'[c] = "setup" /\ held'[c] = agent' /\ agent' # 0
  BY DEF Builds, Objects
<1> QED
  BY <1>1, <1>2 DEF OneAtATime, LoopsAreOwn

LEMMA RunnerInvStep ==
  ASSUME RunnerTypeOK, RunnerInv, [Next]_vars PROVE RunnerInv'
<1> SUFFICES ASSUME ~clash' PROVE OneAtATime' /\ LoopsAreOwn'
  BY DEF RunnerInv
<1>0. clash => clash'
  BY DEF Next, LifeStep, Reconciles, LoopStep, vars, StartAgent, Started, SetupFails, StopAgent,
         Drained, DrainRaises, DrainTimeout, Stopped, Checks, Scanned, Wakes, Dies, RunOnce,
         RanOnce, Patch, ListActive, ListFails, HotStop, WarmRestart, Sync, HotStart, NothingToDo, Stops, Clashes
<1>1. OneAtATime /\ LoopsAreOwn
  BY <1>0 DEF RunnerInv
<1> USE <1>1 DEF RunnerTypeOK, Busy, Alive, Live, NoneAlive, Died, Leaves, Goto, Rest, reg, loops, calls
<1>2. ASSUME NEW c \in Callers, StartAgent(c) PROVE OneAtATime' /\ LoopsAreOwn'
  <2>1. CASE Starts
    <3>1. /\ \A d \in Callers \ {c} : ~Busy(d) /\ pc'[d] = pc[d] /\ held'[d] = held[d]
          /\ pc'[c] = "setup" /\ held'[c] = agent /\ agent # 0
      BY <1>2, <2>1 DEF StartAgent
    <3>2. NoneAlive
      BY <1>2, <2>1 DEF StartAgent, Starts, LoopsAreOwn
    <3> QED
      BY <1>2, <3>1, <3>2 DEF StartAgent, OneAtATime, LoopsAreOwn
  <2>2. CASE ~Starts
    BY <1>2, <2>2 DEF StartAgent, OneAtATime, LoopsAreOwn
  <2> QED
    BY <2>1, <2>2
<1>3. ASSUME NEW c \in Callers, Started(c) PROVE OneAtATime' /\ LoopsAreOwn'
  <2>1. /\ \A d \in Callers \ {c} : ~Busy(d) /\ pc'[d] = pc[d]
        /\ ~Busy(c)' /\ held[c] = agent /\ agent # 0 /\ NoneAlive
    BY <1>3 DEF Started, OneAtATime
  <2>2. PICK l \in Loops : /\ task' = l /\ loop' = [loop EXCEPT ![l] = "checking"]
                           /\ object' = [object EXCEPT ![l] = held[c]]
    BY <1>3 DEF Started
  <2>3. UNCHANGED <<agent, draining>> /\ status' = "running"
    BY <1>3 DEF Started
  <2>4. Alive(l)' /\ object'[l] = agent /\ \A k \in Loops \ {l} : ~Alive(k)'
    BY <2>1, <2>2
  <2> QED
    BY <2>1, <2>2, <2>3, <2>4 DEF OneAtATime, LoopsAreOwn
<1>4. ASSUME NEW c \in Callers, SetupFails(c) \/ RunOnce(c) \/ ListActive(c) \/ ListFails(c)
                                \/ Sync(c) \/ NothingToDo(c) \/ DrainRaises(c)
      PROVE  OneAtATime' /\ LoopsAreOwn'
  <2>1. UNCHANGED <<agent, draining, status, loops>>
    BY <1>4 DEF SetupFails, RunOnce, ListActive, ListFails, Sync, NothingToDo, DrainRaises
  <2>2. /\ ~Busy(c)'
        /\ \A d \in Callers \ {c} :
             pc'[d] = pc[d] /\ held'[d] = held[d] /\ waits'[d] = waits[d]
    BY <1>4 DEF SetupFails, RunOnce, ListActive, ListFails, Sync, NothingToDo, DrainRaises
  <2> QED
    BY <2>1, <2>2 DEF OneAtATime, LoopsAreOwn
<1>5. ASSUME NEW c \in Callers, RanOnce(c) PROVE OneAtATime' /\ LoopsAreOwn'
  <2>1. UNCHANGED <<agent, draining, loops, held, waits>> /\ status' \in {status, "error"}
    BY <1>5 DEF RanOnce, Scans
  <2>2. ~Busy(c)' /\ \A d \in Callers \ {c} : pc'[d] = pc[d]
    BY <1>5 DEF RanOnce
  <2> QED
    BY <2>1, <2>2 DEF OneAtATime, LoopsAreOwn
<1>6. ASSUME NEW c \in Callers, StopAgent(c) \/ HotStop(c) \/ WarmRestart(c)
      PROVE  OneAtATime' /\ LoopsAreOwn'
  <2>1. ~Busy(c) /\ agent # 0 /\ UNCHANGED <<agent, status, loops, held>>
    BY <1>6 DEF StopAgent, HotStop, WarmRestart
  <2>2. PICK after \in {"end", "drop", "rebuild"} : Stops(c, after)
    BY <1>6, Zenon DEF StopAgent, HotStop, WarmRestart
  <2> QED
    BY <2>1, <2>2, StopsStep
<1>7. ASSUME NEW c \in Callers, Drained(c) \/ DrainTimeout(c)
      PROVE  OneAtATime' /\ LoopsAreOwn'
  <2>1. /\ \A d \in Callers \ {c} : ~Busy(d) /\ pc'[d] = pc[d]
        /\ pc'[c] = "tearing" /\ waits[c] = task /\ agent \in draining
    BY <1>7 DEF Drained, DrainTimeout, OneAtATime
  <2>2. NoneAlive'
    BY <1>7, <2>1 DEF Drained, DrainTimeout, LoopsAreOwn
  <2>3. UNCHANGED <<agent, draining, status>>
    BY <1>7 DEF Drained, DrainTimeout
  <2> QED
    BY <2>1, <2>2, <2>3 DEF OneAtATime, LoopsAreOwn
<1>8. ASSUME NEW c \in Callers, Stopped(c) PROVE OneAtATime' /\ LoopsAreOwn'
  <2>1. (\A d \in Callers \ {c} : ~Busy(d)) /\ NoneAlive /\ UNCHANGED <<loops, draining>>
    BY <1>8 DEF Stopped, OneAtATime
  <2>2. status' = "stopped"
    BY <1>8 DEF Stopped
  <2>3. CASE Builds(c)
    BY <2>1, <2>2, <2>3, BuildsStep
  <2>4. CASE ~Builds(c)
    <3>1. ~Busy(c)' /\ \A d \in Callers \ {c} : pc'[d] = pc[d]
      BY <1>8, <2>4 DEF Stopped
    <3> QED
      BY <2>1, <2>2, <3>1 DEF OneAtATime, LoopsAreOwn
  <2> QED
    BY <2>3, <2>4
<1>9. ASSUME NEW c \in Callers, HotStart(c) PROVE OneAtATime' /\ LoopsAreOwn'
  <2>1. NoneAlive /\ UNCHANGED <<loops, draining>>
    BY <1>9 DEF HotStart, LoopsAreOwn
  <2>2. CASE listed[c].version \in Buildable
    <3>1. Builds(c) /\ status' = "stopped" /\ \A d \in Callers \ {c} : ~Busy(d)
      BY <1>9, <2>2 DEF HotStart, Clashes
    <3> QED
      BY <2>1, <3>1, BuildsStep
  <2>3. CASE listed[c].version \notin Buildable
    <3>1. /\ ~Busy(c)' /\ \A d \in Callers \ {c} : pc'[d] = pc[d]
          /\ \A d \in Callers \ {c} : held'[d] = held[d] /\ waits'[d] = waits[d]
          /\ UNCHANGED <<agent, status>>
      BY <1>9, <2>3 DEF HotStart
    <3> QED
      BY <2>1, <3>1 DEF OneAtATime, LoopsAreOwn
  <2> QED
    BY <2>2, <2>3
<1>10. ASSUME NEW l \in Loops, LoopStep(l) PROVE OneAtATime' /\ LoopsAreOwn'
  <2>1. /\ UNCHANGED <<agent, draining, task, object, pc, held, waits>>
        /\ status' \in {status, "error"}
    BY <1>10 DEF LoopStep, Checks, Scanned, Wakes, Dies, Scans
  <2>2. /\ Alive(l) /\ \A k \in Loops \ {l} : loop'[k] = loop[k]
        /\ Alive(l)' \/ object[l] \in draining \/ loop'[l] = "dead"
    BY <1>10 DEF LoopStep, Checks, Scanned, Wakes, Dies
  <2>3. l = task /\ task # 0 /\ object[l] = agent
    BY <2>2 DEF LoopsAreOwn, Loops
  <2>4. OneAtATime'
    BY <2>1, <2>2 DEF OneAtATime
  <2>5. LoopsAreOwn'
    BY <2>1, <2>2, <2>3 DEF LoopsAreOwn
  <2> QED
    BY <2>4, <2>5
<1>11. CASE Patch \/ UNCHANGED vars
  BY <1>11 DEF Patch, vars, OneAtATime, LoopsAreOwn
<1> QED
  BY <1>2, <1>3, <1>4, <1>5, <1>6, <1>7, <1>8, <1>9, <1>10, <1>11
  DEF Next, LifeStep, Reconciles

LEMMA RunnerInvHolds == Spec => []RunnerInv
<1>1. Init => RunnerInv
  BY DEF Init, RunnerInv, OneAtATime, LoopsAreOwn, NoneAlive, Alive, Live, Busy
<1>2. RunnerTypeOK /\ RunnerInv /\ [Next]_vars => RunnerInv'
  BY RunnerInvStep
<1> QED
  BY <1>1, <1>2, RunnerTypeCorrect, PTL DEF Spec

\* As long as no start, stop or reconciliation overlaps with another, and no failed agent
\* is started again, the runner can stop every loop that runs (start_agent, stop_agent).
THEOREM LoopsStayHeld == Spec => []LoopsAreHeld
<1>1. RunnerInv => LoopsAreHeld
  BY DEF RunnerInv, LoopsAreOwn, LoopsAreHeld
<1> QED
  BY <1>1, RunnerInvHolds, PTL

\* And the status tells whether a loop runs.
THEOREM TheStatusTells == Spec => []StatusTells
<1>1. RunnerInv => StatusTells
  BY DEF RunnerInv, LoopsAreOwn, NoneAlive, StatusTells
<1> QED
  BY <1>1, RunnerInvHolds, PTL

\* One call at a time starts or stops the agent.
OneBusy == \A c, d \in Callers : Busy(c) /\ Busy(d) => c = d

\* Where no scan fails and no two calls start or stop the agent at once, every loop that
\* runs is the runner's own, and the status tells: whatever else fails, times out or is
\* changed in the registry, the loops are lost by overlaps and failed agents alone.
THEOREM LoneCallsHoldLoops ==
  "scan" \notin Faults =>
    (Spec /\ []OneBusy =>
       []( /\ \A l \in Loops : Alive(l) => l = task /\ object[l] = agent
           /\ Quiet /\ status = "stopped" => \A l \in Loops : ~Alive(l)))
<1> SUFFICES ASSUME "scan" \notin Faults
             PROVE  Spec /\ []OneBusy =>
                      []( /\ \A l \in Loops : Alive(l) => l = task /\ object[l] = agent
                          /\ Quiet /\ status = "stopped" => \A l \in Loops : ~Alive(l))
  OBVIOUS
<1> DEFINE Sound == ~clash /\ status # "error"
<1>1. Init => Sound
  BY Zenon DEF Init
<1>2. RunnerTypeOK /\ Sound /\ OneBusy' /\ [Next]_vars => Sound'
  <2> SUFFICES ASSUME RunnerTypeOK, Sound, OneBusy', [Next]_vars PROVE Sound'
    OBVIOUS
  <2> USE DEF RunnerTypeOK, Busy, Goto, Leaves, reg
  <2>1. ASSUME NEW c \in Callers, StartAgent(c) PROVE Sound'
    <3>1. UNCHANGED status
      BY <2>1 DEF StartAgent
    <3>2. CASE Starts
      <4>1. Busy(c)' /\ \A d \in Callers \ {c} : pc'[d] = pc[d]
        BY <2>1, <3>2 DEF StartAgent
      <4>2. ~ \E d \in Callers \ {c} : Busy(d)
        BY <4>1 DEF OneBusy
      <4> QED
        BY <2>1, <3>1, <3>2, <4>2, Zenon DEF StartAgent
    <3>3. CASE ~Starts
      BY <2>1, <3>1, <3>3, Zenon DEF StartAgent
    <3> QED
      BY <3>2, <3>3
  <2>2. ASSUME NEW c \in Callers, NEW after, Stops(c, after), UNCHANGED status PROVE Sound'
    <3>1. Busy(c)' /\ \A d \in Callers \ {c} : pc'[d] = pc[d]
      BY <2>2 DEF Stops
    <3>2. ~ \E d \in Callers \ {c} : Busy(d)
      BY <3>1 DEF OneBusy
    <3> QED
      BY <2>2, <3>2, Zenon DEF Stops, Clashes
  <2>3. ASSUME NEW c \in Callers, HotStart(c) PROVE Sound'
    <3>1. CASE listed[c].version \in Buildable
      <4>1. Builds(c) /\ status' = "stopped" /\ Clashes(c)
        BY <2>3, <3>1 DEF HotStart
      <4>2. Busy(c)' /\ \A d \in Callers \ {c} : pc'[d] = pc[d]
        BY <4>1 DEF Builds
      <4>3. ~ \E d \in Callers \ {c} : Busy(d)
        BY <4>2 DEF OneBusy
      <4> QED
        BY <4>1, <4>3, Zenon DEF Clashes
    <3>2. CASE listed[c].version \notin Buildable
      BY <2>3, <3>2 DEF HotStart
    <3> QED
      BY <3>1, <3>2
  <2>4. ASSUME NEW c \in Callers, StopAgent(c) \/ HotStop(c) \/ WarmRestart(c) PROVE Sound'
    <3>1. \E after : Stops(c, after) /\ UNCHANGED status
      BY <2>4, Zenon DEF StopAgent, HotStop, WarmRestart
    <3> QED
      BY <2>2, <3>1
  <2>5. ASSUME NEW c \in Callers, RanOnce(c) PROVE Sound'
    BY <2>5 DEF RanOnce, Scans
  <2>6. ASSUME NEW l \in Loops, LoopStep(l) PROVE Sound'
    BY <2>6 DEF LoopStep, Checks, Scanned, Wakes, Dies, Scans
  <2>7. ASSUME NEW c \in Callers,
               LifeStep(c) \/ RunOnce(c) \/ ListActive(c) \/ Sync(c) \/ NothingToDo(c) \/ ListFails(c)
        PROVE  Sound'
    <3>1. clash' = clash /\ status' \in {status, "running", "stopped"}
      BY <2>7 DEF LifeStep, RunOnce, ListActive, Sync, NothingToDo, ListFails, Started,
                  SetupFails, Drained, DrainRaises, DrainTimeout, Stopped
    <3> QED
      BY <3>1
  <2>8. CASE Patch \/ UNCHANGED vars
    BY <2>8 DEF Patch, vars
  <2> QED
    BY <2>1, <2>3, <2>4, <2>5, <2>6, <2>7, <2>8 DEF Next, Reconciles
<1>3. Sound /\ LoopsAreHeld /\ StatusTells =>
        /\ \A l \in Loops : Alive(l) => l = task /\ object[l] = agent
        /\ Quiet /\ status = "stopped" => \A l \in Loops : ~Alive(l)
  BY DEF LoopsAreHeld, StatusTells
<1> QED
  BY <1>1, <1>2, <1>3, RunnerTypeCorrect, LoopsStayHeld, TheStatusTells, PTL DEF Spec

===============================================================================
