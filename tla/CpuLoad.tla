------------------------------ MODULE CpuLoad ------------------------------
(***************************************************************************)
(* The CPU load that the flag adHighCpu puts on the ad service: every      *)
(* getAds request (src/ad/.../AdService.java) gets the singleton of        *)
(* CPULoad.java and tells it what the flag says.  The singleton is made    *)
(* without a lock, and only the list of workers is guarded by one: the     *)
(* field running is tested and set outside.  The fields are read and       *)
(* written in the order of the program here; the memory model of Java      *)
(* would allow stale reads as well.                                        *)
(***************************************************************************)
EXTENDS Naturals

CONSTANTS Threads,      \* the threads that serve requests
          THREAD_COUNT, \* workers started at a time
          NoInstance

ASSUME LoadAssumption == THREAD_COUNT \in Nat \ {0} /\ NoInstance \notin Threads

\* A thread makes one instance at most, which is named after it.
VARIABLES adHighCpu,  \* the flag
          instance,   \* the static field
          running,    \* running[i]: the field of instance i
          load,       \* load[i]: its workers, all in runningWorkers
          pc,         \* pc[t]: what thread t does next
          cpuload     \* cpuload[t]: the instance its request works with

loadVars == <<adHighCpu, instance, running, load, pc, cpuload>>

LoadInit ==
    /\ adHighCpu \in BOOLEAN
    /\ instance = NoInstance
    /\ running = [i \in Threads |-> FALSE]
    /\ load = [i \in Threads |-> 0]
    /\ pc = [t \in Threads |-> "idle"]
    /\ cpuload = [t \in Threads |-> NoInstance]

GoTo(t, next) == pc' = [pc EXCEPT ![t] = next]

\* getAds, and if (instance == null).
Look(t) ==
    /\ pc[t] = "idle"
    /\ GoTo(t, IF instance = NoInstance THEN "create" ELSE "return")
    /\ UNCHANGED <<adHighCpu, instance, running, load, cpuload>>

\* instance = new CPULoad()
Create(t) ==
    /\ pc[t] = "create"
    /\ instance' = t
    /\ GoTo(t, "return")
    /\ UNCHANGED <<adHighCpu, running, load, cpuload>>

\* return instance: another one, if another thread has made one meanwhile.
ReturnInstance(t) ==
    /\ pc[t] = "return"
    /\ cpuload' = [cpuload EXCEPT ![t] = instance]
    /\ GoTo(t, "flag")
    /\ UNCHANGED <<adHighCpu, instance, running, load>>

\* Mutant: a request that finds the flag off leaves the workers alone.
ExecuteIfEnabled(t) ==
    /\ pc[t] = "flag"
    /\ GoTo(t, IF adHighCpu THEN "test" ELSE "idle")
    /\ UNCHANGED <<adHighCpu, instance, running, load, cpuload>>

\* execute(getBooleanValue(...))
Execute(t) ==
    /\ pc[t] = "flag"
    /\ GoTo(t, IF adHighCpu THEN "test" ELSE "clear")
    /\ UNCHANGED <<adHighCpu, instance, running, load, cpuload>>

\* if (!running)
Test(t) ==
    /\ pc[t] = "test"
    /\ GoTo(t, IF running[cpuload[t]] THEN "idle" ELSE "spawn")
    /\ UNCHANGED <<adHighCpu, instance, running, load, cpuload>>

\* Mutant: running is set first, and then the workers are started.
SpawnLast(t) ==
    /\ \/ /\ pc[t] = "spawn"
          /\ running' = [running EXCEPT ![cpuload[t]] = TRUE]
          /\ GoTo(t, "set")
          /\ UNCHANGED load
       \/ /\ pc[t] = "set"
          /\ load' = [load EXCEPT ![cpuload[t]] = @ + THREAD_COUNT]
          /\ GoTo(t, "idle")
          /\ UNCHANGED running
    /\ UNCHANGED <<adHighCpu, instance, cpuload>>

\* spawnLoadWorkers, one lock; and then running = true.
StartWorkers(t) ==
    /\ \/ /\ pc[t] = "spawn"
          /\ load' = [load EXCEPT ![cpuload[t]] = @ + THREAD_COUNT]
          /\ GoTo(t, "set")
          /\ UNCHANGED running
       \/ /\ pc[t] = "set"
          /\ running' = [running EXCEPT ![cpuload[t]] = TRUE]
          /\ GoTo(t, "idle")
          /\ UNCHANGED load
    /\ UNCHANGED <<adHighCpu, instance, cpuload>>

\* running = false
Clear(t) ==
    /\ pc[t] = "clear"
    /\ running' = [running EXCEPT ![cpuload[t]] = FALSE]
    /\ GoTo(t, "stop")
    /\ UNCHANGED <<adHighCpu, instance, load, cpuload>>

\* stopWorkers, one lock.
StopWorkers(t) ==
    /\ pc[t] = "stop"
    /\ load' = [load EXCEPT ![cpuload[t]] = 0]
    /\ GoTo(t, "idle")
    /\ UNCHANGED <<adHighCpu, instance, running, cpuload>>

Step(t) ==
    \/ Look(t) \/ Create(t) \/ ReturnInstance(t)
    \/ Execute(t) \/ Test(t) \/ StartWorkers(t) \/ Clear(t) \/ StopWorkers(t)

\* Somebody changes the flag.
Switch ==
    /\ adHighCpu' = ~adHighCpu
    /\ UNCHANGED <<instance, running, load, pc, cpuload>>

LoadNext == Switch \/ \E t \in Threads : Step(t)

\* Threads run on, and there is always another request: the pages of the shop
\* ask for ads, and the load generator for pages.
LoadSpec == LoadInit /\ [][LoadNext]_loadVars /\ \A t \in Threads : WF_loadVars(Step(t))

----------------------------------------------------------------------------
\* Whatever requests overlap, once none is under way the workers that are there
\* are those of an instance that knows they run: none is left behind by a start
\* that raced a stop.
IdleLoadIsKnown ==
    (\A t \in Threads : pc[t] = "idle") =>
        \A i \in Threads : load[i] > 0 => running[i]

\* CPULoad.java:42, "If disabled, it stops any running threads": once the flag
\* stays off, the workers stop in the end, but for those of an instance that
\* another one replaced, because two first requests both made theirs.
FlagOffStopsLoad ==
    <>[]~adHighCpu => <>[](\A i \in Threads : load[i] > 0 => i # instance)

=============================================================================
