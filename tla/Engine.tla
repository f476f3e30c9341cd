------------------------------- MODULE Engine -------------------------------
(***************************************************************************)
(* ExecutionEngine::execute (explorator-core/src/engine.rs): one call of   *)
(* execute with one pipeline and one seed.                                 *)
(*                                                                         *)
(* The caller's task checks the pipeline, spawns one tokio task per stage  *)
(* and then joins them.  A stage task waits until the stages it depends on *)
(* have broadcast on their watch channel, takes a permit of the semaphore  *)
(* that bounds concurrency, runs its plugin with a timeout and retries,    *)
(* broadcasts what it found, gives the permit back and ends.               *)
(*                                                                         *)
(* The plugin is the environment: an attempt may answer with entities or   *)
(* with an error, may never answer, and may panic.                         *)
(***************************************************************************)
EXTENDS Pipeline

CONSTANTS
  Pipelines,   \* the pipelines execute may be called with
  Entities,    \* the entities plugins and users can name
  Seed,        \* the seed entities
  Outputs,     \* the entity sets an attempt may answer with
  NotSent      \* the None a stage's watch channel starts with

ASSUME PipelinesAssumption == Pipelines \subseteq PipelineDef
ASSUME EntitiesAssumption  == Seed \subseteq Entities /\ Outputs \subseteq SUBSET Entities
ASSUME NotSentAssumption   == NotSent \notin SUBSET Entities

VARIABLES
  pipe,        \* the argument of the call; never changes
  phase,       \* where execute itself is
  pc,          \* pc[i]: where the task of stage i is
  attempt,     \* attempt[i]: run_with_retry's counter
  input,       \* input[i]: the input entities the task took
  output,      \* output[i]: the entities of the outcome the task returns
  result,      \* result[i]: whether the task ended, and how
  channel,     \* channel[n]: the value in the watch channel of stage n
  permits,     \* free permits of the semaphore
  graph,       \* the entities merged so far
  firstError   \* the stage whose error is kept, 0 for none

vars == << pipe, phase, pc, attempt, input, output, result, channel, permits,
           graph, firstError >>

-----------------------------------------------------------------------------

Tasks    == DOMAIN pipe.stages
Stage(i) == pipe.stages[i]

\* Mutant of MaxAttempts: the first attempt counts as a retry.
RetriesOnly(stage) == stage.retries

\* stage.retries + 1 in u32 arithmetic; a release build wraps.
MaxAttempts(stage) == (stage.retries + 1) % U32

\* Mutant of Awaited: depends_on is forgotten.
AwaitedInput(stage) == {stage.input} \ {SEED_INPUT}

\* The channels a task waits on: extra_dep_rxs, then input_rx.
Awaited(stage) ==
  (stage.depends_on \ {stage.input}) \cup ({stage.input} \ {SEED_INPUT})

Sent(n) == channel[n] # NotSent

Holding    == {"running", "hung", "backoff", "sent"}
Holders    == {i \in Tasks : pc[i] \in Holding}
TasksAlive == phase \in {"spawning", "joining"}
Ended      == phase \in {"ok", "err", "rejected", "panicked"}

-----------------------------------------------------------------------------

Init ==
  /\ pipe \in Pipelines
  /\ phase = "called"
  /\ pc = [i \in Tasks |-> "unspawned"]
  /\ attempt = [i \in Tasks |-> 0]
  /\ input = [i \in Tasks |-> {}]
  /\ output = [i \in Tasks |-> {}]
  /\ result = [i \in Tasks |-> "none"]
  /\ channel = [n \in Names(pipe) |-> NotSent]
  /\ permits = Limit(pipe)
  /\ graph = {}
  /\ firstError = 0

\* Preflight: validate, look every plugin up, assert_acyclic.
Admit ==
  /\ phase = "called"
  /\ Accepted(pipe)
  /\ phase' = "spawning"
  /\ UNCHANGED << pipe, pc, attempt, input, output, result, channel, permits,
                  graph, firstError >>

Reject ==
  /\ phase = "called"
  /\ ~ Accepted(pipe)
  /\ phase' = "rejected"
  /\ UNCHANGED << pipe, pc, attempt, input, output, result, channel, permits,
                  graph, firstError >>

\* The spawn loop takes the stages in the order of the file.
NextToSpawn(i) ==
  /\ phase = "spawning"
  /\ pc[i] = "unspawned"
  /\ \A j \in 1 .. i - 1 : pc[j] # "unspawned"

Spawn(i) ==
  /\ NextToSpawn(i)
  /\ Awaited(Stage(i)) \subseteq Names(pipe)
  /\ pc' = [pc EXCEPT ![i] = "waiting"]
  /\ UNCHANGED << pipe, phase, attempt, input, output, result, channel,
                  permits, graph, firstError >>

\* channels.get(d).expect("validated dependency") finds no channel: execute
\* panics, and dropping the JoinSet aborts the tasks spawned so far.
SpawnPanics(i) ==
  /\ NextToSpawn(i)
  /\ ~ (Awaited(Stage(i)) \subseteq Names(pipe))
  /\ phase' = "panicked"
  /\ UNCHANGED << pipe, pc, attempt, input, output, result, channel, permits,
                  graph, firstError >>

StartJoining ==
  /\ phase = "spawning"
  /\ \A i \in Tasks : pc[i] # "unspawned"
  /\ phase' = "joining"
  /\ graph' = Seed
  /\ UNCHANGED << pipe, pc, attempt, input, output, result, channel, permits,
                  firstError >>

-----------------------------------------------------------------------------

\* Mutant of AwaitDependencies: the input channel is read as it is, without
\* waiting for it.
BorrowInput(i) ==
  /\ TasksAlive
  /\ pc[i] = "waiting"
  /\ \A n \in Stage(i).depends_on \ {Stage(i).input} : Sent(n)
  /\ pc' = [pc EXCEPT ![i] = "acquiring"]
  /\ input' = [input EXCEPT ![i] = IF Stage(i).input = SEED_INPUT
                                   THEN Seed
                                   ELSE IF Sent(Stage(i).input)
                                        THEN channel[Stage(i).input]
                                        ELSE {}]
  /\ UNCHANGED << pipe, phase, attempt, output, result, channel, permits,
                  graph, firstError >>

\* wait_for_stage on each awaited channel.  A channel that holds a value
\* keeps it, so the waits are one step, taken when the last one is over.
AwaitDependencies(i) ==
  /\ TasksAlive
  /\ pc[i] = "waiting"
  /\ \A n \in Awaited(Stage(i)) : Sent(n)
  /\ pc' = [pc EXCEPT ![i] = "acquiring"]
  /\ input' = [input EXCEPT ![i] = IF Stage(i).input = SEED_INPUT
                                   THEN Seed
                                   ELSE channel[Stage(i).input]]
  /\ UNCHANGED << pipe, phase, attempt, output, result, channel, permits,
                  graph, firstError >>

\* acquire_owned, then registry.get: the `?` after it would end the task
\* without a broadcast, handing the permit straight back.
StartPlugin(i) ==
  /\ TasksAlive
  /\ pc[i] = "acquiring"
  /\ permits > 0
  /\ IF Stage(i).plugin \in Registry
     THEN /\ pc' = [pc EXCEPT ![i] = "running"]
          /\ attempt' = [attempt EXCEPT ![i] = 1]
          /\ permits' = permits - 1
          /\ UNCHANGED result
     ELSE /\ pc' = [pc EXCEPT ![i] = "done"]
          /\ result' = [result EXCEPT ![i] = "err"]
          /\ UNCHANGED << attempt, permits >>
  /\ UNCHANGED << pipe, phase, input, output, channel, graph, firstError >>

\* tx.send(Some(found)) in the channel of stage i.
Broadcast(i, found) ==
  channel' = [channel EXCEPT ![Stage(i).name] = found]

PluginOk(i) ==
  /\ TasksAlive
  /\ pc[i] = "running"
  /\ \E found \in Outputs :
       /\ output' = [output EXCEPT ![i] = found]
       /\ Broadcast(i, found)
  /\ result' = [result EXCEPT ![i] = "ok"]
  /\ pc' = [pc EXCEPT ![i] = "sent"]
  /\ UNCHANGED << pipe, phase, attempt, input, permits, graph, firstError >>

\* Mutant of AttemptFails: no broadcast when the stage gives up.
GiveUpSilently(i) ==
  /\ IF attempt[i] < MaxAttempts(Stage(i))
     THEN pc' = [pc EXCEPT ![i] = "backoff"] /\ UNCHANGED result
     ELSE /\ pc' = [pc EXCEPT ![i] = "sent"]
          /\ result' = [result EXCEPT ![i] = "err"]
  /\ UNCHANGED << pipe, phase, attempt, input, output, channel, permits, graph,
                  firstError >>

\* Mutant of AttemptFails: every failed attempt is broadcast.
BroadcastEveryFailure(i) ==
  /\ IF attempt[i] < MaxAttempts(Stage(i))
     THEN pc' = [pc EXCEPT ![i] = "backoff"] /\ UNCHANGED result
     ELSE /\ pc' = [pc EXCEPT ![i] = "sent"]
          /\ result' = [result EXCEPT ![i] = "err"]
  /\ Broadcast(i, {})
  /\ UNCHANGED << pipe, phase, attempt, input, output, permits, graph,
                  firstError >>

\* An attempt ended in an error: sleep and try again, or give up and
\* broadcast an empty result so that dependents go on.
AttemptFails(i) ==
  /\ IF attempt[i] < MaxAttempts(Stage(i))
     THEN /\ pc' = [pc EXCEPT ![i] = "backoff"]
          /\ UNCHANGED << result, channel >>
     ELSE /\ pc' = [pc EXCEPT ![i] = "sent"]
          /\ result' = [result EXCEPT ![i] = "err"]
          /\ Broadcast(i, {})
  /\ UNCHANGED << pipe, phase, attempt, input, output, permits, graph,
                  firstError >>

PluginErr(i) ==
  /\ TasksAlive
  /\ pc[i] = "running"
  /\ AttemptFails(i)

\* tokio::time::timeout gives up on an attempt that is slow or hung.
TimeoutElapses(i) ==
  /\ TasksAlive
  /\ pc[i] \in {"running", "hung"}
  /\ Stage(i).timed
  /\ AttemptFails(i)

\* The sleep between two attempts is over; the permit was kept.
BackoffElapses(i) ==
  /\ TasksAlive
  /\ pc[i] = "backoff"
  /\ pc' = [pc EXCEPT ![i] = "running"]
  /\ attempt' = [attempt EXCEPT ![i] = @ + 1]
  /\ UNCHANGED << pipe, phase, input, output, result, channel, permits, graph,
                  firstError >>

\* The plugin will not answer this attempt.
PluginHangs(i) ==
  /\ TasksAlive
  /\ pc[i] = "running"
  /\ pc' = [pc EXCEPT ![i] = "hung"]
  /\ UNCHANGED << pipe, phase, attempt, input, output, result, channel,
                  permits, graph, firstError >>

\* The plugin panics: the task unwinds without a broadcast, and its permit
\* is dropped with it.
PluginPanics(i) ==
  /\ TasksAlive
  /\ pc[i] = "running"
  /\ pc' = [pc EXCEPT ![i] = "done"]
  /\ result' = [result EXCEPT ![i] = "panic"]
  /\ permits' = permits + 1
  /\ UNCHANGED << pipe, phase, attempt, input, output, channel, graph,
                  firstError >>

\* The task's block ends: _permit is dropped and the outcome returned.
EndTask(i) ==
  /\ TasksAlive
  /\ pc[i] = "sent"
  /\ pc' = [pc EXCEPT ![i] = "done"]
  /\ permits' = permits + 1
  /\ UNCHANGED << pipe, phase, attempt, input, output, result, channel, graph,
                  firstError >>

-----------------------------------------------------------------------------

\* join_next hands over any one task that has ended.
Joinable(i) == phase = "joining" /\ pc[i] = "done"

JoinOk(i) ==
  /\ Joinable(i)
  /\ result[i] = "ok"
  /\ graph' = graph \cup output[i]
  /\ pc' = [pc EXCEPT ![i] = "joined"]
  /\ UNCHANGED << pipe, phase, attempt, input, output, result, channel,
                  permits, firstError >>

\* Mutant of JoinErr: the error is dropped.
JoinErrSwallowed(i) ==
  /\ Joinable(i)
  /\ result[i] = "err"
  /\ pc' = [pc EXCEPT ![i] = "joined"]
  /\ UNCHANGED << pipe, phase, attempt, input, output, result, channel,
                  permits, graph, firstError >>

JoinErr(i) ==
  /\ Joinable(i)
  /\ result[i] = "err"
  /\ firstError' = IF firstError = 0 THEN i ELSE firstError
  /\ pc' = [pc EXCEPT ![i] = "joined"]
  /\ UNCHANGED << pipe, phase, attempt, input, output, result, channel,
                  permits, graph >>

\* Mutant of JoinPanic: a task that panicked is passed over.
JoinPanicIgnored(i) ==
  /\ Joinable(i)
  /\ result[i] = "panic"
  /\ pc' = [pc EXCEPT ![i] = "joined"]
  /\ UNCHANGED << pipe, phase, attempt, input, output, result, channel,
                  permits, graph, firstError >>

\* joined.expect("stage task panicked")
JoinPanic(i) ==
  /\ Joinable(i)
  /\ result[i] = "panic"
  /\ phase' = "panicked"
  /\ UNCHANGED << pipe, pc, attempt, input, output, result, channel, permits,
                  graph, firstError >>

\* Mutant of Return: execute returns at the first error.
ReturnAtFirstError ==
  /\ phase = "joining"
  /\ firstError # 0 \/ \A i \in Tasks : pc[i] = "joined"
  /\ phase' = IF firstError = 0 THEN "ok" ELSE "err"
  /\ UNCHANGED << pipe, pc, attempt, input, output, result, channel, permits,
                  graph, firstError >>

\* join_next returns None: the set is empty.
Return ==
  /\ phase = "joining"
  /\ \A i \in Tasks : pc[i] = "joined"
  /\ phase' = IF firstError = 0 THEN "ok" ELSE "err"
  /\ UNCHANGED << pipe, pc, attempt, input, output, result, channel, permits,
                  graph, firstError >>

-----------------------------------------------------------------------------

\* The steps of the task of stage i, the plugin's included.
TaskStep(i) ==
  \/ AwaitDependencies(i)
  \/ StartPlugin(i)
  \/ PluginOk(i)
  \/ PluginErr(i)
  \/ TimeoutElapses(i)
  \/ BackoffElapses(i)
  \/ PluginHangs(i)
  \/ PluginPanics(i)
  \/ EndTask(i)

\* The steps of execute itself that concern stage i.
SpawnStep(i) == Spawn(i) \/ SpawnPanics(i)
JoinStep(i)  == JoinOk(i) \/ JoinErr(i) \/ JoinPanic(i)
CallStep     == Admit \/ Reject \/ StartJoining \/ Return

\* A plugin that never answers and has no timeout.
Unanswered(i) == pc[i] = "hung" /\ ~ Stage(i).timed

\* The call has ended, or waits for a plugin that never answers.
Idle ==
  /\ Ended \/ \E i \in Tasks : Unanswered(i)
  /\ UNCHANGED vars

Next ==
  \/ CallStep
  \/ \E i \in Tasks : TaskStep(i) \/ SpawnStep(i) \/ JoinStep(i)
  \/ Idle

\* Every position a stage can have in one of the pipelines.
Positions == UNION {DOMAIN p.stages : p \in Pipelines}

\* The runtime polls every task that can go on; timers fire.  A plugin is
\* only assumed to answer, to hang or to panic.
Fairness ==
  /\ WF_vars(CallStep)
  /\ \A i \in Positions :
       /\ WF_vars(i \in Tasks /\ TaskStep(i))
       /\ WF_vars(i \in Tasks /\ (SpawnStep(i) \/ JoinStep(i)))

Spec     == Init /\ [][Next]_vars
FairSpec == Spec /\ Fairness

-----------------------------------------------------------------------------
(***************************************************************************)
(* Properties                                                              *)
(***************************************************************************)

\* Types (engine.rs, execute).
TypeOK ==
  /\ pipe \in Pipelines
  /\ phase \in {"called", "rejected", "spawning", "joining", "ok", "err", "panicked"}
  /\ pc \in [Tasks -> {"unspawned", "waiting", "acquiring", "running", "hung",
                       "backoff", "sent", "done", "joined"}]
  /\ attempt \in [Tasks -> Nat]
  /\ input \in [Tasks -> SUBSET Entities]
  /\ output \in [Tasks -> SUBSET Entities]
  /\ result \in [Tasks -> {"none", "ok", "err", "panic"}]
  /\ channel \in [Names(pipe) -> (SUBSET Entities) \cup {NotSent}]
  /\ permits \in Nat
  /\ graph \subseteq Entities
  /\ firstError \in Tasks \cup {0}

\* The semaphore's books balance: every permit is free or held by exactly
\* one task, from the first attempt through every backoff to the broadcast.
\* So at most `concurrency` plugins run at once (pipeline.rs, PipelineDef),
\* and no failure, timeout or panic leaks a permit.
PermitsBalance == permits + Cardinality(Holders) = Limit(pipe)

\* A stage whose input and permits are taken has seen every stage it depends
\* on end, its attempts included: its channel is set and nothing of it runs.
DependencyOrder ==
  \A i, j \in Tasks :
    /\ Stage(j).name \in Dependencies(Stage(i)) \ {SEED_INPUT}
    /\ pc[i] \notin {"unspawned", "waiting"}
    => pc[j] \in {"sent", "done", "joined"} /\ result[j] \in {"ok", "err"}

\* The same for the dependencies the pipeline file writes down, whatever the
\* stages are called: depends_on lists "stages that must complete before this
\* one starts" (pipeline.rs, StageDef).
DeclaredOrder ==
  \A i, j \in Tasks :
    /\ Stage(j).name \in Stage(i).depends_on
    /\ pc[i] \notin {"unspawned", "waiting"}
    => pc[j] \in {"sent", "done", "joined"}

\* A stage works on what its input stage finally answered: all of it if that
\* succeeded, nothing if it failed, the seed if there is no input stage.
InputProvenance ==
  \A i \in Tasks :
    pc[i] \notin {"unspawned", "waiting"} =>
      IF Stage(i).input = SEED_INPUT
      THEN input[i] = Seed
      ELSE \E j \in Tasks :
             /\ Stage(j).name = Stage(i).input
             /\ input[i] = IF result[j] = "ok" THEN output[j] ELSE {}

\* execute returns a graph only when no stage failed, and then the graph is
\* complete; it returns an error only when the stage it blames failed.
VerdictMatchesStages ==
  /\ phase = "ok" =>
       /\ \A i \in Tasks : result[i] = "ok"
       /\ graph = Seed \cup UNION {output[i] : i \in Tasks}
  /\ phase = "err" => firstError \in Tasks /\ result[firstError] = "err"

\* While execute joins, some task can move unless all are joined: no stage
\* waits for a broadcast that will not come, none for a permit that no task
\* holds.  This is what assert_acyclic, the lookup of every plugin before the
\* first spawn, the broadcast on errors and the wait before the permit are for.
CanStep(i) ==
  \/ pc[i] \in {"running", "hung", "backoff", "sent", "done"}
  \/ pc[i] = "acquiring" /\ permits > 0
  \/ pc[i] = "waiting" /\ \A n \in Awaited(Stage(i)) : Sent(n)

NoCircularWait ==
  phase = "joining" =>
    \/ \A i \in Tasks : pc[i] = "joined"
    \/ \E i \in Tasks : CanStep(i)

\* A stage reports an error only after its first attempt and all its retries
\* have failed, and never makes more.  (At the last value of a u32 the count
\* of attempts wraps to 0, so the stage has to be configured below it.)
RetriesExhausted ==
  \A i \in Tasks :
    /\ attempt[i] <= Stage(i).retries + 1
    /\ result[i] = "err" /\ Stage(i).retries + 1 < U32
         => attempt[i] = Stage(i).retries + 1

\* pipeline.rs, validate: every referenced dependency resolves to either
\* "seed" or a real stage.  So a validated pipeline panics only if a plugin
\* does.
PanicsOnlyWithPlugin ==
  phase = "panicked" => \E i \in Tasks : result[i] = "panic"

\* A broadcast is final: a channel that holds a value keeps it, and the stage
\* makes no further attempt.
BroadcastIsFinal ==
  [][\A i \in Tasks :
       Sent(Stage(i).name) =>
         /\ channel'[Stage(i).name] = channel[Stage(i).name]
         /\ attempt'[i] = attempt[i]
         /\ output'[i] = output[i]]_vars

\* execute returns, unless a plugin without a timeout never answers.
Terminates == <>(Ended \/ \E i \in Tasks : Unanswered(i))

\* A panic in a plugin brings the whole call down, even while other stages
\* hang, or wait for the broadcast that the panicking stage will never make.
PanicPropagates ==
  (\E i \in Tasks : result[i] = "panic") ~> phase = "panicked"

=============================================================================
