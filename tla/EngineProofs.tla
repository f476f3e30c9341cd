---------------------------- MODULE EngineProofs ----------------------------
(***************************************************************************)
(* Proofs about Engine, for every set of pipelines, every registry and     *)
(* every set of entities: its inductive invariant, the properties that     *)
(* follow from it, and that Engine implements StageSchedule.               *)
(***************************************************************************)
EXTENDS EngineRefinement, FiniteSetTheorems, TLAPS

\* What is known of the pipeline of the call: its stages are well formed, and
\* its positions are the first so many positive numbers.
LEMMA PipelineShape ==
  ASSUME pipe \in Pipelines
  PROVE  /\ pipe \in PipelineDef
         /\ Tasks = 1 .. Len(pipe.stages)
         /\ Len(pipe.stages) \in Nat
         /\ \A i \in Tasks : Stage(i) \in StageDef
         /\ \A i \in Tasks : Stage(i).name \in Names(pipe)
         /\ 0 \notin Tasks
<1>1. pipe \in PipelineDef
  BY PipelinesAssumption
<1>2. pipe.stages \in Seq(StageDef)
  BY <1>1 DEF PipelineDef
<1>3. /\ Tasks = 1 .. Len(pipe.stages)
      /\ Len(pipe.stages) \in Nat
  BY <1>2 DEF Tasks
<1>4. \A i \in Tasks : Stage(i) \in StageDef
  BY <1>2, <1>3 DEF Stage
<1>5. \A i \in Tasks : Stage(i).name \in Names(pipe)
  BY DEF Names, Tasks, Stage
<1>6. 0 \notin Tasks
  BY <1>3
<1> QED
  BY <1>1, <1>3, <1>4, <1>5, <1>6

-----------------------------------------------------------------------------
(***************************************************************************)
(* Types                                                                   *)
(***************************************************************************)

\* The initial state has its types, and no task.
LEMMA InitTypes == Init => TypeOK /\ SpawnedInv
<1> SUFFICES ASSUME Init PROVE TypeOK /\ SpawnedInv
  OBVIOUS
<1>1. permits \in Nat
  <2>1. pipe.concurrency \in Nat
    BY PipelinesAssumption DEF Init, PipelineDef
  <2> QED
    BY <2>1 DEF Init, Limit
<1>2. TypeOK
  BY <1>1 DEF Init, TypeOK
<1>3. SpawnedInv
  BY DEF Init, SpawnedInv
<1> QED
  BY <1>2, <1>3

\* The actions that leave pc alone, and those that move one task from a place
\* beyond "unspawned" to another, keep SpawnedInv; Spawn checks it.
LEMMA StepTypes ==
  ASSUME TypeOK, SpawnedInv, [Next]_vars
  PROVE  TypeOK' /\ SpawnedInv'
<1>0. pipe \in Pipelines
  BY DEF TypeOK
<1> USE <1>0, PipelineShape, EntitiesAssumption, NotSentAssumption
<1>1. CASE Admit
  BY <1>1 DEF Admit, TypeOK, SpawnedInv, Tasks, Stage
<1>2. CASE Reject
  BY <1>2 DEF Reject, TypeOK, SpawnedInv, Tasks, Stage
<1>3. CASE StartJoining
  BY <1>3 DEF StartJoining, TypeOK, SpawnedInv, Tasks, Stage
<1>4. CASE Return
  BY <1>4 DEF Return, TypeOK, SpawnedInv, Tasks, Stage
<1>5. ASSUME NEW i \in Tasks, Spawn(i)
      PROVE  TypeOK' /\ SpawnedInv'
  BY <1>5 DEF Spawn, NextToSpawn, TypeOK, SpawnedInv, Tasks, Stage
<1>6. ASSUME NEW i \in Tasks, SpawnPanics(i)
      PROVE  TypeOK' /\ SpawnedInv'
  BY <1>6 DEF SpawnPanics, NextToSpawn, TypeOK, SpawnedInv, Tasks, Stage
<1>7. ASSUME NEW i \in Tasks, AwaitDependencies(i)
      PROVE  TypeOK' /\ SpawnedInv'
  <2> USE <1>7 DEF AwaitDependencies
  <2>1. Stage(i).input # SEED_INPUT => channel[Stage(i).input] \in SUBSET Entities
    BY DEF TypeOK, SpawnedInv, Awaited, Sent
  <2>2. input' \in [Tasks -> SUBSET Entities]
    <3>1. PICK found : input' = [input EXCEPT ![i] = found] /\ found \in SUBSET Entities
      BY <2>1
    <3>2. input \in [Tasks -> SUBSET Entities]
      BY DEF TypeOK
    <3> QED
      BY <3>1, <3>2
  <2>3. TypeOK'
    BY <2>2 DEF TypeOK, Tasks
  <2>4. SpawnedInv'
    BY DEF TypeOK, SpawnedInv, TasksAlive, Tasks, Stage
  <2> QED
    BY <2>3, <2>4
<1>8. ASSUME NEW i \in Tasks, StartPlugin(i)
      PROVE  TypeOK' /\ SpawnedInv'
  <2>1. /\ UNCHANGED << pipe, phase, input, output, channel, graph, firstError >>
        /\ pc[i] = "acquiring" /\ TasksAlive
        /\ \/ pc' = [pc EXCEPT ![i] = "running"]
           \/ pc' = [pc EXCEPT ![i] = "done"]
        /\ attempt' = attempt \/ attempt' = [attempt EXCEPT ![i] = 1]
        /\ result' = result \/ result' = [result EXCEPT ![i] = "err"]
    BY <1>8 DEF StartPlugin
  <2>2. permits' \in Nat
    BY <1>8 DEF StartPlugin, TypeOK
  <2>3. ASSUME NEW f \in [Tasks -> Nat]
        PROVE  [f EXCEPT ![i] = 1] \in [Tasks -> Nat]
    OBVIOUS
  <2>5. attempt' \in [Tasks -> Nat]
    BY <2>1, <2>3 DEF TypeOK
  <2>6. result' \in [Tasks -> {"none", "ok", "err", "panic"}]
    BY <2>1 DEF TypeOK
  <2>7. TypeOK'
    BY <2>1, <2>2, <2>5, <2>6 DEF TypeOK, Tasks
  <2>4. SpawnedInv'
    <3>1. /\ Tasks' = Tasks /\ \A j \in Tasks : pc'[j] = "unspawned" <=> pc[j] = "unspawned"
          /\ \A j \in Tasks : Stage(j)' = Stage(j) /\ Awaited(Stage(j))' = Awaited(Stage(j))
          /\ Accepted(pipe)' = Accepted(pipe) /\ Names(pipe)' = Names(pipe)
      BY <2>1 DEF TypeOK, Tasks, Stage
    <3>2. phase \notin {"called", "rejected"}
      BY <2>1 DEF TasksAlive
    <3> QED
      BY <2>1, <3>1, <3>2 DEF SpawnedInv
  <2> QED
    BY <2>4, <2>7
<1>9. ASSUME NEW i \in Tasks, PluginOk(i)
      PROVE  TypeOK' /\ SpawnedInv'
  <2> USE <1>9 DEF PluginOk, Broadcast
  <2>1. TypeOK'
    <3>1. PICK found \in Outputs :
            /\ output' = [output EXCEPT ![i] = found]
            /\ channel' = [channel EXCEPT ![Stage(i).name] = found]
      OBVIOUS
    <3>2. found \in SUBSET Entities
      BY <3>1
    <3>3. /\ output' \in [Tasks -> SUBSET Entities]
          /\ channel' \in [Names(pipe) -> (SUBSET Entities) \cup {NotSent}]
      BY <3>1, <3>2 DEF TypeOK
    <3> QED
      BY <3>3 DEF TypeOK, Tasks
  <2>2. SpawnedInv'
    BY DEF TypeOK, SpawnedInv, TasksAlive, Tasks, Stage
  <2> QED
    BY <2>1, <2>2
<1>10. ASSUME NEW i \in Tasks, TasksAlive, pc[i] \in Attempting, AttemptFails(i)
       PROVE  TypeOK' /\ SpawnedInv'
  <2>1. TypeOK'
    <3>1. CASE attempt[i] < MaxAttempts(Stage(i))
      <4>1. /\ pc' = [pc EXCEPT ![i] = "backoff"]
            /\ UNCHANGED << pipe, phase, attempt, input, output, permits, graph, firstError,
                            result, channel >>
        BY <1>10, <3>1 DEF AttemptFails
      <4> QED
        BY <4>1 DEF TypeOK, Tasks
    <3>2. CASE ~ (attempt[i] < MaxAttempts(Stage(i)))
      <4>1. /\ pc' = [pc EXCEPT ![i] = "sent"]
            /\ result' = [result EXCEPT ![i] = "err"]
            /\ channel' = [channel EXCEPT ![Stage(i).name] = {}]
            /\ UNCHANGED << pipe, phase, attempt, input, output, permits, graph, firstError >>
        BY <1>10, <3>2 DEF AttemptFails, Broadcast
      <4>2. channel' \in [Names(pipe) -> (SUBSET Entities) \cup {NotSent}]
        BY <4>1 DEF TypeOK
      <4>3. /\ pc' \in [Tasks -> {"unspawned", "waiting", "acquiring", "running", "hung",
                                  "backoff", "sent", "done", "joined"}]
            /\ result' \in [Tasks -> {"none", "ok", "err", "panic"}]
        BY <4>1 DEF TypeOK
      <4> QED
        BY <4>1, <4>2, <4>3, Zenon DEF TypeOK, Tasks
    <3> QED
      BY <3>1, <3>2
  <2>2. SpawnedInv'
    BY <1>10 DEF AttemptFails, Broadcast, Attempting, TypeOK, SpawnedInv, TasksAlive, Tasks, Stage
  <2> QED
    BY <2>1, <2>2
<1>11. ASSUME NEW i \in Tasks, BackoffElapses(i)
       PROVE  TypeOK' /\ SpawnedInv'
  BY <1>11 DEF BackoffElapses, TypeOK, SpawnedInv, TasksAlive, Tasks, Stage
<1>12. ASSUME NEW i \in Tasks, PluginHangs(i)
       PROVE  TypeOK' /\ SpawnedInv'
  BY <1>12 DEF PluginHangs, TypeOK, SpawnedInv, TasksAlive, Tasks, Stage
<1>13. ASSUME NEW i \in Tasks, PluginPanics(i)
       PROVE  TypeOK' /\ SpawnedInv'
  BY <1>13 DEF PluginPanics, TypeOK, SpawnedInv, TasksAlive, Tasks, Stage
<1>14. ASSUME NEW i \in Tasks, EndTask(i)
       PROVE  TypeOK' /\ SpawnedInv'
  BY <1>14 DEF EndTask, TypeOK, SpawnedInv, TasksAlive, Tasks, Stage
<1>15. ASSUME NEW i \in Tasks, JoinOk(i)
       PROVE  TypeOK' /\ SpawnedInv'
  BY <1>15 DEF JoinOk, Joinable, TypeOK, SpawnedInv, Tasks, Stage
<1>16. ASSUME NEW i \in Tasks, JoinErr(i)
       PROVE  TypeOK' /\ SpawnedInv'
  BY <1>16 DEF JoinErr, Joinable, TypeOK, SpawnedInv, Tasks, Stage
<1>17. ASSUME NEW i \in Tasks, JoinPanic(i)
       PROVE  TypeOK' /\ SpawnedInv'
  BY <1>17 DEF JoinPanic, Joinable, TypeOK, SpawnedInv, Tasks, Stage
<1>18. CASE UNCHANGED vars
  BY <1>18 DEF vars, TypeOK, SpawnedInv, Tasks, Stage
<1> QED
  BY <1>1, <1>2, <1>3, <1>4, <1>5, <1>6, <1>7, <1>8, <1>9, <1>10, <1>11,
     <1>12, <1>13, <1>14, <1>15, <1>16, <1>17, <1>18
     DEF Next, CallStep, TaskStep, SpawnStep, JoinStep, Idle, PluginErr,
         TimeoutElapses, Attempting

\* Every variable keeps its type; in particular no task ever reads a channel
\* that does not exist.
THEOREM TypeCorrect == Spec => []TypeOK
<1>1. Init => TypeOK /\ SpawnedInv
  BY InitTypes
<1>2. TypeOK /\ SpawnedInv /\ [Next]_vars => (TypeOK /\ SpawnedInv)'
  BY StepTypes
<1> QED
  BY <1>1, <1>2, PTL DEF Spec

-----------------------------------------------------------------------------
(***************************************************************************)
(* Results and attempts                                                    *)
(***************************************************************************)

\* The u32 arithmetic of run_with_retry.
LEMMA MaxAttemptsBound ==
  ASSUME NEW stage \in StageDef
  PROVE  /\ MaxAttempts(stage) \in Nat
         /\ MaxAttempts(stage) <= stage.retries + 1
         /\ stage.retries \in Nat
         /\ stage.retries + 1 < U32 => MaxAttempts(stage) = stage.retries + 1
<1>1. stage.retries \in 0 .. U32 - 1
  BY DEF StageDef
<1>2. CASE stage.retries + 1 < U32
  BY <1>1, <1>2, U32Assumption DEF MaxAttempts
<1>3. CASE stage.retries + 1 = U32
  <2>1. U32 % U32 = 0
    BY U32Assumption
  <2> QED
    BY <1>1, <1>3, <2>1, U32Assumption DEF MaxAttempts
<1> QED
  BY <1>1, <1>2, <1>3, U32Assumption

\* A task that starts its plugin finds it: preflight has looked it up.
LEMMA PluginIsRegistered ==
  ASSUME SpawnedInv, NEW i \in Tasks, StartPlugin(i)
  PROVE  /\ Stage(i).plugin \in Registry
         /\ TasksAlive
         /\ pc[i] = "acquiring"
         /\ pc' = [pc EXCEPT ![i] = "running"]
         /\ attempt' = [attempt EXCEPT ![i] = 1]
         /\ permits > 0
         /\ permits' = permits - 1
         /\ UNCHANGED << pipe, phase, input, output, result, channel, graph,
                         firstError >>
  BY DEF SpawnedInv, StartPlugin, TasksAlive, Accepted, Tasks, Stage

\* A task gets its result in the step in which its plugin is through with it
\* (engine.rs, execute).
LEMMA StepResult ==
  ASSUME TypeOK, SpawnedInv, ResultInv, [Next]_vars
  PROVE  ResultInv'
<1>0. pipe \in Pipelines
  BY DEF TypeOK
<1> USE <1>0, PipelineShape DEF TypeOK, ResultInv, Over, Tasks
<1>1. CASE Admit
  BY <1>1 DEF Admit
<1>2. CASE Reject
  BY <1>2 DEF Reject
<1>3. CASE StartJoining
  BY <1>3 DEF StartJoining
<1>4. CASE Return
  BY <1>4 DEF Return
<1>5. ASSUME NEW i \in Tasks, Spawn(i)
      PROVE  ResultInv'
  BY <1>5 DEF Spawn, NextToSpawn
<1>6. ASSUME NEW i \in Tasks, SpawnPanics(i)
      PROVE  ResultInv'
  BY <1>6 DEF SpawnPanics
<1>7. ASSUME NEW i \in Tasks, AwaitDependencies(i)
      PROVE  ResultInv'
  BY <1>7 DEF AwaitDependencies
<1>8. ASSUME NEW i \in Tasks, StartPlugin(i)
      PROVE  ResultInv'
  BY <1>8, PluginIsRegistered
<1>9. ASSUME NEW i \in Tasks, PluginOk(i)
      PROVE  ResultInv'
  BY <1>9 DEF PluginOk, Broadcast
<1>10. ASSUME NEW i \in Tasks, TasksAlive, pc[i] \in {"running", "hung"}, AttemptFails(i)
       PROVE  ResultInv'
  <2>1. CASE attempt[i] < MaxAttempts(Stage(i))
    BY <1>10, <2>1 DEF AttemptFails
  <2>2. CASE ~ (attempt[i] < MaxAttempts(Stage(i)))
    <3>1. /\ pc' = [pc EXCEPT ![i] = "sent"]
          /\ result' = [result EXCEPT ![i] = "err"]
          /\ UNCHANGED << pipe, output >>
      BY <1>10, <2>2 DEF AttemptFails
    <3>2. pc'[i] = "sent" /\ result'[i] = "err" /\ output'[i] = {}
      BY <1>10, <3>1
    <3>3. \A j \in Tasks : j # i =>
            pc'[j] = pc[j] /\ result'[j] = result[j] /\ output'[j] = output[j]
      BY <3>1
    <3>4. Tasks' = Tasks
      BY <3>1
    <3> QED
      BY <3>2, <3>3, <3>4
  <2> QED
    BY <2>1, <2>2
<1>11. ASSUME NEW i \in Tasks, BackoffElapses(i)
       PROVE  ResultInv'
  BY <1>11 DEF BackoffElapses
<1>12. ASSUME NEW i \in Tasks, PluginHangs(i)
       PROVE  ResultInv'
  BY <1>12 DEF PluginHangs
<1>13. ASSUME NEW i \in Tasks, PluginPanics(i)
       PROVE  ResultInv'
  BY <1>13 DEF PluginPanics
<1>14. ASSUME NEW i \in Tasks, EndTask(i)
       PROVE  ResultInv'
  BY <1>14 DEF EndTask
<1>15. ASSUME NEW i \in Tasks, JoinOk(i)
       PROVE  ResultInv'
  BY <1>15 DEF JoinOk, Joinable
<1>16. ASSUME NEW i \in Tasks, JoinErr(i)
       PROVE  ResultInv'
  BY <1>16 DEF JoinErr, Joinable
<1>17. ASSUME NEW i \in Tasks, JoinPanic(i)
       PROVE  ResultInv'
  BY <1>17 DEF JoinPanic, Joinable
<1>18. CASE UNCHANGED vars
  BY <1>18 DEF vars
<1> QED
  BY <1>1, <1>2, <1>3, <1>4, <1>5, <1>6, <1>7, <1>8, <1>9,
     <1>10, <1>11, <1>12, <1>13, <1>14, <1>15, <1>16, <1>17, <1>18
     DEF Next, CallStep, TaskStep, SpawnStep, JoinStep, Idle, PluginErr, TimeoutElapses

\* Every step keeps the count of attempts of run_with_retry within its bounds.
LEMMA StepAttempt ==
  ASSUME TypeOK, SpawnedInv, ResultInv, AttemptInv, [Next]_vars
  PROVE  AttemptInv'
<1>0. pipe \in Pipelines
  BY DEF TypeOK
<1> USE <1>0, PipelineShape, MaxAttemptsBound DEF TypeOK, ResultInv, Over, AttemptInv, NotYetRun, Attempting, Tasks, Stage
<1>1. CASE Admit
  BY <1>1 DEF Admit
<1>2. CASE Reject
  BY <1>2 DEF Reject
<1>3. CASE StartJoining
  BY <1>3 DEF StartJoining
<1>4. CASE Return
  BY <1>4 DEF Return
<1>5. ASSUME NEW i \in Tasks, Spawn(i)
      PROVE  AttemptInv'
  BY <1>5 DEF Spawn, NextToSpawn
<1>6. ASSUME NEW i \in Tasks, SpawnPanics(i)
      PROVE  AttemptInv'
  BY <1>6 DEF SpawnPanics
<1>7. ASSUME NEW i \in Tasks, AwaitDependencies(i)
      PROVE  AttemptInv'
  BY <1>7 DEF AwaitDependencies
<1>8. ASSUME NEW i \in Tasks, StartPlugin(i)
      PROVE  AttemptInv'
  <2>1. /\ UNCHANGED << pipe, result >>
        /\ pc[i] = "acquiring"
        /\ pc' = [pc EXCEPT ![i] = "running"]
        /\ attempt' = [attempt EXCEPT ![i] = 1]
    BY <1>8, PluginIsRegistered
  <2>2. result[i] = "none"
    BY <2>1
  <2>3. Stage(i).retries \in Nat
    OBVIOUS
  <2> QED
    BY <2>1, <2>2, <2>3
<1>9. ASSUME NEW i \in Tasks, PluginOk(i)
      PROVE  AttemptInv'
  BY <1>9 DEF PluginOk, Broadcast
<1>10. ASSUME NEW i \in Tasks, TasksAlive, pc[i] \in {"running", "hung"}, AttemptFails(i)
       PROVE  AttemptInv'
  <2>1. CASE attempt[i] < MaxAttempts(Stage(i))
    <3>1. pc' = [pc EXCEPT ![i] = "backoff"] /\ UNCHANGED << pipe, attempt, result >>
      BY <1>10, <2>1 DEF AttemptFails
    <3> QED
      BY <1>10, <2>1, <3>1
  <2>2. CASE ~ (attempt[i] < MaxAttempts(Stage(i)))
    <3>1. /\ pc' = [pc EXCEPT ![i] = "sent"]
          /\ result' = [result EXCEPT ![i] = "err"]
          /\ UNCHANGED << pipe, attempt >>
      BY <1>10, <2>2 DEF AttemptFails
    <3>2. attempt[i] >= MaxAttempts(Stage(i))
      BY <2>2
    <3> QED
      BY <1>10, <3>1, <3>2
  <2> QED
    BY <2>1, <2>2
<1>11. ASSUME NEW i \in Tasks, BackoffElapses(i)
       PROVE  AttemptInv'
  <2>1. /\ pc[i] = "backoff"
        /\ pc' = [pc EXCEPT ![i] = "running"]
        /\ attempt' = [attempt EXCEPT ![i] = attempt[i] + 1]
        /\ UNCHANGED << pipe, result >>
    BY <1>11 DEF BackoffElapses
  <2>2. attempt[i] < MaxAttempts(Stage(i)) /\ result[i] = "none"
    BY <2>1
  <2>3. attempt[i] + 1 <= Stage(i).retries + 1
    BY <2>2
  <2>4. /\ pc'[i] = "running" /\ result'[i] = "none"
        /\ attempt'[i] = attempt[i] + 1 /\ Stage(i)' = Stage(i)
    BY <2>1, <2>2
  <2>5. \A j \in Tasks : j # i =>
          pc'[j] = pc[j] /\ result'[j] = result[j] /\ attempt'[j] = attempt[j]
    BY <2>1
  <2>6. pipe' = pipe /\ Tasks' = Tasks
    BY <2>1
  <2>7. /\ pc'[i] \notin NotYetRun /\ 1 <= attempt'[i] /\ pc'[i] # "backoff"
        /\ result'[i] # "err" /\ attempt'[i] <= Stage(i)'.retries + 1
    BY <2>3, <2>4
  <2>8. ASSUME NEW j \in Tasks, j # i
        PROVE  /\ pc'[j] \in NotYetRun => attempt'[j] = 0
               /\ pc'[j] \in Attempting => 1 <= attempt'[j]
               /\ pc'[j] = "backoff" => attempt'[j] < MaxAttempts(Stage(j)')
               /\ result'[j] = "err" => attempt'[j] >= MaxAttempts(Stage(j)')
               /\ attempt'[j] <= Stage(j)'.retries + 1
    <3>1. Stage(j)' = Stage(j)
      BY <2>6
    <3> QED
      BY <2>5, <2>8, <3>1
  <2> QED
    BY <2>6, <2>7, <2>8
<1>12. ASSUME NEW i \in Tasks, PluginHangs(i)
       PROVE  AttemptInv'
  BY <1>12 DEF PluginHangs
<1>13. ASSUME NEW i \in Tasks, PluginPanics(i)
       PROVE  AttemptInv'
  BY <1>13 DEF PluginPanics
<1>14. ASSUME NEW i \in Tasks, EndTask(i)
       PROVE  AttemptInv'
  BY <1>14 DEF EndTask
<1>15. ASSUME NEW i \in Tasks, JoinOk(i)
       PROVE  AttemptInv'
  BY <1>15 DEF JoinOk, Joinable
<1>16. ASSUME NEW i \in Tasks, JoinErr(i)
       PROVE  AttemptInv'
  BY <1>16 DEF JoinErr, Joinable
<1>17. ASSUME NEW i \in Tasks, JoinPanic(i)
       PROVE  AttemptInv'
  BY <1>17 DEF JoinPanic, Joinable
<1>18. CASE UNCHANGED vars
  BY <1>18 DEF vars
<1> QED
  BY <1>1, <1>2, <1>3, <1>4, <1>5, <1>6, <1>7, <1>8, <1>9,
     <1>10, <1>11, <1>12, <1>13, <1>14, <1>15, <1>16, <1>17, <1>18
     DEF Next, CallStep, TaskStep, SpawnStep, JoinStep, Idle, PluginErr, TimeoutElapses

-----------------------------------------------------------------------------
(***************************************************************************)
(* Channels                                                                *)
(***************************************************************************)

\* A channel belongs to one stage.
LEMMA NamesAreUnique ==
  ASSUME SpawnedInv, phase \notin {"called", "rejected"},
         NEW i \in Tasks, NEW j \in Tasks, Stage(i).name = Stage(j).name
  PROVE  i = j
BY DEF SpawnedInv, Accepted, Validate, UniqueNames, Tasks, Stage

\* Only a success or the final failure of a stage sets its channel, and sets
\* it to what the stage found (engine.rs, execute).
LEMMA StepChannel ==
  ASSUME TypeOK, SpawnedInv, ResultInv, ChannelInv, [Next]_vars
  PROVE  ChannelInv'
<1>0. pipe \in Pipelines
  BY DEF TypeOK
<1> USE <1>0, PipelineShape, NamesAreUnique, EntitiesAssumption, NotSentAssumption DEF TypeOK, ResultInv, Over, ChannelInv, Sent, TasksAlive, Tasks, Stage
<1>1. CASE Admit
  BY <1>1 DEF Admit
<1>2. CASE Reject
  BY <1>2 DEF Reject
<1>3. CASE StartJoining
  BY <1>3 DEF StartJoining
<1>4. CASE Return
  BY <1>4 DEF Return
<1>5. ASSUME NEW i \in Tasks, Spawn(i)
      PROVE  ChannelInv'
  BY <1>5 DEF Spawn, NextToSpawn
<1>6. ASSUME NEW i \in Tasks, SpawnPanics(i)
      PROVE  ChannelInv'
  BY <1>6 DEF SpawnPanics
<1>7. ASSUME NEW i \in Tasks, AwaitDependencies(i)
      PROVE  ChannelInv'
  BY <1>7 DEF AwaitDependencies
<1>8. ASSUME NEW i \in Tasks, StartPlugin(i)
      PROVE  ChannelInv'
  BY <1>8, PluginIsRegistered
<1>9. ASSUME NEW i \in Tasks, PluginOk(i)
      PROVE  ChannelInv'
  BY <1>9 DEF PluginOk, Broadcast
<1>10. ASSUME NEW i \in Tasks, TasksAlive, pc[i] \in {"running", "hung"}, AttemptFails(i)
       PROVE  ChannelInv'
  BY <1>10 DEF AttemptFails, Broadcast
<1>11. ASSUME NEW i \in Tasks, BackoffElapses(i)
       PROVE  ChannelInv'
  BY <1>11 DEF BackoffElapses
<1>12. ASSUME NEW i \in Tasks, PluginHangs(i)
       PROVE  ChannelInv'
  BY <1>12 DEF PluginHangs
<1>13. ASSUME NEW i \in Tasks, PluginPanics(i)
       PROVE  ChannelInv'
  BY <1>13 DEF PluginPanics
<1>14. ASSUME NEW i \in Tasks, EndTask(i)
       PROVE  ChannelInv'
  BY <1>14 DEF EndTask
<1>15. ASSUME NEW i \in Tasks, JoinOk(i)
       PROVE  ChannelInv'
  BY <1>15 DEF JoinOk, Joinable
<1>16. ASSUME NEW i \in Tasks, JoinErr(i)
       PROVE  ChannelInv'
  BY <1>16 DEF JoinErr, Joinable
<1>17. ASSUME NEW i \in Tasks, JoinPanic(i)
       PROVE  ChannelInv'
  BY <1>17 DEF JoinPanic, Joinable
<1>18. CASE UNCHANGED vars
  BY <1>18 DEF vars
<1> QED
  BY <1>1, <1>2, <1>3, <1>4, <1>5, <1>6, <1>7, <1>8, <1>9,
     <1>10, <1>11, <1>12, <1>13, <1>14, <1>15, <1>16, <1>17, <1>18
     DEF Next, CallStep, TaskStep, SpawnStep, JoinStep, Idle, PluginErr, TimeoutElapses

\* A value in a channel stays there.
LEMMA ChannelsKeepValues ==
  ASSUME TypeOK, SpawnedInv, ResultInv, ChannelInv, [Next]_vars
  PROVE  \A n \in Names(pipe) : Sent(n) => channel'[n] = channel[n] /\ Sent(n)'
<1>0. pipe \in Pipelines
  BY DEF TypeOK
<1> USE <1>0, PipelineShape, NamesAreUnique DEF TypeOK, ResultInv, Over, ChannelInv, Sent, TasksAlive, Tasks, Stage
<1>1. CASE Admit
  BY <1>1 DEF Admit
<1>2. CASE Reject
  BY <1>2 DEF Reject
<1>3. CASE StartJoining
  BY <1>3 DEF StartJoining
<1>4. CASE Return
  BY <1>4 DEF Return
<1>5. ASSUME NEW i \in Tasks, Spawn(i)
      PROVE  \A n \in Names(pipe) : Sent(n) => channel'[n] = channel[n] /\ Sent(n)'
  BY <1>5 DEF Spawn, NextToSpawn
<1>6. ASSUME NEW i \in Tasks, SpawnPanics(i)
      PROVE  \A n \in Names(pipe) : Sent(n) => channel'[n] = channel[n] /\ Sent(n)'
  BY <1>6 DEF SpawnPanics
<1>7. ASSUME NEW i \in Tasks, AwaitDependencies(i)
      PROVE  \A n \in Names(pipe) : Sent(n) => channel'[n] = channel[n] /\ Sent(n)'
  BY <1>7 DEF AwaitDependencies
<1>8. ASSUME NEW i \in Tasks, StartPlugin(i)
      PROVE  \A n \in Names(pipe) : Sent(n) => channel'[n] = channel[n] /\ Sent(n)'
  BY <1>8, PluginIsRegistered
<1>9. ASSUME NEW i \in Tasks, PluginOk(i)
      PROVE  \A n \in Names(pipe) : Sent(n) => channel'[n] = channel[n] /\ Sent(n)'
  <2>1. /\ pc[i] = "running"
        /\ \E found \in Outputs : channel' = [channel EXCEPT ![Stage(i).name] = found]
    BY <1>9 DEF PluginOk, Broadcast
  <2>2. ~ Sent(Stage(i).name)
    BY <2>1
  <2> QED
    BY <2>1, <2>2
<1>10. ASSUME NEW i \in Tasks, TasksAlive, pc[i] \in {"running", "hung"}, AttemptFails(i)
       PROVE  \A n \in Names(pipe) : Sent(n) => channel'[n] = channel[n] /\ Sent(n)'
  <2>1. CASE attempt[i] < MaxAttempts(Stage(i))
    BY <1>10, <2>1 DEF AttemptFails
  <2>2. CASE ~ (attempt[i] < MaxAttempts(Stage(i)))
    <3>1. channel' = [channel EXCEPT ![Stage(i).name] = {}]
      BY <1>10, <2>2 DEF AttemptFails, Broadcast
    <3>2. ~ Sent(Stage(i).name)
      BY <1>10
    <3> QED
      BY <3>1, <3>2
  <2> QED
    BY <2>1, <2>2
<1>11. ASSUME NEW i \in Tasks, BackoffElapses(i)
       PROVE  \A n \in Names(pipe) : Sent(n) => channel'[n] = channel[n] /\ Sent(n)'
  BY <1>11 DEF BackoffElapses
<1>12. ASSUME NEW i \in Tasks, PluginHangs(i)
       PROVE  \A n \in Names(pipe) : Sent(n) => channel'[n] = channel[n] /\ Sent(n)'
  BY <1>12 DEF PluginHangs
<1>13. ASSUME NEW i \in Tasks, PluginPanics(i)
       PROVE  \A n \in Names(pipe) : Sent(n) => channel'[n] = channel[n] /\ Sent(n)'
  BY <1>13 DEF PluginPanics
<1>14. ASSUME NEW i \in Tasks, EndTask(i)
       PROVE  \A n \in Names(pipe) : Sent(n) => channel'[n] = channel[n] /\ Sent(n)'
  BY <1>14 DEF EndTask
<1>15. ASSUME NEW i \in Tasks, JoinOk(i)
       PROVE  \A n \in Names(pipe) : Sent(n) => channel'[n] = channel[n] /\ Sent(n)'
  BY <1>15 DEF JoinOk, Joinable
<1>16. ASSUME NEW i \in Tasks, JoinErr(i)
       PROVE  \A n \in Names(pipe) : Sent(n) => channel'[n] = channel[n] /\ Sent(n)'
  BY <1>16 DEF JoinErr, Joinable
<1>17. ASSUME NEW i \in Tasks, JoinPanic(i)
       PROVE  \A n \in Names(pipe) : Sent(n) => channel'[n] = channel[n] /\ Sent(n)'
  BY <1>17 DEF JoinPanic, Joinable
<1>18. CASE UNCHANGED vars
  BY <1>18 DEF vars
<1> QED
  BY <1>1, <1>2, <1>3, <1>4, <1>5, <1>6, <1>7, <1>8, <1>9,
     <1>10, <1>11, <1>12, <1>13, <1>14, <1>15, <1>16, <1>17, <1>18
     DEF Next, CallStep, TaskStep, SpawnStep, JoinStep, Idle, PluginErr, TimeoutElapses

-----------------------------------------------------------------------------
(***************************************************************************)
(* Waiting                                                                 *)
(***************************************************************************)

\* Only AwaitDependencies takes a task past its waits and gives it an input.
LEMMA WaitingFrame ==
  ASSUME TypeOK, ~ \E i \in Tasks : AwaitDependencies(i), [Next]_vars
  PROVE  /\ UNCHANGED << pipe, input >>
                      /\ \A j \in Tasks : pc'[j] \notin {"unspawned", "waiting"}
                                        => pc[j] \notin {"unspawned", "waiting"}
<1>0. pipe \in Pipelines
  BY DEF TypeOK
<1> USE <1>0, PipelineShape DEF TypeOK, Tasks
<1>1. CASE Admit
  BY <1>1 DEF Admit
<1>2. CASE Reject
  BY <1>2 DEF Reject
<1>3. CASE StartJoining
  BY <1>3 DEF StartJoining
<1>4. CASE Return
  BY <1>4 DEF Return
<1>5. ASSUME NEW i \in Tasks, Spawn(i)
      PROVE  /\ UNCHANGED << pipe, input >>
                      /\ \A j \in Tasks : pc'[j] \notin {"unspawned", "waiting"}
                                        => pc[j] \notin {"unspawned", "waiting"}
  BY <1>5 DEF Spawn, NextToSpawn
<1>6. ASSUME NEW i \in Tasks, SpawnPanics(i)
      PROVE  /\ UNCHANGED << pipe, input >>
                      /\ \A j \in Tasks : pc'[j] \notin {"unspawned", "waiting"}
                                        => pc[j] \notin {"unspawned", "waiting"}
  BY <1>6 DEF SpawnPanics
<1>7. ASSUME NEW i \in Tasks, AwaitDependencies(i)
      PROVE  /\ UNCHANGED << pipe, input >>
                      /\ \A j \in Tasks : pc'[j] \notin {"unspawned", "waiting"}
                                        => pc[j] \notin {"unspawned", "waiting"}
  BY <1>7
<1>8. ASSUME NEW i \in Tasks, StartPlugin(i)
      PROVE  /\ UNCHANGED << pipe, input >>
                      /\ \A j \in Tasks : pc'[j] \notin {"unspawned", "waiting"}
                                        => pc[j] \notin {"unspawned", "waiting"}
  BY <1>8 DEF StartPlugin
<1>9. ASSUME NEW i \in Tasks, PluginOk(i)
      PROVE  /\ UNCHANGED << pipe, input >>
                      /\ \A j \in Tasks : pc'[j] \notin {"unspawned", "waiting"}
                                        => pc[j] \notin {"unspawned", "waiting"}
  BY <1>9 DEF PluginOk, Broadcast
<1>10. ASSUME NEW i \in Tasks, TasksAlive, pc[i] \in {"running", "hung"}, AttemptFails(i)
       PROVE  /\ UNCHANGED << pipe, input >>
                      /\ \A j \in Tasks : pc'[j] \notin {"unspawned", "waiting"}
                                        => pc[j] \notin {"unspawned", "waiting"}
  BY <1>10 DEF AttemptFails, Broadcast
<1>11. ASSUME NEW i \in Tasks, BackoffElapses(i)
       PROVE  /\ UNCHANGED << pipe, input >>
                      /\ \A j \in Tasks : pc'[j] \notin {"unspawned", "waiting"}
                                        => pc[j] \notin {"unspawned", "waiting"}
  BY <1>11 DEF BackoffElapses
<1>12. ASSUME NEW i \in Tasks, PluginHangs(i)
       PROVE  /\ UNCHANGED << pipe, input >>
                      /\ \A j \in Tasks : pc'[j] \notin {"unspawned", "waiting"}
                                        => pc[j] \notin {"unspawned", "waiting"}
  BY <1>12 DEF PluginHangs
<1>13. ASSUME NEW i \in Tasks, PluginPanics(i)
       PROVE  /\ UNCHANGED << pipe, input >>
                      /\ \A j \in Tasks : pc'[j] \notin {"unspawned", "waiting"}
                                        => pc[j] \notin {"unspawned", "waiting"}
  BY <1>13 DEF PluginPanics
<1>14. ASSUME NEW i \in Tasks, EndTask(i)
       PROVE  /\ UNCHANGED << pipe, input >>
                      /\ \A j \in Tasks : pc'[j] \notin {"unspawned", "waiting"}
                                        => pc[j] \notin {"unspawned", "waiting"}
  BY <1>14 DEF EndTask
<1>15. ASSUME NEW i \in Tasks, JoinOk(i)
       PROVE  /\ UNCHANGED << pipe, input >>
                      /\ \A j \in Tasks : pc'[j] \notin {"unspawned", "waiting"}
                                        => pc[j] \notin {"unspawned", "waiting"}
  BY <1>15 DEF JoinOk, Joinable
<1>16. ASSUME NEW i \in Tasks, JoinErr(i)
       PROVE  /\ UNCHANGED << pipe, input >>
                      /\ \A j \in Tasks : pc'[j] \notin {"unspawned", "waiting"}
                                        => pc[j] \notin {"unspawned", "waiting"}
  BY <1>16 DEF JoinErr, Joinable
<1>17. ASSUME NEW i \in Tasks, JoinPanic(i)
       PROVE  /\ UNCHANGED << pipe, input >>
                      /\ \A j \in Tasks : pc'[j] \notin {"unspawned", "waiting"}
                                        => pc[j] \notin {"unspawned", "waiting"}
  BY <1>17 DEF JoinPanic, Joinable
<1>18. CASE UNCHANGED vars
  BY <1>18 DEF vars
<1> QED
  BY <1>1, <1>2, <1>3, <1>4, <1>5, <1>6, <1>7, <1>8, <1>9,
     <1>10, <1>11, <1>12, <1>13, <1>14, <1>15, <1>16, <1>17, <1>18
     DEF Next, CallStep, TaskStep, SpawnStep, JoinStep, Idle, PluginErr, TimeoutElapses

\* Nothing a task has waited for goes away again.
LEMMA StepWaited ==
  ASSUME TypeOK, SpawnedInv, ResultInv, ChannelInv, WaitedInv, [Next]_vars
  PROVE  WaitedInv'
<1>0. pipe \in Pipelines
  BY DEF TypeOK
<1>1. \A n \in Names(pipe) : Sent(n) => channel'[n] = channel[n] /\ Sent(n)'
  BY ChannelsKeepValues
<1>2. \A j \in Tasks : pc[j] # "unspawned" =>
         /\ Awaited(Stage(j)) \subseteq Names(pipe)
         /\ Stage(j).input # SEED_INPUT => Stage(j).input \in Awaited(Stage(j))
  BY DEF SpawnedInv, Awaited
<1>3. CASE ~ \E i \in Tasks : AwaitDependencies(i)
  <2>1. /\ UNCHANGED << pipe, input >>
        /\ \A j \in Tasks : pc'[j] \notin {"unspawned", "waiting"}
                          => pc[j] \notin {"unspawned", "waiting"}
    BY <1>3, WaitingFrame
  <2> SUFFICES ASSUME NEW j \in Tasks, pc'[j] \notin {"unspawned", "waiting"}
               PROVE  /\ \A n \in Awaited(Stage(j)) : Sent(n)'
                      /\ input[j] = IF Stage(j).input = SEED_INPUT
                                    THEN Seed
                                    ELSE channel'[Stage(j).input]
    BY <2>1 DEF WaitedInv, Tasks, Stage
  <2>2. /\ pc[j] \notin {"unspawned", "waiting"}
        /\ \A n \in Awaited(Stage(j)) : Sent(n)
        /\ input[j] = IF Stage(j).input = SEED_INPUT
                      THEN Seed
                      ELSE channel[Stage(j).input]
    BY <2>1 DEF WaitedInv
  <2> QED
    BY <1>1, <1>2, <2>2
<1>4. ASSUME NEW i \in Tasks, AwaitDependencies(i)
      PROVE  WaitedInv'
  BY <1>4, <1>0, PipelineShape DEF AwaitDependencies, WaitedInv, TypeOK, Sent, Tasks, Stage
<1> QED
  BY <1>3, <1>4

-----------------------------------------------------------------------------
(***************************************************************************)
(* Permits                                                                 *)
(***************************************************************************)

\* Finitely many tasks hold permits.
LEMMA HoldersFinite ==
  ASSUME pipe \in Pipelines
  PROVE  IsFiniteSet(Holders) /\ Cardinality(Holders) \in Nat
<1>1. IsFiniteSet(Tasks)
  BY PipelineShape, FS_Interval
<1>2. IsFiniteSet(Holders)
  BY <1>1, FS_Subset DEF Holders
<1> QED
  BY <1>2, FS_CardinalityType

\* A task that takes a permit, or gives one back, keeps the books balanced.
LEMMA TakePermit ==
  ASSUME TypeOK, PermitsBalance, NEW i, i \notin Holders, permits > 0,
         Holders' = Holders \cup {i}, permits' = permits - 1, pipe' = pipe
  PROVE  PermitsBalance'
<1>1. /\ IsFiniteSet(Holders) /\ Cardinality(Holders) \in Nat
      /\ permits \in Nat
  BY HoldersFinite DEF TypeOK
<1>2. Cardinality(Holders \cup {i}) = Cardinality(Holders) + 1
  BY <1>1, FS_AddElement
<1>3. Cardinality(Holders') = Cardinality(Holders) + 1
  BY <1>2
<1> QED
  BY <1>1, <1>3 DEF PermitsBalance

\* The same for a task that gives its permit back.
LEMMA GivePermitBack ==
  ASSUME TypeOK, PermitsBalance, NEW i, i \in Holders,
         Holders' = Holders \ {i}, permits' = permits + 1, pipe' = pipe
  PROVE  PermitsBalance'
<1>1. /\ IsFiniteSet(Holders) /\ Cardinality(Holders) \in Nat
      /\ permits \in Nat
  BY HoldersFinite DEF TypeOK
<1>2. Cardinality(Holders \ {i}) = Cardinality(Holders) - 1
  BY <1>1, FS_RemoveElement
<1>3. Cardinality(Holders') = Cardinality(Holders) - 1
  BY <1>2
<1> QED
  BY <1>1, <1>3 DEF PermitsBalance

\* Every step keeps the books of the semaphore balanced.
LEMMA StepPermits ==
  ASSUME TypeOK, SpawnedInv, PermitsBalance, [Next]_vars
  PROVE  PermitsBalance'
<1>0. pipe \in Pipelines
  BY DEF TypeOK
<1> USE <1>0, PipelineShape, HoldersFinite DEF TypeOK, PermitsBalance, Holders, Holding, Tasks
<1>1. CASE Admit
  BY <1>1 DEF Admit
<1>2. CASE Reject
  BY <1>2 DEF Reject
<1>3. CASE StartJoining
  BY <1>3 DEF StartJoining
<1>4. CASE Return
  BY <1>4 DEF Return
<1>5. ASSUME NEW i \in Tasks, Spawn(i)
      PROVE  PermitsBalance'
  BY <1>5 DEF Spawn, NextToSpawn
<1>6. ASSUME NEW i \in Tasks, SpawnPanics(i)
      PROVE  PermitsBalance'
  BY <1>6 DEF SpawnPanics
<1>7. ASSUME NEW i \in Tasks, AwaitDependencies(i)
      PROVE  PermitsBalance'
  BY <1>7 DEF AwaitDependencies
<1>8. ASSUME NEW i \in Tasks, StartPlugin(i)
      PROVE  PermitsBalance'
  <2>1. /\ Holders' = Holders \cup {i}
        /\ i \notin Holders
        /\ permits > 0 /\ permits' = permits - 1
        /\ pipe' = pipe
    BY <1>8, PluginIsRegistered
  <2> QED
    BY <2>1, TakePermit
<1>9. ASSUME NEW i \in Tasks, PluginOk(i)
      PROVE  PermitsBalance'
  BY <1>9 DEF PluginOk, Broadcast
<1>10. ASSUME NEW i \in Tasks, TasksAlive, pc[i] \in {"running", "hung"}, AttemptFails(i)
       PROVE  PermitsBalance'
  <2>1. Holders' = Holders /\ UNCHANGED << permits, pipe >>
    BY <1>10 DEF AttemptFails
  <2> QED
    BY <2>1
<1>11. ASSUME NEW i \in Tasks, BackoffElapses(i)
       PROVE  PermitsBalance'
  BY <1>11 DEF BackoffElapses
<1>12. ASSUME NEW i \in Tasks, PluginHangs(i)
       PROVE  PermitsBalance'
  BY <1>12 DEF PluginHangs
<1>13. ASSUME NEW i \in Tasks, PluginPanics(i)
       PROVE  PermitsBalance'
  <2>1. /\ Holders' = Holders \ {i}
        /\ i \in Holders
        /\ permits' = permits + 1
        /\ pipe' = pipe
    BY <1>13 DEF PluginPanics
  <2> QED
    BY <2>1, GivePermitBack
<1>14. ASSUME NEW i \in Tasks, EndTask(i)
       PROVE  PermitsBalance'
  <2>1. /\ Holders' = Holders \ {i}
        /\ i \in Holders
        /\ permits' = permits + 1
        /\ pipe' = pipe
    BY <1>14 DEF EndTask
  <2> QED
    BY <2>1, GivePermitBack
<1>15. ASSUME NEW i \in Tasks, JoinOk(i)
       PROVE  PermitsBalance'
  BY <1>15 DEF JoinOk, Joinable
<1>16. ASSUME NEW i \in Tasks, JoinErr(i)
       PROVE  PermitsBalance'
  BY <1>16 DEF JoinErr, Joinable
<1>17. ASSUME NEW i \in Tasks, JoinPanic(i)
       PROVE  PermitsBalance'
  BY <1>17 DEF JoinPanic, Joinable
<1>18. CASE UNCHANGED vars
  BY <1>18 DEF vars
<1> QED
  BY <1>1, <1>2, <1>3, <1>4, <1>5, <1>6, <1>7, <1>8, <1>9,
     <1>10, <1>11, <1>12, <1>13, <1>14, <1>15, <1>16, <1>17, <1>18
     DEF Next, CallStep, TaskStep, SpawnStep, JoinStep, Idle, PluginErr, TimeoutElapses

-----------------------------------------------------------------------------
(***************************************************************************)
(* The join loop                                                           *)
(***************************************************************************)

\* Sets that agree on S have the same union over S.
LEMMA SameUnion ==
  ASSUME NEW I, NEW J, I = J, NEW f, NEW g, \A j \in J : f[j] = g[j]
  PROVE  UNION {f[j] : j \in I} = UNION {g[j] : j \in J}
OBVIOUS

\* A step that joins nothing and changes nothing of what was joined.
LEMMA JoinFrame ==
  ASSUME JoinInv, UNCHANGED << pipe, phase, graph, firstError >>,
         Joined' = Joined,
         \A j \in Joined : output'[j] = output[j] /\ result'[j] = result[j],
         firstError # 0 => result'[firstError] = result[firstError]
  PROVE  JoinInv'
<1>1. UNION {output'[j] : j \in Joined'} = UNION {output[j] : j \in Joined}
  BY SameUnion
<1> QED
  BY <1>1 DEF JoinInv, Tasks

\* Every step keeps the graph and the kept error in line with the tasks joined
\* (engine.rs, the join loop of execute).
LEMMA StepJoin ==
  ASSUME TypeOK, SpawnedInv, ResultInv, JoinInv, [Next]_vars
  PROVE  JoinInv'
<1>0. pipe \in Pipelines
  BY DEF TypeOK
<1> USE <1>0, PipelineShape DEF TypeOK, SpawnedInv, ResultInv, Over, JoinInv, Joined, TasksAlive, Tasks
<1>1. CASE Admit
  BY <1>1 DEF Admit
<1>2. CASE Reject
  BY <1>2 DEF Reject
<1>3. CASE StartJoining
  BY <1>3 DEF StartJoining
<1>4. CASE Return
  BY <1>4 DEF Return
<1>5. ASSUME NEW i \in Tasks, Spawn(i)
      PROVE  JoinInv'
  BY <1>5 DEF Spawn, NextToSpawn
<1>6. ASSUME NEW i \in Tasks, SpawnPanics(i)
      PROVE  JoinInv'
  BY <1>6 DEF SpawnPanics
<1>7. ASSUME NEW i \in Tasks, AwaitDependencies(i)
      PROVE  JoinInv'
  BY <1>7 DEF AwaitDependencies
<1>8. ASSUME NEW i \in Tasks, StartPlugin(i)
      PROVE  JoinInv'
  BY <1>8, PluginIsRegistered
<1>9. ASSUME NEW i \in Tasks, PluginOk(i)
      PROVE  JoinInv'
  <2>1. /\ UNCHANGED << pipe, phase, graph, firstError >>
        /\ Joined' = Joined
        /\ \A j \in Joined : output'[j] = output[j] /\ result'[j] = result[j]
        /\ firstError # 0 => result'[firstError] = result[firstError]
    BY <1>9 DEF PluginOk, Broadcast
  <2> QED
    BY <2>1, JoinFrame
<1>10. ASSUME NEW i \in Tasks, TasksAlive, pc[i] \in {"running", "hung"}, AttemptFails(i)
       PROVE  JoinInv'
  BY <1>10 DEF AttemptFails, Broadcast
<1>11. ASSUME NEW i \in Tasks, BackoffElapses(i)
       PROVE  JoinInv'
  BY <1>11 DEF BackoffElapses
<1>12. ASSUME NEW i \in Tasks, PluginHangs(i)
       PROVE  JoinInv'
  BY <1>12 DEF PluginHangs
<1>13. ASSUME NEW i \in Tasks, PluginPanics(i)
       PROVE  JoinInv'
  <2>1. /\ UNCHANGED << pipe, phase, graph, firstError >>
        /\ Joined' = Joined
        /\ \A j \in Joined : output'[j] = output[j] /\ result'[j] = result[j]
        /\ firstError # 0 => result'[firstError] = result[firstError]
    BY <1>13 DEF PluginPanics
  <2> QED
    BY <2>1, JoinFrame
<1>14. ASSUME NEW i \in Tasks, EndTask(i)
       PROVE  JoinInv'
  BY <1>14 DEF EndTask
<1>15. ASSUME NEW i \in Tasks, JoinOk(i)
       PROVE  JoinInv'
  BY <1>15 DEF JoinOk, Joinable
<1>16. ASSUME NEW i \in Tasks, JoinErr(i)
       PROVE  JoinInv'
  BY <1>16 DEF JoinErr, Joinable
<1>17. ASSUME NEW i \in Tasks, JoinPanic(i)
       PROVE  JoinInv'
  BY <1>17 DEF JoinPanic, Joinable
<1>18. CASE UNCHANGED vars
  BY <1>18 DEF vars
<1> QED
  BY <1>1, <1>2, <1>3, <1>4, <1>5, <1>6, <1>7, <1>8, <1>9,
     <1>10, <1>11, <1>12, <1>13, <1>14, <1>15, <1>16, <1>17, <1>18
     DEF Next, CallStep, TaskStep, SpawnStep, JoinStep, Idle, PluginErr, TimeoutElapses

-----------------------------------------------------------------------------
(***************************************************************************)
(* The inductive invariant                                                 *)
(***************************************************************************)

\* The initial state satisfies the invariant.
LEMMA InitIInv == Init => IInv
<1> SUFFICES ASSUME Init PROVE IInv
  OBVIOUS
<1>0. pipe \in Pipelines
  BY DEF Init
<1>1. TypeOK /\ SpawnedInv
  BY InitTypes
<1>2. ResultInv
  BY DEF Init, ResultInv, Over
<1>3. ChannelInv
  BY <1>0, PipelineShape DEF Init, ChannelInv, Sent
<1>4. WaitedInv
  BY DEF Init, WaitedInv
<1>5. AttemptInv
  BY <1>0, PipelineShape, MaxAttemptsBound DEF Init, AttemptInv, NotYetRun, Attempting
<1>6. PermitsBalance
  <2>1. Holders = {}
    BY DEF Init, Holders, Holding
  <2>2. permits = Limit(pipe) /\ permits \in Nat
    BY <1>1 DEF Init, TypeOK
  <2> QED
    BY <2>1, <2>2, FS_EmptySet DEF PermitsBalance
<1>7. JoinInv
  <2>1. Joined = {}
    BY DEF Init, Joined
  <2> QED
    BY <2>1 DEF Init, JoinInv
<1> QED
  BY <1>1, <1>2, <1>3, <1>4, <1>5, <1>6, <1>7 DEF IInv

\* Every step keeps the invariant.
LEMMA StepIInv == IInv /\ [Next]_vars => IInv'
<1> SUFFICES ASSUME IInv, [Next]_vars PROVE IInv'
  OBVIOUS
<1> USE DEF IInv
<1>1. TypeOK' /\ SpawnedInv'
  BY StepTypes
<1>2. ResultInv' /\ AttemptInv'
  BY StepResult, StepAttempt
<1>3. ChannelInv' /\ WaitedInv'
  BY StepChannel, StepWaited
<1>4. PermitsBalance'
  BY StepPermits
<1>5. JoinInv'
  BY StepJoin
<1> QED
  BY <1>1, <1>2, <1>3, <1>4, <1>5

\* The invariant holds in every run of execute (engine.rs), for any pipelines.
THEOREM Invariance == Spec => []IInv
BY InitIInv, StepIInv, PTL DEF Spec

-----------------------------------------------------------------------------
(***************************************************************************)
(* The safety properties                                                   *)
(***************************************************************************)

\* Permits are never lost or made: at most `concurrency` plugins run at once,
\* whatever fails, times out or panics (engine.rs, execute).
THEOREM PermitsBalanced == Spec => []PermitsBalance
<1>1. IInv => PermitsBalance
  BY DEF IInv
<1> QED
  BY <1>1, Invariance, PTL

\* A stage starts after everything it depends on has ended, whatever the
\* pipeline, the order of its stages and the interleaving of their tasks.
THEOREM DependenciesFirst == Spec => []DependencyOrder
<1>1. IInv => DependencyOrder
  <2> SUFFICES ASSUME IInv, NEW i \in Tasks, NEW j \in Tasks,
                      Stage(j).name \in Dependencies(Stage(i)) \ {SEED_INPUT},
                      pc[i] \notin {"unspawned", "waiting"}
               PROVE  /\ pc[j] \in {"sent", "done", "joined"}
                      /\ result[j] \in {"ok", "err"}
    BY DEF DependencyOrder
  <2>1. Stage(j).name \in Awaited(Stage(i))
    BY DEF Dependencies, Awaited
  <2>2. Sent(Stage(j).name)
    BY <2>1 DEF IInv, WaitedInv
  <2>3. result[j] \in {"ok", "err"}
    BY <2>2 DEF IInv, ChannelInv
  <2> QED
    BY <2>3 DEF IInv, ResultInv, Over
<1> QED
  BY <1>1, Invariance, PTL

\* A stage's input is the final answer of its input stage, or the seed.
THEOREM InputsAreAnswers == Spec => []InputProvenance
<1>1. IInv => InputProvenance
  <2> SUFFICES ASSUME IInv, NEW i \in Tasks,
                      pc[i] \notin {"unspawned", "waiting"},
                      Stage(i).input # SEED_INPUT
               PROVE  \E j \in Tasks :
                         /\ Stage(j).name = Stage(i).input
                         /\ input[i] = IF result[j] = "ok" THEN output[j] ELSE {}
    BY DEF InputProvenance, IInv, WaitedInv
  <2>1. Stage(i).input \in Awaited(Stage(i))
    BY DEF Awaited
  <2>2. /\ Stage(i).input \in Names(pipe)
        /\ Sent(Stage(i).input)
        /\ input[i] = channel[Stage(i).input]
    BY <2>1 DEF IInv, SpawnedInv, WaitedInv
  <2>3. PICK j \in Tasks : Stage(j).name = Stage(i).input
    BY <2>2 DEF Names, Tasks, Stage
  <2>4. input[i] = IF result[j] = "ok" THEN output[j] ELSE {}
    BY <2>2, <2>3 DEF IInv, ChannelInv
  <2> QED
    BY <2>3, <2>4
<1> QED
  BY <1>1, Invariance, PTL

\* execute returns a complete graph or the error of a stage that failed.
THEOREM VerdictIsRight == Spec => []VerdictMatchesStages
<1>1. IInv => VerdictMatchesStages
  <2> SUFFICES ASSUME IInv PROVE VerdictMatchesStages
    OBVIOUS
  <2>1. phase \in {"ok", "err"} => Joined = Tasks
    BY DEF IInv, JoinInv
  <2>2. phase = "ok" => \A i \in Tasks : result[i] = "ok"
    BY <2>1 DEF IInv, JoinInv
  <2>3. phase = "ok" => graph = Seed \cup UNION {output[i] : i \in Tasks}
    BY <2>1 DEF IInv, JoinInv
  <2>4. phase = "err" => firstError \in Tasks /\ result[firstError] = "err"
    BY DEF IInv, JoinInv, TypeOK
  <2> QED
    BY <2>2, <2>3, <2>4 DEF VerdictMatchesStages
<1> QED
  BY <1>1, Invariance, PTL

\* A stage is given up only when its retries are used up.
THEOREM RetriesAreUsed == Spec => []RetriesExhausted
<1>1. IInv => RetriesExhausted
  <2> SUFFICES ASSUME IInv, NEW i \in Tasks
               PROVE  /\ attempt[i] <= Stage(i).retries + 1
                      /\ result[i] = "err" /\ Stage(i).retries + 1 < U32
                           => attempt[i] = Stage(i).retries + 1
    BY DEF RetriesExhausted
  <2>1. Stage(i) \in StageDef
    BY PipelineShape DEF IInv, TypeOK
  <2>2. /\ attempt[i] <= Stage(i).retries + 1
        /\ result[i] = "err" => attempt[i] >= MaxAttempts(Stage(i))
        /\ attempt[i] \in Nat
    BY DEF IInv, AttemptInv, TypeOK
  <2> QED
    BY <2>1, <2>2, MaxAttemptsBound
<1> QED
  BY <1>1, Invariance, PTL

\* No pipeline that preflight accepts can block: while tasks are left, one of
\* them can move.  The argument takes the acyclic dependencies, the broadcast
\* of failed stages and the permits together: if no task is in its plugin or
\* over, all permits are free, so nobody waits for one; of the stages that
\* wait for others, one depends on none of the rest, and what it depends on
\* has ended and has therefore broadcast.
THEOREM NobodyIsStuck == Spec => []NoCircularWait
<1>1. IInv => NoCircularWait
  <2> SUFFICES ASSUME IInv, phase = "joining",
                      NEW k \in Tasks, pc[k] # "joined",
                      \A i \in Tasks : ~ CanStep(i)
               PROVE  FALSE
    BY DEF NoCircularWait
  <2>0. pipe \in Pipelines
    BY DEF IInv, TypeOK
  <2>1. \A i \in Tasks : pc[i] \in {"waiting", "acquiring", "joined"}
    BY DEF CanStep, IInv, TypeOK, SpawnedInv
  <2>2. permits > 0
    <3>1. Holders = {}
      BY <2>1 DEF Holders, Holding
    <3>2. permits + 0 = Limit(pipe)
      BY <3>1, FS_EmptySet DEF IInv, PermitsBalance
    <3>3. pipe.concurrency \in Nat
      BY <2>0, PipelineShape DEF PipelineDef
    <3> QED
      BY <3>2, <3>3 DEF Limit, IInv, TypeOK
  <2>3. \A i \in Tasks : pc[i] \in {"waiting", "joined"}
    BY <2>1, <2>2 DEF CanStep
  <2> DEFINE W == {i \in Tasks : pc[i] = "waiting"}
  <2>4. W # {} /\ W \in SUBSET DOMAIN pipe.stages
    BY <2>3 DEF Tasks
  <2>5. Acyclic(pipe)
    BY DEF IInv, SpawnedInv, Accepted
  <2>6. PICK i \in W : \A j \in W :
          pipe.stages[j].name \notin Dependencies(pipe.stages[i])
    BY <2>4, <2>5 DEF Acyclic
  <2>7. \A n \in Awaited(Stage(i)) : Sent(n)
    <3> SUFFICES ASSUME NEW n \in Awaited(Stage(i)) PROVE Sent(n)
      OBVIOUS
    <3>1. n \in Names(pipe)
      BY <2>6 DEF IInv, SpawnedInv
    <3>2. PICK j \in Tasks : Stage(j).name = n
      BY <3>1 DEF Names, Tasks, Stage
    <3>3. n \in Dependencies(Stage(i))
      BY DEF Awaited, Dependencies
    <3>4. j \notin W
      BY <2>6, <3>2, <3>3 DEF Stage
    <3>5. pc[j] = "joined"
      BY <2>3, <3>4
    <3>6. result[j] \in {"ok", "err"}
      BY <3>5 DEF IInv, ResultInv, Over, TypeOK
    <3> QED
      BY <3>2, <3>6 DEF IInv, ChannelInv
  <2> QED
    BY <2>6, <2>7 DEF CanStep
<1> QED
  BY <1>1, Invariance, PTL

-----------------------------------------------------------------------------
(***************************************************************************)
(* What a step may never do                                                *)
(***************************************************************************)

\* Nothing of a task that is over changes any more.
LEMMA OverIsOver ==
  ASSUME TypeOK, SpawnedInv, NEW j \in Tasks, pc[j] \in Over, [Next]_vars
  PROVE  attempt'[j] = attempt[j] /\ output'[j] = output[j]
<1>0. pipe \in Pipelines
  BY DEF TypeOK
<1> USE <1>0, PipelineShape DEF TypeOK, Over, Tasks
<1>1. CASE Admit
  BY <1>1 DEF Admit
<1>2. CASE Reject
  BY <1>2 DEF Reject
<1>3. CASE StartJoining
  BY <1>3 DEF StartJoining
<1>4. CASE Return
  BY <1>4 DEF Return
<1>5. ASSUME NEW i \in Tasks, Spawn(i)
      PROVE  attempt'[j] = attempt[j] /\ output'[j] = output[j]
  BY <1>5 DEF Spawn, NextToSpawn
<1>6. ASSUME NEW i \in Tasks, SpawnPanics(i)
      PROVE  attempt'[j] = attempt[j] /\ output'[j] = output[j]
  BY <1>6 DEF SpawnPanics
<1>7. ASSUME NEW i \in Tasks, AwaitDependencies(i)
      PROVE  attempt'[j] = attempt[j] /\ output'[j] = output[j]
  BY <1>7 DEF AwaitDependencies
<1>8. ASSUME NEW i \in Tasks, StartPlugin(i)
      PROVE  attempt'[j] = attempt[j] /\ output'[j] = output[j]
  BY <1>8, PluginIsRegistered
<1>9. ASSUME NEW i \in Tasks, PluginOk(i)
      PROVE  attempt'[j] = attempt[j] /\ output'[j] = output[j]
  BY <1>9 DEF PluginOk, Broadcast
<1>10. ASSUME NEW i \in Tasks, TasksAlive, pc[i] \in {"running", "hung"}, AttemptFails(i)
       PROVE  attempt'[j] = attempt[j] /\ output'[j] = output[j]
  BY <1>10 DEF AttemptFails, Broadcast
<1>11. ASSUME NEW i \in Tasks, BackoffElapses(i)
       PROVE  attempt'[j] = attempt[j] /\ output'[j] = output[j]
  BY <1>11 DEF BackoffElapses
<1>12. ASSUME NEW i \in Tasks, PluginHangs(i)
       PROVE  attempt'[j] = attempt[j] /\ output'[j] = output[j]
  BY <1>12 DEF PluginHangs
<1>13. ASSUME NEW i \in Tasks, PluginPanics(i)
       PROVE  attempt'[j] = attempt[j] /\ output'[j] = output[j]
  BY <1>13 DEF PluginPanics
<1>14. ASSUME NEW i \in Tasks, EndTask(i)
       PROVE  attempt'[j] = attempt[j] /\ output'[j] = output[j]
  BY <1>14 DEF EndTask
<1>15. ASSUME NEW i \in Tasks, JoinOk(i)
       PROVE  attempt'[j] = attempt[j] /\ output'[j] = output[j]
  BY <1>15 DEF JoinOk, Joinable
<1>16. ASSUME NEW i \in Tasks, JoinErr(i)
       PROVE  attempt'[j] = attempt[j] /\ output'[j] = output[j]
  BY <1>16 DEF JoinErr, Joinable
<1>17. ASSUME NEW i \in Tasks, JoinPanic(i)
       PROVE  attempt'[j] = attempt[j] /\ output'[j] = output[j]
  BY <1>17 DEF JoinPanic, Joinable
<1>18. CASE UNCHANGED vars
  BY <1>18 DEF vars
<1> QED
  BY <1>1, <1>2, <1>3, <1>4, <1>5, <1>6, <1>7, <1>8, <1>9,
     <1>10, <1>11, <1>12, <1>13, <1>14, <1>15, <1>16, <1>17, <1>18
     DEF Next, CallStep, TaskStep, SpawnStep, JoinStep, Idle, PluginErr, TimeoutElapses

\* Dependents can rely on what they read: a broadcast is made once, after the
\* last attempt.
THEOREM BroadcastsAreFinal == Spec => BroadcastIsFinal
<1>1. IInv /\ [Next]_vars =>
        [\A i \in Tasks :
           Sent(Stage(i).name) =>
             /\ channel'[Stage(i).name] = channel[Stage(i).name]
             /\ attempt'[i] = attempt[i]
             /\ output'[i] = output[i]]_vars
  <2> SUFFICES ASSUME IInv, [Next]_vars, NEW i \in Tasks, Sent(Stage(i).name)
               PROVE  /\ channel'[Stage(i).name] = channel[Stage(i).name]
                      /\ attempt'[i] = attempt[i]
                      /\ output'[i] = output[i]
    OBVIOUS
  <2>1. Stage(i).name \in Names(pipe)
    BY PipelineShape DEF IInv, TypeOK
  <2>2. channel'[Stage(i).name] = channel[Stage(i).name]
    BY <2>1, ChannelsKeepValues DEF IInv
  <2>3. pc[i] \in Over
    BY DEF IInv, ChannelInv, ResultInv
  <2>4. attempt'[i] = attempt[i] /\ output'[i] = output[i]
    BY <2>3, OverIsOver DEF IInv
  <2> QED
    BY <2>2, <2>4
<1> QED
  BY <1>1, Invariance, PTL DEF Spec, BroadcastIsFinal

-----------------------------------------------------------------------------
(***************************************************************************)
(* Engine implements StageSchedule: the initial states map to initial      *)
(* states, and every step to a step of the schedule or to none.  One lemma *)
(* for every kind of step; the inductive invariant says what the mapped    *)
(* guards need.                                                            *)
(***************************************************************************)

\* The status that goes with a place and a result.
LEMMA Statuses ==
  ASSUME NEW place \in NotYetRun \cup Attempting \cup Over,
         NEW outcome \in {"none", "ok", "err", "panic"}
  PROVE  /\ place \in NotYetRun => StatusAt(place, outcome) = "idle"
         /\ place \in Attempting => StatusAt(place, outcome) = "running"
         /\ place \in Over /\ outcome = "ok" => StatusAt(place, outcome) = "succeeded"
         /\ place \in Over /\ outcome = "err" => StatusAt(place, outcome) = "failed"
         /\ place \in Over /\ outcome = "panic" => StatusAt(place, outcome) = "crashed"
BY DEF StatusAt, SettledAs, NotYetRun, Attempting, Over

\* The two modules look at a pipeline with the same eyes.
LEMMA SamePipeline ==
  /\ \A p : Schedule!Accepted(p) <=> Accepted(p)
  /\ \A p : Schedule!Limit(p) = Limit(p)
  /\ \A p : Schedule!Names(p) = Names(p)
  /\ \A s : Schedule!Dependencies(s) = Dependencies(s)
  /\ Schedule!SEED_INPUT = SEED_INPUT
  /\ Schedule!Stages = Tasks
<1>1. /\ \A p : Schedule!Names(p) = Names(p)
      /\ \A s : Schedule!Dependencies(s) = Dependencies(s)
      /\ Schedule!SEED_INPUT = SEED_INPUT
      /\ Schedule!Stages = Tasks
  BY DEF Schedule!Names, Names, Schedule!Dependencies, Dependencies,
         Schedule!SEED_INPUT, SEED_INPUT, Schedule!Stages, Tasks
<1>2. \A p : Schedule!Validate(p) <=> Validate(p)
  BY <1>1 DEF Schedule!Validate, Validate, Schedule!UniqueNames, UniqueNames,
              Schedule!KnownDependencies, KnownDependencies
<1>3. \A p : Schedule!Acyclic(p) <=> Acyclic(p)
  BY <1>1 DEF Schedule!Acyclic, Acyclic
<1>4. \A p : Schedule!Accepted(p) <=> Accepted(p)
  BY <1>2, <1>3 DEF Schedule!Accepted, Accepted
<1>5. \A p : Schedule!Limit(p) = Limit(p)
  BY DEF Schedule!Limit, Limit
<1> QED
  BY <1>1, <1>4, <1>5

\* So do they at sizes.
LEMMA SameSize == \A S : Schedule!Cardinality(S) = Cardinality(S)
BY DEF Schedule!Cardinality, Cardinality

-----------------------------------------------------------------------------
(***************************************************************************)
(* How steps map                                                           *)
(***************************************************************************)

StatusMap == [i \in Tasks |-> StatusOf(i)]
ReportMap == IF phase = "ok" THEN graph ELSE {}

\* A step that changes the status of no stage and the verdict in no way is
\* none of the schedule.
LEMMA Stutters ==
  ASSUME UNCHANGED << pipe, output >>,
         \A i \in Tasks : StatusAt(pc'[i], result'[i]) = StatusAt(pc[i], result[i]),
         ~ Ended, ~ Ended'
  PROVE  UNCHANGED Schedule!scheduleVars
<1>1. StatusMap' = StatusMap
  BY DEF StatusMap, StatusOf, Tasks
<1>2. Verdict' = Verdict /\ ReportMap' = ReportMap
  BY DEF Verdict, ReportMap, Ended
<1> QED
  BY <1>1, <1>2 DEF Schedule!scheduleVars, StatusMap, ReportMap

\* A step of one task changes its status only, and it is for the task to say
\* how.
LEMMA StatusMoves ==
  ASSUME TypeOK, pipe' = pipe, NEW i \in Tasks,
         \A j \in Tasks \ {i} : pc'[j] = pc[j] /\ result'[j] = result[j]
  PROVE  StatusMap' = [StatusMap EXCEPT ![i] = StatusAt(pc'[i], result'[i])]
BY DEF StatusMap, StatusOf, Tasks

\* While tasks live, the call is not over and its pipeline was accepted.
LEMMA Underway ==
  ASSUME SpawnedInv, TasksAlive
  PROVE  /\ ~ Ended /\ Verdict = "pending" /\ ReportMap = {}
         /\ Schedule!Accepted(pipe)
BY SamePipeline DEF SpawnedInv, TasksAlive, Ended, Verdict, ReportMap

\* A stage starts when those it names are settled and a slot is free: it has
\* waited for them, and holds a permit.
LEMMA StartsOnSchedule ==
  ASSUME IInv, NEW i \in Tasks, StartPlugin(i)
  PROVE  Schedule!Start(i)
<1> USE DEF IInv
<1>1. /\ Stage(i).plugin \in Registry /\ TasksAlive /\ pc[i] = "acquiring"
      /\ pc' = [pc EXCEPT ![i] = "running"]
      /\ permits > 0
      /\ UNCHANGED << pipe, phase, output, result, graph >>
  BY PluginIsRegistered
<1>2. /\ Verdict = "pending" /\ Schedule!Accepted(pipe)
      /\ Verdict' = Verdict /\ ReportMap' = ReportMap
  BY <1>1, Underway DEF Verdict, ReportMap, Ended
<1>3. StatusMap[i] = "idle"
  BY <1>1 DEF StatusMap, StatusOf, StatusAt, NotYetRun
<1>4. StatusMap' = [StatusMap EXCEPT ![i] = "running"]
  <2>1. StatusAt(pc'[i], result'[i]) = "running"
    BY <1>1 DEF TypeOK, StatusAt, NotYetRun, Attempting
  <2>2. \A j \in Tasks \ {i} : pc'[j] = pc[j] /\ result'[j] = result[j]
    BY <1>1 DEF TypeOK
  <2> QED
    BY <1>1, <2>1, <2>2, StatusMoves
<1>5. ASSUME NEW j \in Tasks, Stage(j).name \in Dependencies(Stage(i)) \ {SEED_INPUT}
      PROVE  StatusMap[j] \in {"succeeded", "failed"}
  <2>1. Stage(j).name \in Awaited(Stage(i))
    BY <1>5 DEF Dependencies, Awaited
  <2>2. result[j] \in {"ok", "err"}
    BY <1>1, <2>1 DEF WaitedInv, ChannelInv
  <2>3. pc[j] \in Over
    BY <2>2 DEF ResultInv
  <2> QED
    BY <2>2, <2>3, Statuses DEF StatusMap, StatusOf, TypeOK
<1>6. Schedule!Predecessors(i) \subseteq Schedule!Settled
  BY <1>5, SamePipeline
  DEF Schedule!Predecessors, Schedule!Settled, StatusMap, Tasks, Stage
<1>7. Schedule!Cardinality(Schedule!Running) < Schedule!Limit(pipe)
  <2>1. Schedule!Running \subseteq Holders
    BY SamePipeline DEF Schedule!Running, StatusOf, StatusAt, SettledAs, TypeOK,
                        ResultInv, Holders, Holding, NotYetRun, Attempting, Over
  <2>2. Cardinality(Schedule!Running) <= Cardinality(Holders)
    BY <2>1, HoldersFinite, FS_Subset DEF TypeOK
  <2>3. Cardinality(Schedule!Running) \in Nat
    BY <2>1, HoldersFinite, FS_Subset, FS_CardinalityType DEF TypeOK
  <2>4. Cardinality(Holders) < Limit(pipe)
    BY <1>1, HoldersFinite DEF TypeOK, PermitsBalance
  <2>5. Limit(pipe) = permits + Cardinality(Holders)
    BY DEF PermitsBalance
  <2> QED
    BY <2>2, <2>3, <2>4, <2>5, HoldersFinite, SamePipeline, SameSize DEF TypeOK
<1> QED
  BY <1>1, <1>2, <1>3, <1>4, <1>6, <1>7 DEF Schedule!Start, StatusMap, ReportMap

\* An answer settles the stage with what it found.
LEMMA SucceedsOnSchedule ==
  ASSUME IInv, NEW i \in Tasks, PluginOk(i)
  PROVE  Schedule!Succeed(i)
<1> USE DEF IInv
<1>1. /\ TasksAlive /\ pc[i] = "running"
      /\ pc' = [pc EXCEPT ![i] = "sent"]
      /\ result' = [result EXCEPT ![i] = "ok"]
      /\ UNCHANGED << pipe, phase, graph >>
  BY DEF PluginOk
<1>2. /\ Verdict = "pending" /\ Verdict' = Verdict /\ ReportMap' = ReportMap
  BY <1>1, Underway DEF Verdict, ReportMap, Ended
<1>3. StatusMap[i] = "running"
  BY <1>1 DEF StatusMap, StatusOf, StatusAt, NotYetRun, Attempting
<1>4. StatusMap' = [StatusMap EXCEPT ![i] = "succeeded"]
  <2>1. StatusAt(pc'[i], result'[i]) = "succeeded"
    BY <1>1, Statuses DEF TypeOK, Over
  <2>2. \A j \in Tasks \ {i} : pc'[j] = pc[j] /\ result'[j] = result[j]
    BY <1>1 DEF TypeOK
  <2> QED
    BY <1>1, <2>1, <2>2, StatusMoves
<1>5. \E found \in Outputs : output' = [output EXCEPT ![i] = found]
  BY DEF PluginOk
<1> QED
  BY <1>1, <1>2, <1>3, <1>4, <1>5 DEF Schedule!Succeed, StatusMap, ReportMap

\* A failed attempt settles the stage if it was the last one, and is none of
\* the schedule's business otherwise.
LEMMA FailsOnSchedule ==
  ASSUME IInv, NEW i \in Tasks, TasksAlive, pc[i] \in {"running", "hung"}, AttemptFails(i)
  PROVE  Schedule!Fail(i) \/ UNCHANGED Schedule!scheduleVars
<1> USE DEF IInv
<1>1. /\ UNCHANGED << pipe, phase, output, graph >>
      /\ \/ pc' = [pc EXCEPT ![i] = "backoff"] /\ result' = result
         \/ pc' = [pc EXCEPT ![i] = "sent"] /\ result' = [result EXCEPT ![i] = "err"]
  BY DEF AttemptFails, Broadcast
<1>2. \A j \in Tasks \ {i} : pc'[j] = pc[j] /\ result'[j] = result[j]
  BY <1>1 DEF TypeOK
<1>3. ~ Ended /\ ~ Ended'
  BY <1>1, Underway DEF Ended
<1>4. StatusAt(pc[i], result[i]) = "running"
  BY DEF StatusAt, NotYetRun, Attempting
<1>5. CASE pc' = [pc EXCEPT ![i] = "backoff"] /\ result' = result
  <2>1. StatusAt(pc'[i], result'[i]) = "running"
    BY <1>5 DEF TypeOK, StatusAt, NotYetRun, Attempting
  <2> QED
    BY <1>1, <1>2, <1>3, <1>4, <2>1, Stutters
<1>6. CASE pc' = [pc EXCEPT ![i] = "sent"] /\ result' = [result EXCEPT ![i] = "err"]
  <2>1. StatusAt(pc'[i], result'[i]) = "failed"
    BY <1>6, Statuses DEF TypeOK, Over
  <2>2. StatusMap' = [StatusMap EXCEPT ![i] = "failed"]
    BY <1>1, <1>2, <2>1, StatusMoves
  <2>3. Verdict = "pending" /\ Verdict' = Verdict /\ ReportMap' = ReportMap
    BY <1>1, Underway DEF Verdict, ReportMap, Ended
  <2>4. StatusMap[i] = "running"
    BY <1>4 DEF StatusMap, StatusOf
  <2> QED
    BY <1>1, <2>2, <2>3, <2>4 DEF Schedule!Fail, StatusMap, ReportMap
<1> QED
  BY <1>1, <1>5, <1>6

\* A plugin that panics takes its stage out of the schedule.
LEMMA CrashesOnSchedule ==
  ASSUME IInv, NEW i \in Tasks, PluginPanics(i)
  PROVE  Schedule!Crash(i)
<1> USE DEF IInv
<1>1. /\ TasksAlive /\ pc[i] = "running"
      /\ pc' = [pc EXCEPT ![i] = "done"]
      /\ result' = [result EXCEPT ![i] = "panic"]
      /\ UNCHANGED << pipe, phase, output, graph >>
  BY DEF PluginPanics
<1>2. Verdict = "pending" /\ Verdict' = Verdict /\ ReportMap' = ReportMap
  BY <1>1, Underway DEF Verdict, ReportMap, Ended
<1>3. StatusMap[i] = "running"
  BY <1>1 DEF StatusMap, StatusOf, StatusAt, NotYetRun, Attempting
<1>4. StatusMap' = [StatusMap EXCEPT ![i] = "crashed"]
  <2>1. StatusAt(pc'[i], result'[i]) = "crashed"
    BY <1>1, Statuses DEF TypeOK, Over
  <2>2. \A j \in Tasks \ {i} : pc'[j] = pc[j] /\ result'[j] = result[j]
    BY <1>1 DEF TypeOK
  <2> QED
    BY <1>1, <2>1, <2>2, StatusMoves
<1> QED
  BY <1>1, <1>2, <1>3, <1>4 DEF Schedule!Crash, StatusMap, ReportMap

\* Waits, sleeps, hangs, the end of a task and the joining of its outcome are
\* not seen in the schedule.
LEMMA UnseenSteps ==
  ASSUME IInv, NEW i \in Tasks,
         \/ Spawn(i) \/ AwaitDependencies(i) \/ BackoffElapses(i) \/ PluginHangs(i)
         \/ EndTask(i) \/ JoinOk(i) \/ JoinErr(i)
  PROVE  UNCHANGED Schedule!scheduleVars
<1> USE DEF IInv, TypeOK
<1>1. /\ UNCHANGED << pipe, output, result, phase >>
      /\ ~ Ended /\ ~ Ended'
      /\ \A j \in Tasks \ {i} : pc'[j] = pc[j]
  BY DEF Spawn, NextToSpawn, AwaitDependencies, BackoffElapses, PluginHangs, EndTask,
         JoinOk, JoinErr, Joinable, TasksAlive, Ended
<1>2. \/ pc[i] \in NotYetRun /\ pc'[i] \in NotYetRun
      \/ pc[i] \in Attempting /\ pc'[i] \in Attempting
      \/ pc[i] \in Over /\ pc'[i] \in Over
  BY DEF Spawn, NextToSpawn, AwaitDependencies, BackoffElapses, PluginHangs, EndTask,
         JoinOk, JoinErr, Joinable, NotYetRun, Attempting, Over
<1>3. StatusAt(pc'[i], result[i]) = StatusAt(pc[i], result[i])
  BY <1>2 DEF StatusAt, NotYetRun, Attempting, Over
<1> QED
  BY <1>1, <1>3, Stutters

-----------------------------------------------------------------------------
(***************************************************************************)
(* How the verdict maps                                                    *)
(***************************************************************************)

\* Refusal, and the steps of the call that only take it further.
LEMMA PreflightOnSchedule ==
  ASSUME IInv, Admit \/ Reject \/ StartJoining
  PROVE  Schedule!Refuse \/ UNCHANGED Schedule!scheduleVars
<1>1. UNCHANGED << pipe, pc, output, result >>
  BY DEF Admit, Reject, StartJoining
<1>2. CASE Admit \/ StartJoining
  <2>1. ~ Ended /\ ~ Ended'
    BY <1>2 DEF Admit, StartJoining, Ended
  <2> QED
    BY <1>1, <2>1, Stutters
<1>3. CASE Reject
  <2>1. /\ Verdict = "pending" /\ Verdict' = "refused"
        /\ ReportMap' = ReportMap
        /\ ~ Schedule!Accepted(pipe)
    BY <1>3, SamePipeline DEF Reject, Verdict, Ended, ReturnedAs, ReportMap
  <2>2. StatusMap' = StatusMap
    BY <1>1 DEF StatusMap, StatusOf, Tasks
  <2> QED
    BY <1>1, <2>1, <2>2 DEF Schedule!Refuse, StatusMap, ReportMap
<1> QED
  BY <1>2, <1>3

\* execute panics because a plugin did, or because a stage awaits the seed.
LEMMA AbortsOnSchedule ==
  ASSUME IInv, NEW i \in Tasks, SpawnPanics(i) \/ JoinPanic(i)
  PROVE  Schedule!Abort
<1> USE DEF IInv
<1>1. /\ UNCHANGED << pipe, pc, output, result >>
      /\ phase \in {"spawning", "joining"} /\ phase' = "panicked"
  BY DEF SpawnPanics, NextToSpawn, JoinPanic, Joinable
<1>2. /\ Verdict = "pending" /\ Verdict' = "panic"
      /\ ReportMap' = ReportMap
  BY <1>1 DEF Verdict, Ended, ReturnedAs, ReportMap
<1>3. StatusMap' = StatusMap
  BY <1>1 DEF StatusMap, StatusOf, Tasks
<1>4. CASE SpawnPanics(i)
  <2>1. ~ (Awaited(Stage(i)) \subseteq Names(pipe))
    BY <1>4 DEF SpawnPanics
  <2>2. Dependencies(Stage(i)) \subseteq Names(pipe) \cup {SEED_INPUT}
    BY <1>1 DEF SpawnedInv, Accepted, Validate, KnownDependencies, Tasks, Stage
  <2>3. SEED_INPUT \in Stage(i).depends_on \ Names(pipe)
    BY <2>1, <2>2 DEF Awaited, Dependencies
  <2>4. Schedule!OrdersAfterSeed(pipe)
    BY <2>3, SamePipeline DEF Schedule!OrdersAfterSeed, Tasks, Stage
  <2>5. Schedule!Accepted(pipe)
    BY <1>1, SamePipeline DEF SpawnedInv
  <2> QED
    BY <1>1, <1>2, <1>3, <2>4, <2>5 DEF Schedule!Abort, StatusMap, ReportMap
<1>5. CASE JoinPanic(i)
  <2>1. StatusMap[i] = "crashed"
    BY <1>5, Statuses DEF JoinPanic, Joinable, StatusMap, StatusOf, TypeOK, Over
  <2>2. i \in Schedule!Crashed
    BY <2>1, SamePipeline DEF Schedule!Crashed, StatusMap
  <2> QED
    BY <1>1, <1>2, <1>3, <2>2 DEF Schedule!Abort, StatusMap, ReportMap
<1> QED
  BY <1>4, <1>5

\* execute returns when all stages are settled: an error if one failed, and
\* otherwise the seed and everything they found.
LEMMA ConcludesOnSchedule ==
  ASSUME IInv, Return
  PROVE  Schedule!Conclude
<1> USE DEF IInv
<1>1. /\ UNCHANGED << pipe, pc, output, result, graph >>
      /\ phase = "joining" /\ phase' = (IF firstError = 0 THEN "ok" ELSE "err")
      /\ \A i \in Tasks : pc[i] = "joined"
  BY DEF Return
<1>2. Verdict = "pending" /\ Verdict' = (IF firstError = 0 THEN "graph" ELSE "error")
  BY <1>1 DEF Verdict, Ended, ReturnedAs
<1>3. StatusMap' = StatusMap
  BY <1>1 DEF StatusMap, StatusOf, Tasks
<1>4. \A i \in Tasks : result[i] \in {"ok", "err"}
  BY <1>1 DEF ResultInv, TypeOK, Over
<1>5. \A i \in Tasks : StatusMap[i] = IF result[i] = "ok" THEN "succeeded" ELSE "failed"
  BY <1>1, <1>4, Statuses DEF StatusMap, StatusOf, TypeOK, Over
<1>6. Schedule!Settled = Schedule!Stages
  BY <1>5, SamePipeline DEF Schedule!Settled, StatusMap
<1>7. Schedule!Accepted(pipe)
  BY <1>1, SamePipeline DEF SpawnedInv
<1>8. Joined = Tasks
  BY <1>1 DEF Joined
<1>9. CASE firstError = 0
  <2>1. \A i \in Tasks : StatusMap[i] = "succeeded"
    BY <1>5, <1>8, <1>9 DEF JoinInv
  <2>2. ReportMap' = Seed \cup UNION {output[i] : i \in Tasks}
    BY <1>1, <1>8, <1>9 DEF ReportMap, JoinInv
  <2> QED
    BY <1>1, <1>2, <1>3, <1>6, <1>7, <1>9, <2>1, <2>2, SamePipeline
    DEF Schedule!Conclude, StatusMap, ReportMap
<1>10. CASE firstError # 0
  <2>1. firstError \in Tasks /\ StatusMap[firstError] = "failed"
    BY <1>5, <1>10 DEF JoinInv, TypeOK
  <2>2. ReportMap' = ReportMap
    BY <1>1, <1>10 DEF ReportMap
  <2> QED
    BY <1>1, <1>2, <1>3, <1>6, <1>7, <1>10, <2>1, <2>2, SamePipeline
    DEF Schedule!Conclude, StatusMap, ReportMap
<1> QED
  BY <1>9, <1>10

-----------------------------------------------------------------------------
(***************************************************************************)
(* The refinement                                                          *)
(***************************************************************************)

LEMMA InitOnSchedule == Init => Schedule!Init
<1> SUFFICES ASSUME Init PROVE Schedule!Init
  OBVIOUS
<1>1. StatusMap = [i \in Tasks |-> "idle"]
  BY DEF Init, StatusMap, StatusOf, StatusAt, NotYetRun
<1>2. Verdict = "pending" /\ ReportMap = {}
  BY DEF Init, Verdict, Ended, ReportMap
<1> QED
  BY <1>1, <1>2, SamePipeline DEF Init, Schedule!Init, StatusMap, ReportMap

LEMMA StepOnSchedule ==
  ASSUME IInv, [Next]_vars
  PROVE  [Schedule!Next]_(Schedule!scheduleVars)
<1>1. CASE Admit \/ Reject \/ StartJoining
  BY <1>1, PreflightOnSchedule DEF Schedule!Next
<1>2. CASE Return
  BY <1>2, ConcludesOnSchedule DEF Schedule!Next
<1>3. ASSUME NEW i \in Tasks, SpawnPanics(i) \/ JoinPanic(i)
      PROVE  [Schedule!Next]_(Schedule!scheduleVars)
  BY <1>3, AbortsOnSchedule DEF Schedule!Next
<1>4. ASSUME NEW i \in Tasks,
             \/ Spawn(i) \/ AwaitDependencies(i) \/ BackoffElapses(i) \/ PluginHangs(i)
             \/ EndTask(i) \/ JoinOk(i) \/ JoinErr(i)
      PROVE  [Schedule!Next]_(Schedule!scheduleVars)
  BY <1>4, UnseenSteps
<1>5. ASSUME NEW i \in Tasks, StartPlugin(i)
      PROVE  [Schedule!Next]_(Schedule!scheduleVars)
  BY <1>5, StartsOnSchedule, SamePipeline DEF Schedule!Next
<1>6. ASSUME NEW i \in Tasks, PluginOk(i)
      PROVE  [Schedule!Next]_(Schedule!scheduleVars)
  BY <1>6, SucceedsOnSchedule, SamePipeline DEF Schedule!Next
<1>7. ASSUME NEW i \in Tasks, PluginErr(i) \/ TimeoutElapses(i)
      PROVE  [Schedule!Next]_(Schedule!scheduleVars)
  <2>1. TasksAlive /\ pc[i] \in {"running", "hung"} /\ AttemptFails(i)
    BY <1>7 DEF PluginErr, TimeoutElapses
  <2> QED
    BY <2>1, FailsOnSchedule, SamePipeline DEF Schedule!Next
<1>8. ASSUME NEW i \in Tasks, PluginPanics(i)
      PROVE  [Schedule!Next]_(Schedule!scheduleVars)
  BY <1>8, CrashesOnSchedule, SamePipeline DEF Schedule!Next
<1>9. CASE Idle \/ UNCHANGED vars
  <2>1. UNCHANGED vars
    BY <1>9 DEF Idle
  <2> QED
    BY <2>1 DEF vars, Schedule!scheduleVars, StatusOf, Tasks, Verdict, Ended
<1> QED
  BY <1>1, <1>2, <1>3, <1>4, <1>5, <1>6, <1>7, <1>8, <1>9
  DEF Next, CallStep, TaskStep, SpawnStep, JoinStep

\* Whatever the pipeline and the interleaving, a call of execute (engine.rs)
\* is a schedule: stages start in the declared order and at most `concurrency`
\* at once, settle once, and the verdict covers every one of them.
THEOREM ExecuteKeepsSchedule == Spec => ImplementsSchedule
BY InitOnSchedule, StepOnSchedule, Invariance, PTL
DEF Spec, ImplementsSchedule, Schedule!Spec

=============================================================================
