------------------------------ MODULE ReconProofs ------------------------------
(***************************************************************************)
(* Proofs about Recon: a run is a run of Engine and one of EntityGraph, so *)
(* what is proved of them holds of it; what the command line says of a     *)
(* pipeline agrees with what execute does with it; and the graph that is   *)
(* printed holds everything that was found.                                *)
(***************************************************************************)
EXTENDS Recon, EngineProofs, SequenceTheorems, WellFoundedInduction

-----------------------------------------------------------------------------

\* A step of the process is a step of Engine, or Engine does not notice.
LEMMA ReconStep == [ReconNext]_reconVars => [Next]_vars
<1> SUFFICES ASSUME [ReconNext]_reconVars PROVE [Next]_vars
  OBVIOUS
<1>1. CASE Refuse \/ ValidatePipeline \/ PrintSnapshot \/ ReportError \/ Crash
  BY <1>1 DEF Refuse, ValidatePipeline, PrintSnapshot, ReportError, Crash, Exit
<1>2. CASE Preflight \/ AddSeed \/ ReturnGraph
  BY <1>2 DEF Preflight, AddSeed, ReturnGraph, Next, CallStep
<1>3. CASE AddNext \/ NothingLeft \/ UNCHANGED reconVars
  BY <1>3 DEF AddNext, NothingLeft, reconVars
<1>4. ASSUME NEW i \in Tasks, SpawnTask(i) \/ TakeOutcome(i) \/ TakeFailure(i)
      PROVE  [Next]_vars
  BY <1>4 DEF SpawnTask, TakeOutcome, TakeFailure, Next, JoinStep
<1>5. ASSUME NEW i \in Tasks, RunTask(i) \/ Answer(i) PROVE [Next]_vars
  BY <1>5 DEF RunTask, Answer, Next, TaskStep
<1> QED
  BY <1>1, <1>2, <1>3, <1>4, <1>5 DEF ReconNext, CallerStep

\* Whatever the command line does, execute behaves as Engine says
\* (main.rs:108-120), so every theorem about Engine is one about a run.
THEOREM ReconRunsEngine == ReconSpec => Spec
<1>1. ReconInit => Init
  BY DEF ReconInit
<1> QED
  BY <1>1, ReconStep, PTL DEF ReconSpec, Spec

-----------------------------------------------------------------------------
(***************************************************************************)
(* Inputs and answers                                                      *)
(***************************************************************************)

\* The steps of the call itself take no input and give no answer.
LEMMA CallIsQuiet ==
  ASSUME TypeOK, Admit \/ Reject \/ StartJoining \/ Return \/ UNCHANGED vars
  PROVE  UNCHANGED << pipe, input, output, result, pc >>
BY DEF Admit, Reject, StartJoining, Return, vars

\* Nor do most steps of a task.
LEMMA TaskIsQuiet ==
  ASSUME TypeOK, NEW i \in Tasks,
         \/ SpawnStep(i) \/ StartPlugin(i) \/ PluginErr(i) \/ TimeoutElapses(i)
         \/ BackoffElapses(i) \/ PluginHangs(i) \/ PluginPanics(i) \/ EndTask(i)
         \/ JoinStep(i)
  PROVE  /\ UNCHANGED << pipe, input, output >>
         /\ \A j \in Tasks : result'[j] = "ok" => result[j] = "ok"
         /\ \A j \in Tasks : pc'[j] \in {"unspawned", "waiting"}
                           => pc[j] \in {"unspawned", "waiting"}
<1> USE DEF TypeOK
<1>1. CASE SpawnStep(i)
  BY <1>1 DEF SpawnStep, Spawn, SpawnPanics, NextToSpawn
<1>2. CASE StartPlugin(i)
  BY <1>2 DEF StartPlugin
<1>3. CASE PluginErr(i) \/ TimeoutElapses(i)
  BY <1>3 DEF PluginErr, TimeoutElapses, AttemptFails
<1>4. CASE BackoffElapses(i)
  BY <1>4 DEF BackoffElapses
<1>5. CASE PluginHangs(i)
  BY <1>5 DEF PluginHangs
<1>6. CASE PluginPanics(i)
  BY <1>6 DEF PluginPanics
<1>7. CASE EndTask(i)
  BY <1>7 DEF EndTask
<1>8. CASE JoinStep(i)
  BY <1>8 DEF JoinStep, JoinOk, JoinErr, JoinPanic, Joinable
<1> QED
  BY <1>1, <1>2, <1>3, <1>4, <1>5, <1>6, <1>7, <1>8

\* A list a plugin may answer with is one of the outputs, and of the types it
\* declares or of its input.
LEMMA AnswerTypes ==
  ASSUME Loaded, command = "run", NEW i \in Tasks,
         input[i] \in {Seed} \cup Outputs \cup {{}},
         NEW list \in Reports(Stage(i).plugin, input[i])
  PROVE  /\ list \in Seq(Entities) /\ Range(list) \in Outputs
         /\ \A e \in Range(list) : \/ KeyOf[e.id].type \in Registered[Stage(i).plugin].produces
                                  \/ \E f \in input[i] : Respelled(KeyOf[e.id], KeyOf[f.id])
<1>1. Stage(i).plugin \in Registry
  BY RegistryAssumption DEF Loaded, KnownPlugins, IsRegistered, Tasks, Stage
<1> QED
  BY <1>1, ReportsAssumption

\* What a task takes as its input is the seed, an answer, or nothing.
LEMMA InputIsAnswer ==
  ASSUME IInv, ReconInv, NEW i \in Tasks, AwaitDependencies(i)
  PROVE  (IF Stage(i).input = SEED_INPUT THEN Seed ELSE channel[Stage(i).input])
           \in {Seed} \cup Outputs \cup {{}}
<1> SUFFICES ASSUME Stage(i).input # SEED_INPUT
             PROVE  channel[Stage(i).input] \in Outputs \cup {{}}
  OBVIOUS
<1>1. Stage(i).input \in Awaited(Stage(i))
  BY DEF Awaited
<1>2. Sent(Stage(i).input) /\ Stage(i).input \in Names(pipe)
  BY <1>1 DEF AwaitDependencies, IInv, SpawnedInv
<1>3. PICK j \in Tasks : Stage(j).name = Stage(i).input
  BY <1>2 DEF Names, Tasks, Stage
<1>4. CASE result[j] = "ok"
  <2>1. phase # "called"
    BY DEF AwaitDependencies, TasksAlive
  <2>2. PICK list \in Reports(Stage(j).plugin, input[j]) : Range(list) = output[j]
    BY <1>4 DEF ReconInv
  <2>3. output[j] \in Outputs
    BY <2>1, <2>2, AnswerTypes DEF ReconInv
  <2> QED
    BY <1>3, <1>4, <2>3 DEF IInv, ChannelInv
<1>5. CASE result[j] = "err"
  BY <1>3, <1>5 DEF IInv, ChannelInv
<1> QED
  BY <1>2, <1>3, <1>4, <1>5 DEF IInv, ChannelInv

\* The part of ReconInv about tasks.
LEMMA StepInputs ==
  ASSUME IInv, ReconInv, [ReconNext]_reconVars
  PROVE  \A j \in Tasks' :
           /\ pc'[j] \in {"unspawned", "waiting"} => input'[j] = {}
           /\ input'[j] \in {Seed} \cup Outputs \cup {{}}
           /\ result'[j] = "ok" =>
                \E list \in Reports(Stage(j).plugin', input'[j]) : Range(list) = output'[j]
<1> DEFINE Right(j) ==
      /\ pc'[j] \in {"unspawned", "waiting"} => input'[j] = {}
      /\ input'[j] \in {Seed} \cup Outputs \cup {{}}
      /\ result'[j] = "ok" =>
           \E list \in Reports(Stage(j).plugin, input'[j]) : Range(list) = output'[j]
<1>0. TypeOK
  BY DEF IInv
<1>1. pipe' = pipe
  <2>1. [Next]_vars
    BY ReconStep
  <2> QED
    BY <2>1 DEF Next, vars, CallStep, TaskStep, SpawnStep, JoinStep, Idle, Admit, Reject,
       StartJoining, Return, Spawn, SpawnPanics, AwaitDependencies, StartPlugin, PluginOk,
       PluginErr, TimeoutElapses, AttemptFails, BackoffElapses, PluginHangs, PluginPanics,
       EndTask, JoinOk, JoinErr, JoinPanic
<1>2. Tasks' = Tasks /\ \A j \in Tasks : Stage(j)' = Stage(j)
  BY <1>1 DEF Tasks, Stage
<1> SUFFICES ASSUME NEW j \in Tasks PROVE Right(j)
  BY <1>2
<1>3. /\ pc[j] \in {"unspawned", "waiting"} => input[j] = {}
      /\ input[j] \in {Seed} \cup Outputs \cup {{}}
      /\ result[j] = "ok" =>
           \E list \in Reports(Stage(j).plugin, input[j]) : Range(list) = output[j]
  BY DEF ReconInv
<1>4. ASSUME UNCHANGED << input, output >>,
             result'[j] = "ok" => result[j] = "ok",
             pc'[j] \in {"unspawned", "waiting"} => pc[j] \in {"unspawned", "waiting"}
      PROVE  Right(j)
  BY <1>3, <1>4
<1>5. CASE UNCHANGED vars
  BY <1>4, <1>5 DEF vars
<1>6. CASE Preflight \/ AddSeed \/ ReturnGraph
  <2>1. Admit \/ Reject \/ StartJoining \/ Return
    BY <1>6 DEF Preflight, AddSeed, ReturnGraph
  <2> QED
    BY <1>0, <1>4, <2>1, CallIsQuiet
<1>7. ASSUME NEW i \in Tasks, SpawnTask(i) \/ TakeOutcome(i) \/ TakeFailure(i)
      PROVE  Right(j)
  <2>1. SpawnStep(i) \/ JoinStep(i)
    BY <1>7 DEF SpawnTask, TakeOutcome, TakeFailure, JoinStep
  <2> QED
    BY <1>0, <1>4, <2>1, TaskIsQuiet
<1>8. ASSUME NEW i \in Tasks, RunTask(i) PROVE Right(j)
  <2>1. CASE AwaitDependencies(i)
    <3>1. CASE i = j
      <4>1. input'[j] = IF Stage(j).input = SEED_INPUT THEN Seed ELSE channel[Stage(j).input]
        BY <1>0, <2>1, <3>1 DEF AwaitDependencies, TypeOK
      <4>2. input'[j] \in {Seed} \cup Outputs \cup {{}}
        BY <2>1, <3>1, <4>1, InputIsAnswer
      <4>3. pc'[j] = "acquiring"
        BY <1>0, <2>1, <3>1 DEF AwaitDependencies, TypeOK
      <4>4. result'[j] = "none"
        BY <2>1, <3>1 DEF AwaitDependencies, IInv, ResultInv, Over
      <4> QED
        BY <4>2, <4>3, <4>4
    <3>2. CASE i # j
      BY <1>0, <1>3, <2>1, <3>2 DEF AwaitDependencies, TypeOK
    <3> QED
      BY <3>1, <3>2
  <2>2. CASE ~ AwaitDependencies(i)
    BY <1>0, <1>4, <1>8, <2>2, TaskIsQuiet DEF RunTask
  <2> QED
    BY <2>1, <2>2
<1>9. ASSUME NEW i \in Tasks, Answer(i) PROVE Right(j)
  <2>1. CASE i = j
    <3>1. input' = input /\ pc'[j] = "sent"
      BY <1>0, <1>9, <2>1 DEF Answer, PluginOk, TypeOK
    <3>2. \E list \in Reports(Stage(j).plugin, input[j]) : Range(list) = output'[j]
      BY <1>9, <2>1 DEF Answer
    <3> QED
      BY <1>3, <3>1, <3>2
  <2>2. CASE i # j
    BY <1>0, <1>3, <1>9, <2>2 DEF Answer, PluginOk, TypeOK
  <2> QED
    BY <2>1, <2>2
<1>10. CASE Refuse \/ ValidatePipeline \/ PrintSnapshot \/ ReportError \/ Crash
  BY <1>5, <1>10 DEF Refuse, ValidatePipeline, PrintSnapshot, ReportError, Crash, Exit
<1>11. CASE AddNext \/ NothingLeft \/ UNCHANGED reconVars
  BY <1>5, <1>11 DEF AddNext, NothingLeft, reconVars
<1> QED
  BY <1>6, <1>7, <1>8, <1>9, <1>10, <1>11 DEF ReconNext, CallerStep

-----------------------------------------------------------------------------
(***************************************************************************)
(* The checks                                                              *)
(***************************************************************************)

\* The initial state satisfies the invariant.
LEMMA InitReconInv == ReconInit => ReconInv
<1> SUFFICES ASSUME ReconInit PROVE ReconInv
  OBVIOUS
<1>1. Init /\ exit = "none"
  BY DEF ReconInit
<1> QED
  BY <1>1 DEF Init, ReconInv

\* The part of ReconInv about the checks.
LEMMA StepChecks ==
  ASSUME IInv, ReconInv, [ReconNext]_reconVars
  PROVE  /\ phase' # "called" => command' = "run" /\ Loaded'
         /\ phase' = "rejected" => ~ Accepted(pipe')
         /\ command' = "run" /\ exit' = "failure" => ~ Loaded' \/ phase' \in {"rejected", "err"}
<1>1. pipe' = pipe /\ command' = command
  <2>1. [Next]_vars
    BY ReconStep
  <2>2. pipe' = pipe
    BY <2>1 DEF Next, vars, CallStep, TaskStep, SpawnStep, JoinStep, Idle, Admit, Reject,
       StartJoining, Return, Spawn, SpawnPanics, AwaitDependencies, StartPlugin, PluginOk,
       PluginErr, TimeoutElapses, AttemptFails, BackoffElapses, PluginHangs, PluginPanics,
       EndTask, JoinOk, JoinErr, JoinPanic
  <2>3. command' = command
    BY DEF ReconNext, CallerStep, Refuse, ValidatePipeline, Exit, Preflight, SpawnTask,
       AddSeed, AddNext, TakeOutcome, TakeFailure, ReturnGraph, PrintSnapshot, ReportError,
       Crash, RunTask, Answer, NothingLeft, reconVars
  <2> QED
    BY <2>2, <2>3
<1>2. Loaded' = Loaded
  BY <1>1 DEF Loaded
<1>3. CASE UNCHANGED vars /\ UNCHANGED exit
  BY <1>1, <1>2, <1>3 DEF ReconInv, vars
<1>4. ASSUME Executing, UNCHANGED exit, phase' = "rejected" => ~ Accepted(pipe)
      PROVE  /\ phase' # "called" => command' = "run" /\ Loaded'
             /\ phase' = "rejected" => ~ Accepted(pipe')
             /\ command' = "run" /\ exit' = "failure"
                  => ~ Loaded' \/ phase' \in {"rejected", "err"}
  BY <1>1, <1>2, <1>4 DEF Executing
<1>5. CASE Preflight
  BY <1>4, <1>5 DEF Preflight, Admit, Reject
<1>6. CASE AddSeed \/ ReturnGraph
  BY <1>4, <1>6 DEF AddSeed, ReturnGraph, StartJoining, Return
<1>7. ASSUME NEW i \in Tasks,
             SpawnTask(i) \/ TakeOutcome(i) \/ TakeFailure(i) \/ RunTask(i) \/ Answer(i)
      PROVE  /\ phase' # "called" => command' = "run" /\ Loaded'
             /\ phase' = "rejected" => ~ Accepted(pipe')
             /\ command' = "run" /\ exit' = "failure"
                  => ~ Loaded' \/ phase' \in {"rejected", "err"}
  <2>1. Executing /\ UNCHANGED exit
    BY <1>7 DEF SpawnTask, TakeOutcome, TakeFailure, RunTask, Answer
  <2>2. phase' \in {phase, "panicked"}
    BY <1>7 DEF SpawnTask, TakeOutcome, TakeFailure, RunTask, Answer, SpawnStep, Spawn,
       SpawnPanics, AwaitDependencies, StartPlugin, PluginOk, PluginErr, TimeoutElapses,
       AttemptFails, BackoffElapses, PluginHangs, PluginPanics, EndTask, JoinOk, JoinErr,
       JoinPanic
  <2> QED
    BY <1>4, <2>1, <2>2 DEF ReconInv
<1>8. CASE Refuse
  BY <1>1, <1>2, <1>8 DEF Refuse, Exit, vars, ReconInv
<1>9. CASE ReportError
  BY <1>1, <1>2, <1>9 DEF ReportError, Exit, vars, ReconInv
<1>10. CASE ValidatePipeline \/ PrintSnapshot \/ Crash
  <2>1. UNCHANGED vars /\ (exit' = "failure" => command = "validate")
    BY <1>10 DEF ValidatePipeline, PrintSnapshot, Crash, Exit
  <2> QED
    BY <1>1, <1>2, <2>1 DEF ReconInv, vars
<1>11. CASE AddNext \/ NothingLeft \/ UNCHANGED reconVars
  BY <1>3, <1>11 DEF AddNext, NothingLeft, reconVars
<1> QED
  BY <1>5, <1>6, <1>7, <1>8, <1>9, <1>10, <1>11 DEF ReconNext, CallerStep

\* Both invariants hold in every reachable state.
THEOREM ReconInvariance == ReconSpec => [](IInv /\ ReconInv)
<1>1. ReconInit => IInv /\ ReconInv
  <2>1. ReconInit => Init
    BY DEF ReconInit
  <2> QED
    BY <2>1, InitIInv, InitReconInv
<1>2. IInv /\ ReconInv /\ [ReconNext]_reconVars => (IInv /\ ReconInv)'
  <2> SUFFICES ASSUME IInv, ReconInv, [ReconNext]_reconVars PROVE IInv' /\ ReconInv'
    OBVIOUS
  <2>1. IInv'
    BY ReconStep, StepIInv
  <2>2. ReconInv'
    BY StepInputs, StepChecks DEF ReconInv
  <2> QED
    BY <2>1, <2>2
<1> QED
  BY <1>1, <1>2, PTL DEF ReconSpec

\* What a stage gets from its input stage, if it gets anything, that stage has
\* answered with.
LEMMA InputFromStage ==
  ASSUME IInv, ReconInv, NEW i \in Tasks, Stage(i).input # SEED_INPUT,
         NEW e \in input[i]
  PROVE  \E j \in Tasks : FeedsOn(i, j) /\ result[j] = "ok" /\ e \in output[j]
<1>1. pc[i] \notin {"unspawned", "waiting"}
  BY DEF ReconInv
<1>2. Stage(i).input \in Awaited(Stage(i))
  BY DEF Awaited
<1>3. /\ Sent(Stage(i).input) /\ Stage(i).input \in Names(pipe)
      /\ input[i] = channel[Stage(i).input]
  BY <1>1, <1>2 DEF IInv, WaitedInv, SpawnedInv
<1>4. PICK j \in Tasks : Stage(j).name = Stage(i).input
  BY <1>3 DEF Names, Tasks, Stage
<1> QED
  BY <1>3, <1>4 DEF IInv, ChannelInv, FeedsOn

\* The three places that look at a pipeline agree, whatever plugins answer
\* within the types they declare, their input reported again included, in any
\* spelling (main.rs:99-106, 153-178, engine.rs:44-48, certsh.rs:252-253).
THEOREM ChecksDoAgree == ReconSpec => []ChecksAgree
<1>1. IInv /\ ReconInv => ChecksAgree
  <2> SUFFICES ASSUME IInv, ReconInv PROVE ChecksAgree
    OBVIOUS
  <2>1. ASSUME phase = "rejected" PROVE ~ Acyclic(pipe)
    BY <2>1, RegistryAssumption DEF ReconInv, Accepted, Loaded, KnownPlugins, IsRegistered
  <2>2. ASSUME command = "run", exit = "failure", phase \in {"called", "rejected"}
        PROVE  ~ Validate(pipe) \/ Complaints(pipe) # {} \/ ~ Acyclic(pipe)
    <3>1. CASE phase = "rejected"
      BY <2>1, <3>1
    <3>2. CASE phase = "called"
      <4>1. ~ Loaded
        BY <2>2, <3>2 DEF ReconInv
      <4> QED
        BY <4>1 DEF Loaded, KnownPlugins, Complaints, Complaint
    <3> QED
      BY <2>2, <3>1, <3>2
  <2>3. ASSUME phase = "joining", NEW i \in Complaints(pipe), NEW e \in input[i],
               KeyOf[e.id].type \in Registered[Stage(i).plugin].accepts
        PROVE  \E j \in Tasks :
                 FeedsOn(i, j) /\ \E f \in input[j] : Respelled(KeyOf[e.id], KeyOf[f.id])
    <3>1. Loaded /\ command = "run" /\ i \in Tasks
      BY <2>3 DEF ReconInv, Complaints, Tasks
    <3>2. UniqueNames(pipe) /\ \A j \in Tasks : IsRegistered(Stage(j).plugin)
      BY <3>1 DEF Loaded, Validate, KnownPlugins, Tasks, Stage
    <3>3. Complaint(pipe, Stage(i)) /\ Stage(i).input # SEED_INPUT
      BY <3>1, <3>2 DEF Complaints, Complaint, Stage
    <3>4. PICK t \in Range(pipe.stages) :
            /\ t.name = Stage(i).input
            /\ Registered[t.plugin].produces \cap Registered[Stage(i).plugin].accepts = {}
      BY <3>1, <3>2, <3>3 DEF Complaint
    <3>5. PICK j \in Tasks : FeedsOn(i, j) /\ result[j] = "ok" /\ e \in output[j]
      BY <3>1, <3>3, InputFromStage
    <3>6. t = Stage(j)
      <4>1. PICK k \in DOMAIN pipe.stages : t = pipe.stages[k]
        BY DEF Range
      <4> QED
        BY <3>2, <3>4, <3>5, <4>1 DEF UniqueNames, FeedsOn, Tasks, Stage
    <3>7. PICK list \in Reports(Stage(j).plugin, input[j]) : Range(list) = output[j]
      BY <3>5 DEF ReconInv
    <3>8. \/ KeyOf[e.id].type \in Registered[Stage(j).plugin].produces
          \/ \E f \in input[j] : Respelled(KeyOf[e.id], KeyOf[f.id])
      BY <3>1, <3>5, <3>7, AnswerTypes DEF ReconInv
    <3> QED
      BY <2>3, <3>4, <3>5, <3>6, <3>8
  <2> QED
    BY <2>1, <2>2, <2>3 DEF ChecksAgree
<1> QED
  BY <1>1, ReconInvariance, PTL

-----------------------------------------------------------------------------
(***************************************************************************)
(* Sequences                                                               *)
(***************************************************************************)

\* A set of natural numbers that holds 0 and the successor of each of its
\* members holds them all.
LEMMA Induction ==
  ASSUME NEW S, 0 \in S, \A n \in Nat : n \in S => n + 1 \in S
  PROVE  Nat \subseteq S
<1> DEFINE Rest == Nat \ S
           Less == OpToRel(<, Nat)
<1> SUFFICES ASSUME Rest # {} PROVE FALSE
  OBVIOUS
<1>1. IsWellFoundedOn(Less, Nat)
  BY NatLessThanWellFounded
<1>2. Rest \subseteq Nat
  OBVIOUS
<1> HIDE DEF Rest, Less
<1>3. PICK x \in Rest : \A y \in Rest : << y, x >> \notin Less
  BY <1>1, <1>2, WFMin
<1>4. x - 1 \in Nat /\ x - 1 < x /\ (x - 1) + 1 = x
  BY DEF Rest
<1>5. \A y \in Rest : ~ (y < x)
  BY <1>3 DEF Rest, Less, OpToRel
<1> QED
  BY <1>4, <1>5 DEF Rest

\* The recursive function in FlattenSeq.
Flattens(f, q) == f = [i \in 1 .. Len(q) |-> IF i = 1 THEN q[i] ELSE f[i-1] \o q[i]]

\* FlattenSeq chooses that function; there is one.
LEMMA FlatteningExists ==
  ASSUME NEW X, NEW q \in Seq(X)
  PROVE  \E f : Flattens(f, q)
<1> DEFINE UpTo(f, n) == f = [i \in 1 .. n |-> IF i = 1 THEN q[i] ELSE f[i-1] \o q[i]]
           S == {n \in Nat : \E f : UpTo(f, n)}
<1>1. 0 \in S
  <2>1. UpTo(<< >>, 0)
    OBVIOUS
  <2> QED
    BY <2>1
<1>2. ASSUME NEW n \in Nat, n \in S PROVE n + 1 \in S
  <2>1. PICK f : UpTo(f, n)
    BY <1>2
  <2> DEFINE last == IF n = 0 THEN q[1] ELSE f[n] \o q[n + 1]
             g    == [i \in 1 .. n + 1 |-> IF i = n + 1 THEN last ELSE f[i]]
  <2>2. ASSUME NEW i \in 1 .. n + 1
        PROVE  g[i] = IF i = 1 THEN q[i] ELSE g[i-1] \o q[i]
    <3> HIDE DEF last
    <3>1. CASE i = n + 1
      <4>1. g[i] = last
        BY <3>1
      <4>2. CASE n = 0
        BY <3>1, <4>1, <4>2 DEF last
      <4>3. CASE n # 0
        <5>1. i - 1 = n /\ i - 1 \in 1 .. n + 1 /\ i - 1 # n + 1 /\ i # 1
          BY <3>1, <4>3
        <5>2. g[i - 1] = f[n]
          BY <5>1
        <5> QED
          BY <3>1, <4>1, <4>3, <5>1, <5>2 DEF last
      <4> QED
        BY <4>2, <4>3
    <3>2. CASE i # n + 1
      <4>1. i \in 1 .. n /\ g[i] = f[i]
        BY <3>2
      <4>2. f[i] = IF i = 1 THEN q[i] ELSE f[i-1] \o q[i]
        BY <2>1, <4>1
      <4>3. i # 1 => i - 1 \in 1 .. n + 1 /\ i - 1 # n + 1
        BY <4>1
      <4>4. i # 1 => g[i-1] = f[i-1]
        BY <4>3
      <4> QED
        BY <4>1, <4>2, <4>4
    <3> QED
      BY <3>1, <3>2
  <2>3. UpTo(g, n + 1)
    <3> HIDE DEF last
    <3>1. g = [i \in 1 .. n + 1 |-> g[i]]
      OBVIOUS
    <3> HIDE DEF g
    <3> QED
      BY <2>2, <3>1
  <2> HIDE DEF g, UpTo
  <2> QED
    BY <2>3
<1> HIDE DEF S
<1>3. Nat \subseteq S
  BY <1>1, <1>2, Induction
<1>4. Len(q) \in S
  BY <1>3
<1> QED
  BY <1>4 DEF S, Flattens

\* So FlattenSeq is its last value.
LEMMA FlattenSeqIs ==
  ASSUME NEW X, NEW q \in Seq(X), Len(q) # 0
  PROVE  \E f : Flattens(f, q) /\ FlattenSeq(q) = f[Len(q)]
<1> DEFINE f == CHOOSE f : Flattens(f, q)
<1>1. Flattens(f, q)
  BY FlatteningExists
<1>2. FlattenSeq(q) = f[Len(q)]
  BY DEF FlattenSeq, Flattens
<1> QED
  BY <1>1, <1>2

\* Another sequence at the end comes last.
LEMMA FlattenAppend ==
  ASSUME NEW X, NEW q \in Seq(Seq(X)), NEW s \in Seq(X)
  PROVE  FlattenSeq(Append(q, s)) = FlattenSeq(q) \o s
<1> DEFINE r == Append(q, s)
           n == Len(q)
<1>1. /\ r \in Seq(Seq(X)) /\ Len(r) = n + 1 /\ n \in Nat
      /\ \A i \in 1 .. n : r[i] = q[i]
      /\ r[n + 1] = s
  OBVIOUS
<1> HIDE DEF r, n
<1>2. PICK g : Flattens(g, r) /\ FlattenSeq(r) = g[n + 1]
  <2>1. Len(r) # 0
    BY <1>1
  <2>2. \E g : Flattens(g, r) /\ FlattenSeq(r) = g[Len(r)]
    BY <1>1, <2>1, FlattenSeqIs
  <2> QED
    BY <1>1, <2>2
<1>3. CASE n = 0
  <2>1. q = << >> /\ FlattenSeq(q) = q
    BY <1>3 DEF FlattenSeq, n
  <2>2. g[1] = s
    BY <1>1, <1>2, <1>3 DEF Flattens
  <2> QED
    BY <1>2, <1>3, <2>1, <2>2 DEF r
<1>4. CASE n # 0
  <2>1. PICK f : Flattens(f, q) /\ FlattenSeq(q) = f[n]
    BY <1>4, FlattenSeqIs DEF n
  <2> DEFINE S == {k \in Nat : k + 1 \in 1 .. n => f[k + 1] = g[k + 1]}
  <2>2. 0 \in S
    <3>1. 1 \in 1 .. n => f[1] = q[1] /\ g[1] = r[1]
      BY <1>1, <1>2, <2>1 DEF Flattens, n
    <3> QED
      BY <1>1, <3>1
  <2>3. ASSUME NEW k \in Nat, k \in S PROVE k + 1 \in S
    <3> SUFFICES ASSUME k + 2 \in 1 .. n PROVE f[k + 2] = g[k + 2]
      OBVIOUS
    <3>1. f[k + 1] = g[k + 1] /\ q[k + 2] = r[k + 2]
      BY <1>1, <2>3
    <3>2. f[k + 2] = f[k + 1] \o q[k + 2]
      <4>1. k + 2 # 1 /\ (k + 2) - 1 = k + 1
        OBVIOUS
      <4> QED
      BY <2>1, <4>1 DEF Flattens, n
    <3>3. g[k + 2] = g[k + 1] \o r[k + 2]
      <4>1. k + 2 # 1 /\ (k + 2) - 1 = k + 1 /\ k + 2 \in 1 .. Len(r)
        BY <1>1
      <4> QED
      BY <1>2, <4>1 DEF Flattens
    <3> QED
      BY <3>1, <3>2, <3>3
  <2>4. n - 1 \in S
    <3> HIDE DEF S
    <3>1. n - 1 \in Nat
      BY <1>1, <1>4
    <3> QED
    BY <3>1, <2>2, <2>3, Induction
  <2>5. f[n] = g[n]
    BY <1>1, <1>4, <2>4
  <2>6. g[n + 1] = g[n] \o s
    <3>1. n + 1 \in 1 .. Len(r) /\ n + 1 # 1 /\ (n + 1) - 1 = n
      BY <1>1, <1>4
    <3> QED
    BY <1>1, <1>2, <3>1 DEF Flattens
  <2> QED
    BY <1>2, <2>1, <2>5, <2>6 DEF r
<1> QED
  BY <1>3, <1>4

\* What the sequences hold, the one sequence holds.
LEMMA FlattenType ==
  ASSUME NEW X, NEW q \in Seq(Seq(X))
  PROVE  FlattenSeq(q) \in Seq(X)
<1> DEFINE n == Len(q)
<1>1. n \in Nat /\ \A i \in 1 .. n : q[i] \in Seq(X)
  OBVIOUS
<1>2. CASE n = 0
  BY <1>2 DEF FlattenSeq
<1>3. CASE n # 0
  <2>1. PICK f : Flattens(f, q) /\ FlattenSeq(q) = f[n]
    BY <1>3, FlattenSeqIs
  <2> HIDE DEF n
  <2>2. \A i \in 1 .. n : f[i] = IF i = 1 THEN q[i] ELSE f[i - 1] \o q[i]
    BY <2>1 DEF Flattens, n
  <2> DEFINE S == {k \in Nat : k + 1 \in 1 .. n => f[k + 1] \in Seq(X)}
  <2>3. 0 \in S
    BY <1>1, <2>2
  <2>4. ASSUME NEW k \in Nat, k \in S PROVE k + 1 \in S
    <3> SUFFICES ASSUME k + 2 \in 1 .. n PROVE f[k + 2] \in Seq(X)
      OBVIOUS
    <3>1. k + 2 # 1 /\ (k + 2) - 1 = k + 1 /\ f[k + 1] \in Seq(X)
      BY <1>1, <2>4
    <3>2. f[k + 2] = f[k + 1] \o q[k + 2]
      BY <2>2, <3>1
    <3> QED
      BY <1>1, <3>1, <3>2
  <2>5. n - 1 \in S
    <3> HIDE DEF S
    <3>1. n - 1 \in Nat
      BY <1>1, <1>3
    <3> QED
      BY <2>3, <2>4, <3>1, Induction
  <2> QED
    BY <1>1, <1>3, <2>1, <2>5
<1> QED
  BY <1>2, <1>3

\* What is in a sequence that has grown.
LEMMA RangeAppend ==
  ASSUME NEW X, NEW s \in Seq(X), NEW x \in X
  PROVE  Range(Append(s, x)) = Range(s) \cup {x}
<1> DEFINE more == Append(s, x)
<1>1. /\ DOMAIN more = 1 .. Len(s) + 1 /\ DOMAIN s = 1 .. Len(s) /\ Len(s) \in Nat
      /\ more[Len(s) + 1] = x
      /\ \A n \in 1 .. Len(s) : more[n] = s[n]
  OBVIOUS
<1> HIDE DEF more
<1>2. DOMAIN more = DOMAIN s \cup {Len(s) + 1}
  BY <1>1
<1> QED
  BY <1>1, <1>2 DEF Range, more

\* The head of one sequence becomes the end of another.
LEMMA HeadMoves ==
  ASSUME NEW X, NEW s \in Seq(X), NEW t \in Seq(X), t # << >>
  PROVE  /\ Head(t) \in X /\ Tail(t) \in Seq(X)
         /\ Append(s, Head(t)) \o Tail(t) = s \o t
         /\ Range(Append(s, Head(t))) \cup Range(Tail(t)) = Range(s) \cup Range(t)
<1>1. /\ Len(t) \in Nat /\ Len(t) # 0 /\ Head(t) = t[1] /\ Tail(t) \in Seq(X)
      /\ Len(Tail(t)) = Len(t) - 1
      /\ \A n \in 1 .. Len(t) - 1 : Tail(t)[n] = t[n + 1]
      /\ Head(t) \in X
  OBVIOUS
<1>2. t = << Head(t) >> \o Tail(t)
  OBVIOUS
<1>3. Append(s, Head(t)) \o Tail(t) = s \o t
  BY <1>1, <1>2
<1>4. Range(Append(s, Head(t))) = Range(s) \cup {Head(t)}
  BY <1>1, RangeAppend
<1>5. Range(t) = {Head(t)} \cup Range(Tail(t))
  <2>1. ASSUME NEW n \in DOMAIN t PROVE t[n] \in {Head(t)} \cup Range(Tail(t))
    <3>1. CASE n = 1
      BY <1>1, <3>1
    <3>2. CASE n # 1
      <4>1. n - 1 \in DOMAIN Tail(t) /\ Tail(t)[n - 1] = t[n]
        BY <1>1, <3>2
      <4> QED
        BY <4>1 DEF Range
    <3> QED
      BY <3>1, <3>2
  <2>2. ASSUME NEW n \in DOMAIN Tail(t) PROVE Tail(t)[n] \in Range(t)
    <3>1. n + 1 \in DOMAIN t /\ t[n + 1] = Tail(t)[n]
      BY <1>1
    <3> QED
      BY <3>1 DEF Range
  <2>3. Head(t) \in Range(t)
    BY <1>1 DEF Range
  <2> QED
    BY <2>1, <2>2, <2>3 DEF Range
<1> QED
  BY <1>1, <1>3, <1>4, <1>5

\* The seed is one entity, so its sequence is that entity alone.
LEMMA SeedSequence ==
  /\ SetToSeq(Seed) \in Seq(Entities)
  /\ Range(SetToSeq(Seed)) = Seed
<1>1. PICK e \in Entities : Seed = {e}
  BY SeedAssumption
<1>2. Cardinality(Seed) = 1
  BY <1>1, FS_Singleton
<1>3. [n \in 1 .. 1 |-> e] \in [1 .. 1 -> Seed] /\ IsInjective([n \in 1 .. 1 |-> e])
  BY <1>1 DEF IsInjective
<1> DEFINE s == SetToSeq(Seed)
<1>4. s \in [1 .. 1 -> Seed]
  BY <1>2, <1>3 DEF SetToSeq
<1> HIDE DEF s
<1>5. s[1] = e /\ DOMAIN s = 1 .. 1
  BY <1>1, <1>4
<1>6. s \in Seq(Entities)
  <2>1. s \in [1 .. 1 -> Entities]
    BY <1>1, <1>4
  <2> QED
    BY <2>1, SeqDef
<1>7. Range(s) = Seed
  BY <1>1, <1>5 DEF Range
<1> QED
  BY <1>6, <1>7 DEF s

\* One more element, at the end of an order.
LEMMA OrderGrows ==
  ASSUME NEW S, IsFiniteSet(S), NEW order \in SetToSeqs(S), NEW i, i \notin S
  PROVE  /\ order \in Seq(S)
         /\ Append(order, i) \in SetToSeqs(S \cup {i})
<1>1. Cardinality(S) \in Nat /\ Cardinality(S \cup {i}) = Cardinality(S) + 1
  BY FS_CardinalityType, FS_AddElement
<1> DEFINE n == Cardinality(S)
<1>2. /\ order \in [1 .. n -> S]
      /\ \A j, k \in 1 .. n : j # k => order[j] # order[k]
  BY DEF SetToSeqs
<1>3. order \in Seq(S) /\ Len(order) = n
  <2>1. order \in Seq(S)
    BY <1>1, <1>2, SeqDef
  <2> QED
    BY <1>1, <1>2, <2>1, LenProperties
<1> DEFINE more == Append(order, i)
<1>4. /\ more \in [1 .. n + 1 -> S \cup {i}]
      /\ more[n + 1] = i
      /\ \A j \in 1 .. n : more[j] = order[j] /\ more[j] \in S
  <2>1. order \in Seq(S \cup {i})
    BY <1>3, SeqMonotonic
  <2>2. /\ more \in Seq(S \cup {i}) /\ Len(more) = n + 1
        /\ more[n + 1] = i
        /\ \A j \in 1 .. n : more[j] = order[j]
    BY <1>1, <1>3, <2>1
  <2> HIDE DEF more
  <2>3. more \in [1 .. n + 1 -> S \cup {i}]
    BY <2>2, LenProperties
  <2> QED
    BY <1>2, <2>2, <2>3
<1> HIDE DEF more, n
<1>5. ASSUME NEW j \in 1 .. n + 1, NEW k \in 1 .. n + 1, j # k PROVE more[j] # more[k]
  <2>1. j \in 1 .. n \/ k \in 1 .. n
    BY <1>1, <1>5 DEF n
  <2> QED
    BY <1>1, <1>2, <1>4, <1>5, <2>1 DEF n
<1>6. more \in SetToSeqs(S \cup {i})
  BY <1>1, <1>4, <1>5 DEF SetToSeqs, n
<1> QED
  BY <1>3, <1>6 DEF more

-----------------------------------------------------------------------------
(***************************************************************************)
(* Answers in the graph: which steps change what the invariant is about    *)
(***************************************************************************)

\* The steps of the process that neither take an answer nor add an entity.
Quiet ==
  [ReconNext]_reconVars /\ ~ AddSeed /\ ~ AddNext /\ \A i \in Tasks : ~ TakeOutcome(i)

\* The steps of a task and of the join loop that take no answer.
LEMMA TaskLandsNothing ==
  ASSUME TypeOK, NEW i \in Tasks,
         SpawnStep(i) \/ TaskStep(i) \/ JoinErr(i) \/ JoinPanic(i)
  PROVE  /\ UNCHANGED << pipe, graph >>
         /\ \A j \in Tasks : j \in Landed' <=> j \in Landed
         /\ phase' \in {phase, "panicked"}
<1> USE DEF TypeOK
<1>0. Tasks' = Tasks
  BY DEF Tasks, SpawnStep, TaskStep, Spawn, SpawnPanics, AwaitDependencies, StartPlugin, PluginOk,
     PluginErr, TimeoutElapses, AttemptFails, BackoffElapses, PluginHangs, PluginPanics,
     EndTask, JoinErr, JoinPanic
<1> USE <1>0 DEF Landed
<1>1. CASE SpawnStep(i)
  BY <1>1 DEF SpawnStep, Spawn, SpawnPanics, NextToSpawn
<1>2. CASE AwaitDependencies(i)
  BY <1>2 DEF AwaitDependencies
<1>3. CASE StartPlugin(i)
  BY <1>3 DEF StartPlugin
<1>4. CASE PluginOk(i)
  BY <1>4 DEF PluginOk
<1>5. CASE PluginErr(i) \/ TimeoutElapses(i)
  BY <1>5 DEF PluginErr, TimeoutElapses, AttemptFails
<1>6. CASE BackoffElapses(i)
  BY <1>6 DEF BackoffElapses
<1>7. CASE PluginHangs(i)
  BY <1>7 DEF PluginHangs
<1>8. CASE PluginPanics(i)
  BY <1>8 DEF PluginPanics
<1>9. CASE EndTask(i)
  BY <1>9 DEF EndTask
<1>10. CASE JoinErr(i) \/ JoinPanic(i)
  BY <1>10 DEF JoinErr, JoinPanic, Joinable
<1> QED
  BY <1>1, <1>2, <1>3, <1>4, <1>5, <1>6, <1>7, <1>8, <1>9, <1>10 DEF TaskStep

\* What such a step leaves alone.
Frame ==
  /\ UNCHANGED << pipe, graph, batch, store, command >>
  /\ Landed' = Landed
  /\ phase' \in {"joining", "ok", "err"} => phase \in {"joining", "ok", "err"}
  /\ phase' \in {"ok", "err"} => phase = phase' \/ batch = << >>
  /\ phase' \in {"called", "rejected", "spawning"} =>
       phase \in {"called", "rejected", "spawning"}
  /\ Succeeded' => phase' = "ok" \/ (Succeeded /\ phase' = phase)

\* A quiet step leaves what is added, and what is still to be added, alone.
LEMMA QuietFrame ==
  ASSUME TypeOK, Quiet
  PROVE  Frame
<1> USE DEF Quiet, Frame
<1>1. ASSUME UNCHANGED vars, UNCHANGED << batch, store, command >>,
             \/ exit' = exit \/ exit' \in {"failure", "panic"}
             \/ exit' = "success" /\ (command = "validate" \/ phase = "ok")
      PROVE  Frame
  BY <1>1 DEF vars, Landed, Tasks, Succeeded
<1>2. CASE Refuse \/ ValidatePipeline \/ PrintSnapshot \/ ReportError \/ Crash
  BY <1>1, <1>2 DEF Refuse, ValidatePipeline, PrintSnapshot, ReportError, Crash, Exit
<1>3. CASE NothingLeft \/ UNCHANGED reconVars
  BY <1>1, <1>3 DEF NothingLeft, reconVars
<1>4. CASE Preflight
  BY <1>4 DEF Preflight, Admit, Reject, Executing, Landed, Tasks, Succeeded
<1>5. CASE ReturnGraph
  BY <1>5 DEF ReturnGraph, Return, Executing, Landed, Tasks, Succeeded
<1>6. ASSUME NEW i \in Tasks, SpawnTask(i) \/ TakeFailure(i) \/ RunTask(i) \/ Answer(i)
      PROVE  Frame
  <2>1. SpawnStep(i) \/ TaskStep(i) \/ JoinErr(i) \/ JoinPanic(i)
    BY <1>6 DEF SpawnTask, TakeFailure, RunTask, Answer, TaskStep
  <2>2. UNCHANGED << batch, store, command, exit >> /\ exit = "none"
    BY <1>6 DEF SpawnTask, TakeFailure, RunTask, Answer, Executing
  <2>3. /\ UNCHANGED << pipe, graph >>
        /\ \A j \in Tasks : j \in Landed' <=> j \in Landed
        /\ phase' \in {phase, "panicked"}
    BY <2>1, TaskLandsNothing
  <2>4. Landed' = Landed
    BY <2>3 DEF Landed, Tasks
  <2> QED
    BY <2>2, <2>3, <2>4 DEF Succeeded
<1> QED
  BY <1>2, <1>3, <1>4, <1>5, <1>6 DEF ReconNext, CallerStep

\* Only Answer gives a task a list, and only a task that runs its plugin.
LEMMA StepReports ==
  ASSUME IInv, ReconInv, StoreInv, [ReconNext]_reconVars
  PROVE  /\ report' \in [Tasks' -> Seq(Entities)]
         /\ \A j \in Tasks' : Range(report'[j]) = output'[j]
         /\ \A j \in Landed : report'[j] = report[j]
<1>0. TypeOK /\ report \in [Tasks -> Seq(Entities)]
      /\ \A j \in Tasks : Range(report[j]) = output[j]
  BY DEF IInv, StoreInv
<1>1. CASE \E i \in Tasks : Answer(i)
  <2> PICK i \in Tasks : Answer(i)
    BY <1>1
  <2>1. Executing /\ PluginOk(i)
    BY DEF Answer
  <2>2. PICK list \in Reports(Stage(i).plugin, input[i]) :
          Range(list) = output'[i] /\ report' = [report EXCEPT ![i] = list]
    BY DEF Answer
  <2>3. list \in Seq(Entities)
    <3>1. input[i] \in {Seed} \cup Outputs \cup {{}}
      BY DEF ReconInv
    <3> QED
      BY <2>1, <2>2, <3>1, AnswerTypes DEF Executing
  <2>4. pipe' = pipe /\ Tasks' = Tasks /\ \A j \in Tasks : j # i => output'[j] = output[j]
    BY <1>0, <2>1 DEF PluginOk, Tasks, TypeOK
  <2>5. i \notin Landed
    BY <2>1 DEF PluginOk, Landed
  <2> QED
    BY <1>0, <2>2, <2>3, <2>4, <2>5 DEF Landed
<1>2. CASE ~ \E i \in Tasks : Answer(i)
  <2>1. UNCHANGED << pipe, output, report >>
    <3>1. CASE Refuse \/ ValidatePipeline \/ PrintSnapshot \/ ReportError \/ Crash
      BY <3>1 DEF Refuse, ValidatePipeline, PrintSnapshot, ReportError, Crash, Exit, vars
    <3>2. CASE NothingLeft \/ AddNext \/ UNCHANGED reconVars
      BY <3>2 DEF NothingLeft, AddNext, reconVars, vars
    <3>3. CASE Preflight \/ AddSeed \/ ReturnGraph
      BY <3>3 DEF Preflight, AddSeed, ReturnGraph, Admit, Reject, StartJoining, Return
    <3>4. ASSUME NEW i \in Tasks, SpawnTask(i) \/ TakeOutcome(i) \/ TakeFailure(i) \/ RunTask(i)
          PROVE  UNCHANGED << pipe, output, report >>
      BY <3>4 DEF SpawnTask, TakeOutcome, TakeFailure, RunTask, SpawnStep, Spawn,
         SpawnPanics, AwaitDependencies, StartPlugin, PluginErr, TimeoutElapses,
         AttemptFails, BackoffElapses, PluginHangs, PluginPanics, EndTask, JoinOk, JoinErr,
         JoinPanic
    <3> QED
      BY <1>2, <3>1, <3>2, <3>3, <3>4 DEF ReconNext, CallerStep
  <2>2. Tasks' = Tasks
    BY <2>1 DEF Tasks
  <2> QED
    BY <1>0, <2>1, <2>2
<1> QED
  BY <1>1, <1>2

\* The lists that were taken, in the order of the stages.
Lists(order) == [n \in DOMAIN order |-> report[order[n]]]

\* One more stage, one more list at the end.
LEMMA ListsOfOrder ==
  ASSUME report \in [Tasks -> Seq(Entities)], NEW order \in Seq(Tasks)
  PROVE  /\ Lists(order) \in Seq(Seq(Entities))
         /\ \A i \in Tasks : Lists(Append(order, i)) = Append(Lists(order), report[i])
<1>1. /\ Len(order) \in Nat /\ DOMAIN order = 1 .. Len(order)
      /\ \A n \in 1 .. Len(order) : order[n] \in Tasks
  OBVIOUS
<1>2. Lists(order) \in Seq(Seq(Entities)) /\ Len(Lists(order)) = Len(order)
  BY <1>1 DEF Lists
<1>3. ASSUME NEW i \in Tasks PROVE Lists(Append(order, i)) = Append(Lists(order), report[i])
  <2> DEFINE more == Append(order, i)
             n    == Len(order)
  <2>1. /\ DOMAIN more = 1 .. n + 1
        /\ more[n + 1] = i
        /\ \A m \in 1 .. n : more[m] = order[m]
    BY <1>1
  <2> HIDE DEF more, n
  <2>2. Lists(more) = [m \in 1 .. n + 1 |-> report[more[m]]]
    BY <2>1 DEF Lists
  <2>3. /\ Append(Lists(order), report[i]) \in Seq(Seq(Entities))
        /\ Len(Append(Lists(order), report[i])) = n + 1
        /\ \A m \in 1 .. n : Append(Lists(order), report[i])[m] = report[order[m]]
        /\ Append(Lists(order), report[i])[n + 1] = report[i]
    <3>1. \A m \in 1 .. n : Lists(order)[m] = report[order[m]]
      BY <1>1 DEF Lists, n
    <3> QED
      BY <1>2, <3>1 DEF n
  <2>4. Append(Lists(order), report[i]) = [m \in 1 .. n + 1 |-> Append(Lists(order), report[i])[m]]
    BY <2>3, LenProperties
  <2>5. \A m \in 1 .. n + 1 : report[more[m]] = Append(Lists(order), report[i])[m]
    BY <1>1, <2>1, <2>3 DEF n
  <2> QED
    BY <2>2, <2>4, <2>5 DEF more
<1> QED
  BY <1>2, <1>3

\* The lists of stages that were taken stay as they are.
LEMMA SameLists ==
  ASSUME NEW order \in SetToSeqs(Landed), \A j \in Landed : report'[j] = report[j]
  PROVE  Lists(order)' = Lists(order)
<1>1. \A n \in DOMAIN order : order[n] \in Landed
  BY DEF SetToSeqs
<1> QED
  BY <1>1 DEF Lists

\* AddedOnce in terms of Lists.
LEMMA AddedOnceIs ==
  AddedOnce <=>
    /\ phase \in {"joining", "ok", "err"} => Range(log) \cup Range(batch) = graph
    /\ \E order \in SetToSeqs(Landed) :
         phase \in {"joining", "ok", "err"} =>
           log \o batch = SetToSeq(Seed) \o FlattenSeq(Lists(order))
BY DEF AddedOnce, Lists

\* Finitely many answers can be taken.
LEMMA LandedFinite == ASSUME TypeOK PROVE IsFiniteSet(Landed) /\ Landed \subseteq Tasks
<1>1. IsFiniteSet(Tasks)
  <2>1. pipe.stages \in Seq(StageDef)
    BY PipelinesAssumption DEF TypeOK, PipelineDef
  <2>2. Tasks = 1 .. Len(pipe.stages) /\ Len(pipe.stages) \in Nat
    BY <2>1 DEF Tasks
  <2> QED
    BY <2>2, FS_Interval
<1> QED
  BY <1>1, FS_Subset DEF Landed

\* The initial state satisfies the invariant.
LEMMA InitStoreInv == ReconInit => StoreInv
<1> SUFFICES ASSUME ReconInit PROVE StoreInv
  OBVIOUS
<1>1. /\ Init /\ report = [i \in Tasks |-> << >>] /\ batch = << >> /\ log = << >>
      /\ exit = "none"
  BY DEF ReconInit, Store!Init
<1>2. phase = "called" /\ output = [i \in Tasks |-> {}] /\ pc = [i \in Tasks |-> "unspawned"]
  BY <1>1 DEF Init
<1>3. \A i \in Tasks : Range(report[i]) = output[i]
  BY <1>1, <1>2 DEF Range
<1>4. AddedOnce
  <2>1. Landed = {}
    BY <1>2 DEF Landed
  <2>2. << >> \in SetToSeqs(Landed)
    BY <2>1, FS_EmptySet DEF SetToSeqs
  <2> QED
    BY <1>2, <2>2 DEF AddedOnce
<1> QED
  BY <1>1, <1>2, <1>3, <1>4 DEF StoreInv, Succeeded

\* A quiet step preserves it.
LEMMA QuietStoreInv ==
  ASSUME IInv, ReconInv, StoreInv, Quiet
  PROVE  StoreInv'
<1>1. TypeOK /\ [ReconNext]_reconVars
  BY DEF IInv, Quiet
<1>2. Frame
  BY <1>1, QuietFrame
<1>3. /\ report' \in [Tasks' -> Seq(Entities)]
      /\ \A j \in Tasks' : Range(report'[j]) = output'[j]
      /\ \A j \in Landed : report'[j] = report[j]
  BY <1>1, StepReports
<1>4. log' = log
  BY <1>2 DEF store, Frame
<1>5. AddedOnce'
  <2>1. PICK order \in SetToSeqs(Landed) :
          phase \in {"joining", "ok", "err"} =>
            log \o batch = SetToSeq(Seed) \o FlattenSeq(Lists(order))
    BY AddedOnceIs DEF StoreInv
  <2>2. Lists(order)' = Lists(order)
    BY <1>3, SameLists
  <2>3. /\ phase' \in {"joining", "ok", "err"} => Range(log') \cup Range(batch') = graph'
        /\ \E o \in SetToSeqs(Landed') :
             phase' \in {"joining", "ok", "err"} =>
               log' \o batch' = SetToSeq(Seed) \o FlattenSeq(Lists(o)')
    <3>1. phase \in {"joining", "ok", "err"} => Range(log) \cup Range(batch) = graph
      BY AddedOnceIs DEF StoreInv
    <3> QED
      BY <1>2, <1>4, <2>1, <2>2, <3>1 DEF Frame
  <2> QED
    BY <2>3 DEF AddedOnce, Lists
<1> QED
  BY <1>2, <1>3, <1>4, <1>5 DEF StoreInv, Frame

\* Before any outcome is taken, no answer has landed.
LEMMA SeedStoreInv ==
  ASSUME IInv, ReconInv, StoreInv, AddSeed
  PROVE  StoreInv'
<1>1. /\ Executing /\ phase = "spawning" /\ phase' = "joining" /\ graph' = Seed
      /\ batch' = SetToSeq(Seed)
      /\ UNCHANGED << pipe, pc, result, command, exit, store >>
  BY DEF AddSeed, StartJoining
<1>2. /\ report' \in [Tasks' -> Seq(Entities)]
      /\ \A j \in Tasks' : Range(report'[j]) = output'[j]
  BY StepReports DEF ReconNext, CallerStep
<1>3. log' = << >> /\ log = << >>
  BY <1>1 DEF StoreInv, store
<1>4. Landed' = {}
  <2>1. Joined = {}
    BY <1>1 DEF IInv, JoinInv
  <2> QED
    BY <1>1, <2>1 DEF Joined, Landed, Tasks
<1>5. AddedOnce'
  <2>1. << >> \in SetToSeqs(Landed')
    BY <1>4, FS_EmptySet DEF SetToSeqs
  <2>2. Range(log') \cup Range(batch') = graph'
    BY <1>1, <1>3, SeedSequence DEF Range
  <2>3. FlattenSeq([n \in DOMAIN << >> |-> report'[<< >>[n]]]) = << >>
    <3>1. [n \in DOMAIN << >> |-> report'[<< >>[n]]] = << >>
      OBVIOUS
    <3> QED
      BY <3>1 DEF FlattenSeq
  <2>4. log' \o batch' = SetToSeq(Seed) \o << >>
    BY <1>1, <1>3, SeedSequence
  <2> QED
    BY <2>1, <2>2, <2>3, <2>4 DEF AddedOnce
<1> QED
  BY <1>1, <1>2, <1>3, <1>5, SeedSequence DEF StoreInv, Executing, Succeeded

\* add_entity takes the head of what is still to be added.
LEMMA AddNextStoreInv ==
  ASSUME IInv, ReconInv, StoreInv, AddNext
  PROVE  StoreInv'
<1>1. /\ Executing /\ batch # << >> /\ batch' = Tail(batch) /\ log' = Append(log, Head(batch))
      /\ UNCHANGED << vars, command, exit, report >>
  BY DEF AddNext, Store!AddEntity
<1>2. /\ batch \in Seq(Entities) /\ log \in Seq(Entities)
  BY DEF StoreInv
<1>3. /\ Head(batch) \in Entities /\ Tail(batch) \in Seq(Entities)
      /\ Append(log, Head(batch)) \o Tail(batch) = log \o batch
      /\ Range(Append(log, Head(batch))) \cup Range(Tail(batch)) = Range(log) \cup Range(batch)
  BY <1>1, <1>2, HeadMoves
<1>4. log' \in Seq(Entities)
  BY <1>1, <1>2, <1>3
<1>5. AddedOnce'
  BY <1>1, <1>3 DEF StoreInv, AddedOnce, Landed, Tasks, vars
<1>6. phase' \in {"called", "rejected", "spawning"} => log' = << >> /\ batch' = << >>
  BY <1>1 DEF StoreInv, vars
<1>7. phase' \in {"ok", "err"} => batch' = << >>
  BY <1>1 DEF StoreInv, vars
<1> QED
  BY <1>1, <1>3, <1>4, <1>5, <1>6, <1>7 DEF StoreInv, Executing, Succeeded, Tasks, vars

\* The join loop takes one more list, when the last one is in the graph.
LEMMA OutcomeStoreInv ==
  ASSUME IInv, ReconInv, StoreInv, NEW i \in Tasks, TakeOutcome(i)
  PROVE  StoreInv'
<1>0. TypeOK /\ report \in [Tasks -> Seq(Entities)] /\ log \in Seq(Entities)
  BY DEF IInv, StoreInv
<1>1. /\ Executing /\ phase = "joining" /\ pc[i] = "done" /\ result[i] = "ok"
      /\ batch = << >> /\ batch' = report[i]
      /\ graph' = graph \cup output[i] /\ pc' = [pc EXCEPT ![i] = "joined"]
      /\ UNCHANGED << pipe, phase, output, result, command, exit, report, store >>
  BY DEF TakeOutcome, JoinOk, Joinable
<1>2. log' = log /\ Tasks' = Tasks
  BY <1>1 DEF store, Tasks
<1>3. i \notin Landed /\ Landed' = Landed \cup {i}
  <2>1. pc \in [Tasks -> {"unspawned", "waiting", "acquiring", "running", "hung",
                          "backoff", "sent", "done", "joined"}]
    BY <1>0 DEF TypeOK
  <2> QED
    BY <1>1, <1>2, <2>1 DEF Landed
<1>4. AddedOnce'
  <2>1. PICK order \in SetToSeqs(Landed) :
          log \o batch = SetToSeq(Seed) \o FlattenSeq(Lists(order))
    BY <1>1, AddedOnceIs DEF StoreInv
  <2>2. order \in Seq(Landed) /\ Append(order, i) \in SetToSeqs(Landed')
    BY <1>0, <1>3, LandedFinite, OrderGrows
  <2>3. order \in Seq(Tasks)
    BY <1>0, <2>2, LandedFinite, SeqMonotonic
  <2>4. /\ Lists(order) \in Seq(Seq(Entities))
        /\ Lists(Append(order, i)) = Append(Lists(order), report[i])
    BY <1>0, <2>3, ListsOfOrder
  <2>5. FlattenSeq(Lists(Append(order, i))) = FlattenSeq(Lists(order)) \o report[i]
    BY <1>0, <2>4, FlattenAppend
  <2>6. FlattenSeq(Lists(order)) \in Seq(Entities)
    BY <2>4, FlattenType
  <2>7. log \o report[i] = SetToSeq(Seed) \o FlattenSeq(Lists(Append(order, i)))
    <3>1. log = SetToSeq(Seed) \o FlattenSeq(Lists(order))
      BY <1>0, <1>1, <2>1
    <3> DEFINE s == SetToSeq(Seed)
               t == FlattenSeq(Lists(order))
    <3>2. s \in Seq(Entities) /\ t \in Seq(Entities) /\ report[i] \in Seq(Entities)
      BY <1>0, <2>6, SeedSequence
    <3> HIDE DEF s, t
    <3>3. \A u, v, w \in Seq(Entities) : (u \o v) \o w = u \o (v \o w)
      BY ConcatAssociative
    <3>4. (s \o t) \o report[i] = s \o (t \o report[i])
      BY <3>2, <3>3, Zenon
    <3> QED
      BY <2>5, <3>1, <3>4 DEF s, t
  <2>8. Range(log') \cup Range(batch') = graph'
    <3>1. Range(log) \cup Range(batch) = graph
      BY <1>1 DEF StoreInv, AddedOnce
    <3>2. Range(batch) = {} /\ Range(batch') = output[i]
      BY <1>1 DEF StoreInv, Range
    <3> QED
      BY <1>1, <1>2, <3>1, <3>2
  <2>9. Lists(Append(order, i))' = Lists(Append(order, i))
    BY <1>1 DEF Lists
  <2> QED
    BY <1>1, <1>2, <2>2, <2>7, <2>8, <2>9 DEF AddedOnce, Lists
<1>5. batch' \in Seq(Entities)
  BY <1>0, <1>1
<1> QED
  BY <1>0, <1>1, <1>2, <1>4, <1>5 DEF StoreInv, Executing, Succeeded

\* Every step preserves it.
LEMMA StepStoreInv == IInv /\ ReconInv /\ StoreInv /\ [ReconNext]_reconVars => StoreInv'
<1> SUFFICES ASSUME IInv, ReconInv, StoreInv, [ReconNext]_reconVars PROVE StoreInv'
  OBVIOUS
<1>1. CASE AddSeed
  BY <1>1, SeedStoreInv
<1>2. CASE AddNext
  BY <1>2, AddNextStoreInv
<1>3. CASE \E i \in Tasks : TakeOutcome(i)
  BY <1>3, OutcomeStoreInv
<1>4. CASE Quiet
  BY <1>4, QuietStoreInv
<1> QED
  BY <1>1, <1>2, <1>3, <1>4 DEF Quiet

\* The three invariants hold in every reachable state.
THEOREM StoreInvariance == ReconSpec => [](IInv /\ ReconInv /\ StoreInv)
<1>1. IInv /\ ReconInv /\ StoreInv /\ [ReconNext]_reconVars => StoreInv'
  BY StepStoreInv
<1> QED
  BY <1>1, InitStoreInv, ReconInvariance, PTL DEF ReconSpec

\* Whatever the order in which stages end and are joined, the graph is built from
\* the seed and then one list after the other, each once and in one piece
\* (engine.rs:99-120).
THEOREM EachListOnce == ReconSpec => []AddedOnce
<1>1. StoreInv => AddedOnce
  BY DEF StoreInv
<1> QED
  BY <1>1, StoreInvariance, PTL

-----------------------------------------------------------------------------
(***************************************************************************)
(* The graph that is printed                                               *)
(***************************************************************************)

Graph == INSTANCE EntityGraphProofs
  WITH Keys <- {KeyOf[id] : id \in Ids}, Fields <- {}, Values <- {}, Absent <- "absent",
       Instances <- Entities

\* What EntityGraph assumes of its constants holds of the ones it is given here.
LEMMA GraphAssumptions ==
  /\ Graph!KeysAssumption /\ Graph!InstancesAssumption /\ Graph!AbsentAssumption
BY ThingsAssumption DEF Graph!KeysAssumption, Graph!InstancesAssumption,
   Graph!AbsentAssumption, Store!Entity, Graph!Entity,
   Store!Metadata, Graph!Metadata, Store!Relation, Graph!Relation

\* A step of the process adds the entity at the head of the batch, or leaves the
\* graph alone.
LEMMA StepGraph ==
  ASSUME StoreInv, [ReconNext]_reconVars PROVE [Graph!Next]_Graph!vars
<1>1. CASE AddNext
  <2>1. Head(batch) \in Entities
    <3>1. batch \in Seq(Entities) /\ batch # << >>
      BY <1>1 DEF AddNext, StoreInv
    <3> QED
      BY <3>1
  <2>2. \A source, e : Graph!Pushed(source, e) = Store!Pushed(source, e)
    <3>1. \A set : Graph!Cardinality(set) = Store!Cardinality(set)
      BY DEF Graph!Cardinality, Store!Cardinality
    <3>2. \A e, t : Graph!Places(e, t) = Store!Places(e, t)
      BY DEF Graph!Places, Store!Places
    <3>3. Graph!Triples = Store!Triples
      BY DEF Graph!Triples, Store!Triples
    <3> QED
      BY <3>1, <3>2, <3>3 DEF Graph!Pushed, Store!Pushed
  <2>3. Graph!AddEntity(Head(batch))
    BY <1>1, <2>2 DEF AddNext, Store!AddEntity, Graph!AddEntity,
      Store!InsertNode, Graph!InsertNode, Store!MergeNode, Graph!MergeNode,
      Store!QueueAndResolve, Graph!QueueAndResolve, Store!Triples, Graph!Triples,
      Store!FinalId, Graph!FinalId, Store!Resolvable, Graph!Resolvable,
      Store!Merge, Graph!Merge, Store!MergeMetadata, Graph!MergeMetadata
  <2> QED
    BY <2>1, <2>3 DEF Graph!Next
<1>2. CASE ~ AddNext
  <2>1. UNCHANGED store
    <3>1. CASE Refuse \/ ValidatePipeline \/ PrintSnapshot \/ ReportError \/ Crash
      BY <3>1 DEF Refuse, ValidatePipeline, PrintSnapshot, ReportError, Crash, Exit
    <3>2. CASE NothingLeft \/ UNCHANGED reconVars
      BY <3>2 DEF NothingLeft, reconVars
    <3>3. CASE Preflight \/ AddSeed \/ ReturnGraph
      BY <3>3 DEF Preflight, AddSeed, ReturnGraph
    <3>4. ASSUME NEW i \in Tasks,
                 SpawnTask(i) \/ TakeOutcome(i) \/ TakeFailure(i) \/ RunTask(i) \/ Answer(i)
          PROVE  UNCHANGED store
      BY <3>4 DEF SpawnTask, TakeOutcome, TakeFailure, RunTask, Answer
    <3> QED
      BY <1>2, <3>1, <3>2, <3>3, <3>4 DEF ReconNext, CallerStep
  <2> QED
    BY <2>1 DEF Graph!vars, store
<1> QED
  BY <1>1, <1>2

\* The entity graph of a run behaves as EntityGraph says, so every theorem about
\* EntityGraph is one about a run (engine.rs:99-120, graph.rs).
THEOREM ReconRunsGraph == ReconSpec => Graph!Spec
<1>1. ReconInit => Graph!Init
  BY DEF ReconInit, Store!Init, Graph!Init, Store!Triples, Graph!Triples
<1>2. StoreInv /\ [ReconNext]_reconVars => [Graph!Next]_Graph!vars
  BY StepGraph
<1> QED
  BY <1>1, <1>2, StoreInvariance, PTL DEF ReconSpec, Graph!Spec

\* Three of those theorems.
LEMMA RunGraphInvariance ==
  ReconSpec => [](Graph!GInv /\ Graph!FirstInstancesAreLinked /\ Graph!NodesMergeInstances)
<1>1. Graph!Spec => []Graph!GInv
  BY Graph!GraphInvariance, GraphAssumptions
<1>2. Graph!Spec => []Graph!FirstInstancesAreLinked
  BY Graph!FirstInstancesLinked, GraphAssumptions
<1>3. Graph!Spec => []Graph!NodesMergeInstances
  BY Graph!NodesAreMerges, GraphAssumptions
<1> QED
  BY <1>1, <1>2, <1>3, ReconRunsGraph, PTL

\* What is printed was built from everything the stages and the user named.
LEMMA PrintedIsReported ==
  ASSUME IInv, StoreInv, Succeeded
  PROVE  /\ \A i \in Tasks : result[i] = "ok"
         /\ log \in Seq(Entities)
         /\ Range(log) = Reported
<1>1. phase = "ok" /\ batch = << >>
  BY DEF StoreInv
<1>2. Joined = Tasks /\ firstError = 0 /\ graph = Seed \cup UNION {output[i] : i \in Joined}
  BY <1>1 DEF IInv, JoinInv
<1>3. Range(log) = graph
  <2>1. Range(batch) = {}
    BY <1>1 DEF Range
  <2> QED
    BY <1>1, <2>1 DEF StoreInv, AddedOnce
<1>4. \A i \in Tasks : output[i] = Range(report[i])
  BY DEF StoreInv
<1> QED
  BY <1>2, <1>3, <1>4 DEF IInv, JoinInv, StoreInv, Reported

\* The keys of the nodes are those of the calls, one each.
LEMMA NodesPerKey ==
  ASSUME Graph!GInv, Graph!NodesMergeInstances
  PROVE  /\ {KeyOf[nodes[p].id] : p \in DOMAIN nodes} = {KeyOf[log[n].id] : n \in DOMAIN log}
         /\ Len(nodes) = Cardinality({KeyOf[nodes[p].id] : p \in DOMAIN nodes})
<1> DEFINE Key(p) == KeyOf[nodes[p].id]
           keys == {Key(p) : p \in DOMAIN nodes}
<1>1. /\ nodes \in Seq(Graph!Entity) /\ log \in Seq(Entities)
      /\ dedup_index \in [{KeyOf[id] : id \in Ids} -> 0 .. Len(nodes)]
      /\ \A p \in DOMAIN nodes : dedup_index[Key(p)] = p
  BY DEF Graph!GInv, Graph!TypeOK, Graph!IndexesAgree
<1>2. Len(nodes) \in Nat /\ DOMAIN nodes = 1 .. Len(nodes) /\ DOMAIN log = 1 .. Len(log)
  BY <1>1
<1>3. \A p \in DOMAIN nodes : nodes[p].id \in Ids
  <2>1. \A p \in DOMAIN nodes : nodes[p] \in Graph!Entity
    BY <1>1
  <2> QED
    BY <2>1 DEF Graph!Entity
<1>4. \A n \in DOMAIN log : log[n].id \in Ids
  BY <1>1, ThingsAssumption DEF Store!Entity
<1>5. ASSUME NEW p \in DOMAIN nodes PROVE \E n \in DOMAIN log : KeyOf[log[n].id] = Key(p)
  <2>1. Graph!HasValue(Key(p)) /\ Key(p) \in {KeyOf[id] : id \in Ids}
    BY <1>1, <1>2, <1>3 DEF Graph!HasValue
  <2> QED
    BY <2>1 DEF Graph!NodesMergeInstances, Graph!CallsFor
<1>6. ASSUME NEW n \in DOMAIN log PROVE \E p \in DOMAIN nodes : KeyOf[log[n].id] = Key(p)
  <2> DEFINE key == KeyOf[log[n].id]
  <2>1. key \in {KeyOf[id] : id \in Ids}
    BY <1>4
  <2>2. dedup_index[key] # 0 /\ KeyOf[nodes[dedup_index[key]].id] = key
    BY <2>1 DEF Graph!GInv, Graph!AddedHasNode, Graph!HasValue, Graph!IndexesAgree,
       Graph!FindByValue
  <2>3. dedup_index[key] \in DOMAIN nodes
    <3>1. dedup_index[key] \in 0 .. Len(nodes)
      BY <1>1, <2>1, Zenon
    <3> QED
      BY <1>2, <2>2, <3>1
  <2> QED
    BY <2>2, <2>3
<1>7. keys = {KeyOf[log[n].id] : n \in DOMAIN log}
  BY <1>5, <1>6
<1>8. Len(nodes) = Cardinality(keys)
  <2> DEFINE f == [p \in 1 .. Len(nodes) |-> Key(p)]
  <2>1. f \in Bijection(1 .. Len(nodes), keys)
    <3>1. f \in [1 .. Len(nodes) -> keys] /\ \A y \in keys : \E p \in 1 .. Len(nodes) : f[p] = y
      BY <1>2
    <3>2. \A p, q \in 1 .. Len(nodes) : f[p] = f[q] => p = q
      BY <1>1, <1>2
    <3> QED
      BY <3>1, <3>2 DEF Bijection, Injection, Surjection, IsInjective
  <2> HIDE DEF f, keys
  <2>2. keys = keys /\ ExistsBijection(1 .. Len(nodes), keys)
    BY <2>1 DEF ExistsBijection
  <2> QED
    BY <1>2, <2>2, FS_CountingElements
<1> QED
  BY <1>7, <1>8

\* run prints nothing less than the whole graph (main.rs:116-120): there is one
\* node for each thing that was named, whatever pipeline was run.
THEOREM PrintedComplete == ReconSpec => []PrintedIsComplete
<1>1. IInv /\ StoreInv /\ Graph!GInv /\ Graph!NodesMergeInstances => PrintedIsComplete
  <2> SUFFICES ASSUME IInv, StoreInv, Graph!GInv, Graph!NodesMergeInstances, Succeeded
               PROVE  /\ \A i \in Tasks : result[i] = "ok"
                      /\ {KeyOf[nodes[p].id] : p \in DOMAIN nodes} = {KeyOf[e.id] : e \in Reported}
                      /\ Len(nodes) = Cardinality({KeyOf[e.id] : e \in Reported})
    BY DEF PrintedIsComplete
  <2>1. (\A i \in Tasks : result[i] = "ok") /\ Range(log) = Reported
    BY PrintedIsReported
  <2>2. {KeyOf[log[n].id] : n \in DOMAIN log} = {KeyOf[e.id] : e \in Reported}
    BY <2>1 DEF Range
  <2> QED
    BY <2>1, <2>2, NodesPerKey
<1> QED
  BY <1>1, StoreInvariance, RunGraphInvariance, PTL

\* And no relation to a thing with one instance is missing from it, in whatever
\* order the stages were joined.
THEOREM SoleInstancesAreLinked == ReconSpec => []SoleInstancesLinked
<1>1. /\ IInv /\ StoreInv
      /\ Graph!GInv /\ Graph!NodesMergeInstances /\ Graph!FirstInstancesAreLinked
      => SoleInstancesLinked
  <2> SUFFICES ASSUME IInv, StoreInv, Graph!GInv, Graph!NodesMergeInstances,
                      Graph!FirstInstancesAreLinked, Succeeded,
                      NEW e \in Reported, NEW f \in Reported, NEW r \in Range(e.relations),
                      r.target = f.id, SoleInstance(f)
               PROVE  r \in Store!RelationsOf(Store!FindByValue(KeyOf[e.id]).id)
    BY DEF SoleInstancesLinked
  <2>1. Range(log) = Reported /\ log \in Seq(Entities)
    BY PrintedIsReported
  <2>2. PICK m \in DOMAIN log : log[m] = e
    BY <2>1 DEF Range
  <2>3. PICK k \in DOMAIN log : log[k] = f
    BY <2>1 DEF Range
  <2>4. PICK n \in DOMAIN log : Graph!IsFirst(n) /\ KeyOf[log[n].id] = KeyOf[f.id]
    <3>1. f.id \in Ids
      BY <2>1, <2>3, ThingsAssumption DEF Store!Entity
    <3>2. k \in Graph!CallsFor(KeyOf[f.id]) /\ KeyOf[f.id] \in {KeyOf[id] : id \in Ids}
      BY <2>3, <3>1 DEF Graph!CallsFor
    <3>3. Graph!MergesInstances(Graph!FindByValue(KeyOf[f.id]), KeyOf[f.id])
      BY <3>2 DEF Graph!NodesMergeInstances
    <3> QED
      BY <3>3 DEF Graph!MergesInstances, Graph!CallsFor
  <2>5. log[n] \in Reported /\ log[n].id = r.target
    <3>1. log[n] \in Reported
      BY <2>1 DEF Range
    <3> QED
      BY <2>4, <3>1 DEF SoleInstance
  <2>6. r \in Graph!RelationsOf(Graph!FindByValue(KeyOf[log[m].id]).id)
    <3>1. PICK i \in DOMAIN log[m].relations : log[m].relations[i] = r
      BY <2>2 DEF Range
    <3> QED
      BY <2>2, <2>4, <2>5, <3>1 DEF Graph!FirstInstancesAreLinked
  <2> QED
    BY <2>2, <2>6 DEF Graph!RelationsOf, Store!RelationsOf, Graph!FindByValue, Store!FindByValue,
       Graph!HasNode, Store!HasNode, Graph!Triples, Store!Triples
<1> QED
  BY <1>1, StoreInvariance, RunGraphInvariance, PTL

=============================================================================
