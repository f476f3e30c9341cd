--------------------------- MODULE StageSchedule ----------------------------
(***************************************************************************)
(* What a call of ExecutionEngine::execute promises its caller, without    *)
(* channels, permits, retries, timeouts or joins: stages start when the    *)
(* stages they depend on are settled and a slot is free, each settles      *)
(* once, and the verdict is taken when all are settled.                    *)
(***************************************************************************)
EXTENDS Pipeline

CONSTANTS
  Pipelines,   \* the pipelines the call may be made with
  Seed,        \* the seed entities
  Outputs      \* what a stage may find

VARIABLES
  pipe,        \* the pipeline
  status,      \* status[i]: what has become of stage i
  found,       \* found[i]: what stage i found
  verdict,     \* what the call returned
  report       \* the entities it returned

scheduleVars == << pipe, status, found, verdict, report >>

Stages      == DOMAIN pipe.stages
Settled     == {i \in Stages : status[i] \in {"succeeded", "failed"}}
Running     == {i \in Stages : status[i] = "running"}
Crashed     == {i \in Stages : status[i] = "crashed"}

\* The stages that stage i names.
Predecessors(i) ==
  {j \in Stages :
     pipe.stages[j].name \in Dependencies(pipe.stages[i]) \ {SEED_INPUT}}

\* A stage lists the seed in depends_on, and no stage is called so.
OrdersAfterSeed(p) ==
  \E i \in DOMAIN p.stages : SEED_INPUT \in p.stages[i].depends_on \ Names(p)

-----------------------------------------------------------------------------

Init ==
  /\ pipe \in Pipelines
  /\ status = [i \in Stages |-> "idle"]
  /\ found = [i \in Stages |-> {}]
  /\ verdict = "pending"
  /\ report = {}

Refuse ==
  /\ verdict = "pending"
  /\ ~ Accepted(pipe)
  /\ verdict' = "refused"
  /\ UNCHANGED << pipe, status, found, report >>

Start(i) ==
  /\ verdict = "pending"
  /\ Accepted(pipe)
  /\ status[i] = "idle"
  /\ Predecessors(i) \subseteq Settled
  /\ Cardinality(Running) < Limit(pipe)
  /\ status' = [status EXCEPT ![i] = "running"]
  /\ UNCHANGED << pipe, found, verdict, report >>

Succeed(i) ==
  /\ verdict = "pending"
  /\ status[i] = "running"
  /\ status' = [status EXCEPT ![i] = "succeeded"]
  /\ \E out \in Outputs : found' = [found EXCEPT ![i] = out]
  /\ UNCHANGED << pipe, verdict, report >>

Fail(i) ==
  /\ verdict = "pending"
  /\ status[i] = "running"
  /\ status' = [status EXCEPT ![i] = "failed"]
  /\ UNCHANGED << pipe, found, verdict, report >>

Crash(i) ==
  /\ verdict = "pending"
  /\ status[i] = "running"
  /\ status' = [status EXCEPT ![i] = "crashed"]
  /\ UNCHANGED << pipe, found, verdict, report >>

\* The call returns everything every stage found, or an error.
Conclude ==
  /\ verdict = "pending"
  /\ Accepted(pipe)
  /\ Settled = Stages
  /\ IF \E i \in Stages : status[i] = "failed"
     THEN verdict' = "error" /\ UNCHANGED report
     ELSE verdict' = "graph" /\ report' = Seed \cup UNION {found[i] : i \in Stages}
  /\ UNCHANGED << pipe, status, found >>

\* The call panics: a plugin did, or a stage orders itself after the seed.
Abort ==
  /\ verdict = "pending"
  /\ Crashed # {} \/ (Accepted(pipe) /\ OrdersAfterSeed(pipe))
  /\ verdict' = "panic"
  /\ UNCHANGED << pipe, status, found, report >>

Next ==
  \/ Refuse \/ Conclude \/ Abort
  \/ \E i \in Stages : Start(i) \/ Succeed(i) \/ Fail(i) \/ Crash(i)

Spec == Init /\ [][Next]_scheduleVars

=============================================================================
