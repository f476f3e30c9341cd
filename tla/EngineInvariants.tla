-------------------------- MODULE EngineInvariants --------------------------
(***************************************************************************)
(* The inductive invariant behind the engine's safety properties, in named *)
(* parts.  Each part relates a task's place in its code to the shared      *)
(* state: channels, permits, the graph and the kept error.                 *)
(***************************************************************************)
EXTENDS Engine

NotYetRun == {"unspawned", "waiting", "acquiring"}
Attempting == {"running", "hung", "backoff"}
Over       == {"sent", "done", "joined"}

\* Tasks exist only for pipelines that preflight accepted, and only on
\* channels that exist.
SpawnedInv ==
  /\ phase \notin {"called", "rejected"} => Accepted(pipe)
  /\ phase \in {"called", "rejected"} => \A i \in Tasks : pc[i] = "unspawned"
  /\ phase \in {"joining", "ok", "err"} => \A i \in Tasks : pc[i] # "unspawned"
  /\ \A i \in Tasks :
       pc[i] # "unspawned" => Awaited(Stage(i)) \subseteq Names(pipe)

\* A task has a result exactly when its plugin is through with it.
ResultInv ==
  \A i \in Tasks :
    /\ pc[i] \in Over <=> result[i] # "none"
    /\ result[i] = "panic" => pc[i] = "done"
    /\ result[i] # "ok" => output[i] = {}

\* A channel holds a value exactly when its stage succeeded or failed: what
\* it found in the one case, nothing in the other.
ChannelInv ==
  \A i \in Tasks :
    /\ Sent(Stage(i).name) <=> result[i] \in {"ok", "err"}
    /\ result[i] = "ok" => channel[Stage(i).name] = output[i]
    /\ result[i] = "err" => channel[Stage(i).name] = {}

\* A task that is through waiting has all it waited for, and its input is
\* what the input channel holds.
WaitedInv ==
  \A i \in Tasks :
    pc[i] \notin {"unspawned", "waiting"} =>
      /\ \A n \in Awaited(Stage(i)) : Sent(n)
      /\ input[i] = IF Stage(i).input = SEED_INPUT
                    THEN Seed
                    ELSE channel[Stage(i).input]

\* run_with_retry's counter.
AttemptInv ==
  \A i \in Tasks :
    /\ pc[i] \in NotYetRun => attempt[i] = 0
    /\ pc[i] \in Attempting => 1 <= attempt[i]
    /\ pc[i] = "backoff" => attempt[i] < MaxAttempts(Stage(i))
    /\ result[i] = "err" => attempt[i] >= MaxAttempts(Stage(i))
    /\ attempt[i] <= Stage(i).retries + 1

\* What the join loop has collected.
Joined == {i \in Tasks : pc[i] = "joined"}

JoinInv ==
  /\ Joined # {} => phase \notin {"called", "rejected", "spawning"}
  /\ phase \in {"joining", "ok", "err"} =>
       graph = Seed \cup UNION {output[i] : i \in Joined}
  /\ firstError = 0 => \A i \in Joined : result[i] = "ok"
  /\ firstError # 0 => result[firstError] = "err"
  /\ phase \in {"ok", "err"} => Joined = Tasks
  /\ phase = "ok" => firstError = 0
  /\ phase = "err" => firstError # 0

\* The inductive invariant of execute (engine.rs): every part is needed by the
\* step of another, but for the permits.
IInv ==
  /\ TypeOK
  /\ SpawnedInv
  /\ ResultInv
  /\ ChannelInv
  /\ WaitedInv
  /\ AttemptInv
  /\ PermitsBalance
  /\ JoinInv

=============================================================================
