------------------------------ MODULE MCEngine ------------------------------
(***************************************************************************)
(* Instances of Engine for TLC.                                            *)
(***************************************************************************)
EXTENDS EngineRefinement

StageOf(name, in, deps, timed, retries) ==
  [name |-> name, plugin |-> "mock", input |-> in, depends_on |-> deps,
   timed |-> timed, retries |-> retries]

MCRegistry == {"mock"}
MCEntities == {"domain", "host", "ip"}
MCSeed     == {"domain"}
MCOutputs  == {{"host"}, {"host", "ip"}}

\* Not a set of entities.
MCNotSent  == {"not sent"}

-----------------------------------------------------------------------------

\* Two branches that join again, on two permits; the last stage takes its
\* input from one branch and only waits for the other.
Diamond ==
  [concurrency |-> 2,
   stages |-> << StageOf("a", "seed", {}, TRUE, 0),
                 StageOf("b", "a", {"a"}, FALSE, 0),
                 StageOf("c", "a", {}, FALSE, 0),
                 StageOf("d", "b", {"c"}, TRUE, 0) >>]

\* Stages written in the reverse of their order, with retries, on the one
\* permit that a concurrency of 0 leaves.
Reversed ==
  [concurrency |-> 0,
   stages |-> << StageOf("c", "b", {"a"}, FALSE, 1),
                 StageOf("b", "seed", {"a"}, TRUE, 2),
                 StageOf("a", "seed", {}, TRUE, 1) >>]

\* More independent stages than permits.
Crowded ==
  [concurrency |-> 2,
   stages |-> << StageOf("a", "seed", {}, TRUE, 1),
                 StageOf("b", "seed", {}, FALSE, 0),
                 StageOf("c", "seed", {"b"}, TRUE, 1) >>]

ThreeCycle ==
  [concurrency |-> 4,
   stages |-> << StageOf("a", "seed", {"c"}, TRUE, 0),
                 StageOf("b", "a", {}, TRUE, 0),
                 StageOf("c", "b", {}, TRUE, 0),
                 StageOf("d", "seed", {}, TRUE, 0) >>]

CorePipelines == {Diamond, Reversed, Crowded, ThreeCycle}

\* A waits-for relation in every shape two stages can have, names and plugins
\* that preflight must turn down included, and "seed" among the dependencies.
TwoStagePipelines ==
  {[concurrency |-> 1, stages |-> << s, t >>] :
     s \in [name : {"a"}, plugin : {"mock", "missing"}, input : {"seed", "a", "b"},
            depends_on : SUBSET {"seed", "b", "x"}, timed : {TRUE}, retries : {0}],
     t \in [name : {"a", "b"}, plugin : {"mock", "missing"}, input : {"seed", "a"},
            depends_on : SUBSET {"seed", "a", "b"}, timed : {FALSE}, retries : {0}]}

AllPipelines == CorePipelines \cup TwoStagePipelines

\* A seed dependency of a stage that takes its input from another stage.
SeedDependency ==
  {[concurrency |-> 4,
    stages |-> << StageOf("a", "seed", {}, TRUE, 0),
                  StageOf("b", "a", {"seed"}, TRUE, 0) >>]}

\* A stage called "seed".
StageNamedSeed ==
  {[concurrency |-> 4,
    stages |-> << StageOf("seed", "seed", {}, TRUE, 0),
                  StageOf("b", "seed", {"seed"}, TRUE, 0) >>]}

=============================================================================
