------------------------------ MODULE Pipeline ------------------------------
(***************************************************************************)
(* Pipeline definitions (explorator-core/src/pipeline.rs) and the part of  *)
(* the engine's preflight that only looks at the definition                *)
(* (assert_acyclic in explorator-core/src/engine.rs).                      *)
(*                                                                         *)
(* A pipeline is a sequence of stages.  A stage names the plugin it runs,  *)
(* the stage (or the seed) it takes its input from, and any further stages *)
(* it has to wait for.  Names are strings, as they are in the TOML file;   *)
(* descriptions and plugin configuration play no part in scheduling.       *)
(***************************************************************************)
EXTENDS Naturals, Sequences, FiniteSets

CONSTANTS
  U32,        \* the number of values of the retries field, 2^32 in Rust
  Registry    \* the names of the plugins that are registered

ASSUME U32Assumption == U32 \in Nat \ {0, 1}

SEED_INPUT == "seed"

\* `timed` says whether timeout_secs is given.  depends_on is a Vec in the
\* code; waiting is idempotent and order-free, so a set says the same.
StageDef == [name       : STRING,
             plugin     : STRING,
             input      : STRING,
             depends_on : SUBSET STRING,
             timed      : BOOLEAN,
             retries    : 0 .. U32 - 1]

PipelineDef == [concurrency : Nat, stages : Seq(StageDef)]

\* All stages this one must wait for: its input stage, unless that is the
\* seed, and every explicit depends_on entry.
Dependencies(stage) ==
  stage.depends_on \cup ({stage.input} \ {SEED_INPUT})

Names(p) == {p.stages[i].name : i \in DOMAIN p.stages}

\* Two stages may not share a name.
UniqueNames(p) ==
  \A i, j \in DOMAIN p.stages : p.stages[i].name = p.stages[j].name => i = j

\* Every dependency is the word "seed" or names a stage.
KnownDependencies(p) ==
  \A i \in DOMAIN p.stages :
    Dependencies(p.stages[i]) \subseteq Names(p) \cup {SEED_INPUT}

Validate(p) ==
  /\ p.stages # << >>
  /\ UniqueNames(p)
  /\ KnownDependencies(p)

\* Mutant of Acyclic: the edges come from `input` only.
AcyclicByInput(p) ==
  \A S \in SUBSET DOMAIN p.stages :
    S # {} => \E i \in S : \A j \in S : p.stages[j].name # p.stages[i].input

\* What a topological sort decides: among any stages there is one that
\* depends on none of them.  Dependencies that name no stage add no edge.
Acyclic(p) ==
  \A S \in SUBSET DOMAIN p.stages :
    S # {} => \E i \in S : \A j \in S :
                 p.stages[j].name \notin Dependencies(p.stages[i])

\* What the preflight of execute accepts: a valid definition whose plugins
\* are all registered and whose dependencies have no cycle.
Accepted(p) ==
  /\ Validate(p)
  /\ \A i \in DOMAIN p.stages : p.stages[i].plugin \in Registry
  /\ Acyclic(p)

\* The permits of the semaphore: concurrency, but at least one.
Limit(p) == IF p.concurrency = 0 THEN 1 ELSE p.concurrency

=============================================================================
