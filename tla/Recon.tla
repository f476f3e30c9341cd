------------------------------- MODULE Recon --------------------------------
(***************************************************************************)
(* The commands `run` and `validate` of the command line                   *)
(* (explorator-cli/src/main.rs): a pipeline file is loaded and either      *)
(* checked, or executed and its graph printed.                             *)
(*                                                                         *)
(* `run` composes Engine and EntityGraph.  Engine knows what the stages    *)
(* answer as sets of entities and adds a whole answer at once; here an     *)
(* answer is a list, and execute adds it to the entity graph one entity    *)
(* after the other, while the stages that still run go on.                 *)
(***************************************************************************)
EXTENDS Engine, PluginTypes, SequencesExt

CONSTANTS
  Target,         \* what the seed target looks like: [address, slash : BOOLEAN]
  Ids, KeyOf,     \* instance ids and their keys, [type, value] records
  Kinds, Sources, \* kinds of relations, plugin names
  SameName(_, _), \* names that differ in case at most
  Reports(_, _)   \* the lists a plugin may answer with, given its input

\* classify_seed: the type of the one entity a run starts from.
ClassifySeed(target) ==
  IF target.address THEN "IpAddress" ELSE IF target.slash THEN "Cidr" ELSE "Domain"

ASSUME SeedAssumption ==
  \E e \in Entities : /\ Seed = {e}
                      /\ e.source = "seed" /\ e.relations = << >>
                      /\ KeyOf[e.id].type = ClassifySeed(Target)
ASSUME RegistryAssumption == Registry = DOMAIN Registered

\* Two keys that a reader takes for the same; the graph does not, unless they are
\* spelled alike (graph.rs:39).
Respelled(key, other) == key.type = other.type /\ SameName(key.value, other.value)

\* A plugin reports what it declares to produce, or something of its input
\* again, in entities of its own; certsh in the spelling of the certificate
\* (certsh.rs:252-253).  DeclaredTypes in Plugins says so of the plugins.
ASSUME ReportsAssumption ==
  \A plugin \in Registry : \A taken \in {Seed} \cup Outputs \cup {{}} :
    \A list \in Reports(plugin, taken) :
      /\ list \in Seq(Entities) /\ Range(list) \in Outputs
      /\ \A e \in Range(list) : \/ KeyOf[e.id].type \in Registered[plugin].produces
                               \/ \E f \in taken : Respelled(KeyOf[e.id], KeyOf[f.id])

VARIABLES
  command,     \* the subcommand: "run" or "validate"
  exit,        \* how the process ended
  report,      \* report[i]: the list stage i answered with
  batch,       \* what add_entities still has to add
  nodes, index, dedup_index, edges, pending, log   \* the entity graph

store     == << nodes, index, dedup_index, edges, pending, log >>
reconVars == << vars, command, exit, report, batch, store >>

\* Metadata plays no part here.
Store == INSTANCE EntityGraph
  WITH Keys <- {KeyOf[id] : id \in Ids}, Fields <- {}, Values <- {}, Absent <- "absent",
       Instances <- Entities

\* Entities are values of the Rust type, and every id names a thing.
ASSUME ThingsAssumption ==
  /\ Entities \subseteq Store!Entity
  /\ KeyOf \in [Ids -> {KeyOf[id] : id \in Ids}]

-----------------------------------------------------------------------------
(* What is checked before execute is called.                               *)

\* Mutant of KnownPlugins: the lookup is left to execute.
LookedUpLater(p) == TRUE

KnownPlugins(p) == \A i \in DOMAIN p.stages : IsRegistered(p.stages[i].plugin)

\* Mutant of Complaint: the types are compared the wrong way round.
ComplaintReversed(p, s) ==
  \/ ~ IsRegistered(s.plugin)
  \/ /\ IsRegistered(s.plugin) /\ s.input # SEED_INPUT
     /\ \E t \in Range(p.stages) :
          /\ t.name = s.input /\ IsRegistered(t.plugin)
          /\ Registered[s.plugin].produces \cap Registered[t.plugin].accepts = {}

\* What validate says of stage s: its plugin is unknown, or nothing that its
\* input stage produces is accepted.  (A stage that names no known stage as its
\* input does not come this far.)
Complaint(p, s) ==
  \/ ~ IsRegistered(s.plugin)
  \/ /\ IsRegistered(s.plugin) /\ s.input # SEED_INPUT
     /\ \E t \in Range(p.stages) :
          /\ t.name = s.input /\ IsRegistered(t.plugin)
          /\ Registered[t.plugin].produces \cap Registered[s.plugin].accepts = {}

Complaints(p) == {i \in DOMAIN p.stages : Complaint(p, p.stages[i])}

\* PipelineDef::parse succeeds and, for run, the registry has every plugin.
Loaded == Validate(pipe) /\ (command = "run" => KnownPlugins(pipe))

-----------------------------------------------------------------------------

ReconInit ==
  /\ Init
  /\ command \in {"run", "validate"}
  /\ exit = "none"
  /\ report = [i \in Tasks |-> << >>]
  /\ batch = << >>
  /\ Store!Init

Exit(how) ==
  /\ exit = "none"
  /\ exit' = how
  /\ UNCHANGED << vars, command, report, batch, store >>

\* An error before execute is called.
Refuse == ~ Loaded /\ Exit("failure")

ValidatePipeline ==
  /\ command = "validate" /\ Loaded
  /\ Exit(IF Complaints(pipe) = {} THEN "success" ELSE "failure")

\* execute is running, or has returned.
Executing == command = "run" /\ Loaded /\ exit = "none"

\* The steps of Engine that have nothing to do with entities.
Preflight    == Executing /\ (Admit \/ Reject) /\ UNCHANGED << command, exit, report, batch, store >>
SpawnTask(i) == Executing /\ SpawnStep(i) /\ UNCHANGED << command, exit, report, batch, store >>

RunTask(i) ==
  /\ Executing
  /\ \/ AwaitDependencies(i) \/ StartPlugin(i)
     \/ PluginErr(i) \/ TimeoutElapses(i) \/ BackoffElapses(i)
     \/ PluginHangs(i) \/ PluginPanics(i)
     \/ EndTask(i)
  /\ UNCHANGED << command, exit, report, batch, store >>

\* The plugin answers with a list.
Answer(i) ==
  /\ Executing
  /\ PluginOk(i)
  /\ \E list \in Reports(Stage(i).plugin, input[i]) :
       /\ Range(list) = output'[i]
       /\ report' = [report EXCEPT ![i] = list]
  /\ UNCHANGED << command, exit, batch, store >>

\* graph.add_entities(seed), the first call.
AddSeed ==
  /\ Executing
  /\ StartJoining
  /\ batch' = SetToSeq(Seed)
  /\ UNCHANGED << command, exit, report, store >>

\* One round of add_entities: add_entity with the next entity.
AddNext ==
  /\ Executing
  /\ batch # << >>
  /\ Store!AddEntity(Head(batch))
  /\ batch' = Tail(batch)
  /\ UNCHANGED << vars, command, exit, report >>

\* Mutant of TakeOutcome: an outcome replaces what is still to be added.
TakeAtOnce(i) ==
  /\ Executing
  /\ JoinOk(i)
  /\ batch' = report[i]
  /\ UNCHANGED << command, exit, report, store >>

\* The join loop takes the next outcome only when the last one is added.
TakeOutcome(i) ==
  /\ Executing /\ batch = << >>
  /\ JoinOk(i)
  /\ batch' = report[i]
  /\ UNCHANGED << command, exit, report, store >>

TakeFailure(i) ==
  /\ Executing /\ batch = << >>
  /\ JoinErr(i) \/ JoinPanic(i)
  /\ UNCHANGED << command, exit, report, batch, store >>

ReturnGraph ==
  /\ Executing /\ batch = << >>
  /\ Return
  /\ UNCHANGED << command, exit, report, batch, store >>

\* to_snapshot is printed.
PrintSnapshot == phase = "ok" /\ Exit("success")

\* main prints the error; a panic ends the process by itself.
ReportError == phase \in {"rejected", "err"} /\ Exit("failure")
Crash       == phase = "panicked" /\ Exit("panic")

NothingLeft ==
  /\ exit # "none" \/ \E i \in Tasks : Unanswered(i)
  /\ UNCHANGED reconVars

CallerStep ==
  \/ Refuse \/ ValidatePipeline
  \/ Preflight \/ (\E i \in Tasks : SpawnTask(i))
  \/ AddSeed \/ AddNext
  \/ (\E i \in Tasks : TakeOutcome(i) \/ TakeFailure(i)) \/ ReturnGraph
  \/ PrintSnapshot \/ ReportError \/ Crash

ReconNext ==
  \/ CallerStep
  \/ \E i \in Tasks : RunTask(i) \/ Answer(i)
  \/ NothingLeft

ReconSpec == ReconInit /\ [][ReconNext]_reconVars

\* Every task that can go on is polled, and so is main.
FairRecon ==
  /\ ReconSpec
  /\ WF_reconVars(CallerStep)
  /\ \A i \in Positions : WF_reconVars(i \in Tasks /\ (RunTask(i) \/ Answer(i)))

-----------------------------------------------------------------------------
(* Properties.                                                             *)

Succeeded == command = "run" /\ exit = "success"
Reported  == Seed \cup UNION {Range(report[i]) : i \in Tasks}

\* The stages whose answers execute has taken.
Landed == {i \in Tasks : pc[i] = "joined" /\ result[i] = "ok"}

\* The entities execute has taken are those in the graph and those on their
\* way there, and nothing is added a second time: each list once, in the order
\* of its stage, in one piece (engine.rs:115-120).
AddedOnce ==
  /\ phase \in {"joining", "ok", "err"} => Range(log) \cup Range(batch) = graph
  /\ \E order \in SetToSeqs(Landed) :
       LET lists == FlattenSeq([n \in DOMAIN order |-> report[order[n]]])
       IN  phase \in {"joining", "ok", "err"} => log \o batch = SetToSeq(Seed) \o lists

\* run prints a graph only when every stage has succeeded, and then one node
\* for everything the stages and the user named, whatever instance of it came
\* first (main.rs:116-120).
PrintedIsComplete ==
  Succeeded =>
    /\ \A i \in Tasks : result[i] = "ok"
    /\ {KeyOf[nodes[p].id] : p \in DOMAIN nodes} = {KeyOf[e.id] : e \in Reported}
    /\ Len(nodes) = Cardinality({KeyOf[e.id] : e \in Reported})

\* In the printed graph every relation to a thing that was named once only is
\* an edge, whichever stage was joined first; a thing that several instances
\* stand for may lose the relations to all but one of them.
SoleInstance(e) == \A f \in Reported : KeyOf[f.id] = KeyOf[e.id] => f.id = e.id

SoleInstancesLinked ==
  Succeeded =>
    \A e, f \in Reported : \A r \in Range(e.relations) :
      r.target = f.id /\ SoleInstance(f) =>
        r \in Store!RelationsOf(Store!FindByValue(KeyOf[e.id]).id)

\* The three places that look at a pipeline agree.  Past the checks of run,
\* execute refuses cycles and nothing else; a run that was refused would have
\* been refused, or complained about, by validate, but for a cycle; and a stage
\* that validate complains of gets nothing it accepts, but what its input stage
\* hands on of its own input, perhaps in another spelling (main.rs:99-106,
\* 153-178, engine.rs:44-48, certsh.rs:252-253).
FeedsOn(i, j) == Stage(j).name = Stage(i).input

ChecksAgree ==
  /\ phase = "rejected" => ~ Acyclic(pipe)
  /\ command = "run" /\ exit = "failure" /\ phase \in {"called", "rejected"} =>
       ~ Validate(pipe) \/ Complaints(pipe) # {} \/ ~ Acyclic(pipe)
  /\ phase = "joining" =>
       \A i \in Complaints(pipe) : \A e \in input[i] :
         KeyOf[e.id].type \in Registered[Stage(i).plugin].accepts =>
           \E j \in Tasks :
             FeedsOn(i, j) /\ \E f \in input[j] : Respelled(KeyOf[e.id], KeyOf[f.id])

\* The inductive invariant behind ChecksAgree, next to that of Engine: what the
\* checks of run have let through, and where inputs and answers come from.
ReconInv ==
  /\ phase # "called" => command = "run" /\ Loaded
  /\ phase = "rejected" => ~ Accepted(pipe)
  /\ command = "run" /\ exit = "failure" => ~ Loaded \/ phase \in {"rejected", "err"}
  /\ \A i \in Tasks :
       /\ pc[i] \in {"unspawned", "waiting"} => input[i] = {}
       /\ input[i] \in {Seed} \cup Outputs \cup {{}}
       /\ result[i] = "ok" =>
            \E list \in Reports(Stage(i).plugin, input[i]) : Range(list) = output[i]

\* The inductive invariant behind the properties of the printed graph, next to
\* those of Engine and of EntityGraph: what of the answers is in the graph.
StoreInv ==
  /\ report \in [Tasks -> Seq(Entities)]
  /\ batch \in Seq(Entities) /\ log \in Seq(Entities)
  /\ \A i \in Tasks : Range(report[i]) = output[i]
  /\ phase \in {"called", "rejected", "spawning"} => log = << >> /\ batch = << >>
  /\ phase \in {"ok", "err"} => batch = << >>
  /\ Succeeded => phase = "ok"
  /\ AddedOnce

\* The process ends, unless a plugin without a timeout never answers.
ProcessEnds == <>(exit # "none" \/ \E i \in Tasks : Unanswered(i))

=============================================================================
