-------------------------- MODULE EngineRefinement --------------------------
(***************************************************************************)
(* The engine implements StageSchedule.  A stage is idle until it has its  *)
(* permit, runs through all its attempts and the sleeps between them, and  *)
(* is settled by its broadcast; the graph is reported when execute returns *)
(* it.                                                                     *)
(***************************************************************************)
EXTENDS EngineInvariants

SettledAs  == [ok |-> "succeeded", err |-> "failed", panic |-> "crashed"]
ReturnedAs == [rejected |-> "refused", ok |-> "graph", err |-> "error", panicked |-> "panic"]

StatusAt(place, outcome) ==
  IF place \in NotYetRun THEN "idle"
  ELSE IF place \in Attempting THEN "running" ELSE SettledAs[outcome]

StatusOf(i) == StatusAt(pc[i], result[i])
Verdict     == IF Ended THEN ReturnedAs[phase] ELSE "pending"

Schedule == INSTANCE StageSchedule
  WITH status  <- [i \in Tasks |-> StatusOf(i)],
       found   <- output,
       verdict <- Verdict,
       report  <- IF phase = "ok" THEN graph ELSE {}

\* Whatever the tasks and the runtime do, the call is one of the schedules
\* that StageSchedule allows: declared order, bounded overlap, one outcome per
\* stage, and a verdict that covers every stage.
ImplementsSchedule == Schedule!Spec

=============================================================================
