---------------------------- MODULE OrderedUpdate ----------------------------
(***************************************************************************)
(* What carrying out an update plan promises, whoever carries it out: an   *)
(* output file is handled once, only when every output file it is made     *)
(* from is up to date, and once an update is given up nothing new begins.  *)
(*                                                                         *)
(* ExecuteUpdatePlan, the thread pool of src/update_plan.cpp, implements   *)
(* this specification.                                                     *)
(***************************************************************************)

CONSTANTS Outputs,     \* the output files of the update map
          Producers    \* Producers[t]: the output files t is made from

VARIABLE phase         \* where each output file stands in this execution

vars == <<phase>>

Phases == {"waiting", "running", "done", "dropped"}

TypeOK == phase \in [Outputs -> Phases]

In(p) == {t \in Outputs : phase[t] = p}

(* Files outside of the plan have nothing left to do from the start.       *)
Init == phase \in [Outputs -> {"waiting", "done"}]

Ready(t) ==
  /\ phase[t] = "waiting"
  /\ \A i \in Producers[t] : phase[i] = "done"
  /\ In("dropped") = {}

Start(t)   == Ready(t) /\ phase' = [phase EXCEPT ![t] = "running"]
Skip(t)    == Ready(t) /\ phase' = [phase EXCEPT ![t] = "done"]
Succeed(t) == phase[t] = "running" /\ phase' = [phase EXCEPT ![t] = "done"]
Drop(t)    == phase[t] = "running" /\ phase' = [phase EXCEPT ![t] = "dropped"]

(* The execution stops with jobs in flight: none of them is ever recorded. *)
Abandon ==
  /\ In("running") # {}
  /\ phase' = [t \in Outputs |->
                 IF phase[t] = "running" THEN "dropped" ELSE phase[t]]

Next ==
  \/ \E t \in Outputs : Start(t) \/ Skip(t) \/ Succeed(t) \/ Drop(t)
  \/ Abandon

Spec == Init /\ [][Next]_vars

(* A job runs only while everything it is made from is up to date.         *)
ProducersDoneFirst ==
  \A t \in Outputs : phase[t] = "running" =>
    \A i \in Producers[t] : phase[i] = "done"
==============================================================================
