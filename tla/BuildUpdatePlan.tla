--------------------------- MODULE BuildUpdatePlan ---------------------------
(***************************************************************************)
(* The construction of an update plan (build_update_plan in                *)
(* src/update_plan.cpp, called target by target by execute_manifest) and   *)
(* its consumption by the loops that only print it (output_dot_graph.h,    *)
(* output_shell_script.h), step by step as the code does them. The closed  *)
(* forms of UpdatePlan, which ExecuteUpdatePlan is built on, are compared  *)
(* with it over every update map, cyclic ones included.                    *)
(*                                                                         *)
(* build_update_plan calls itself for each generated input: its calls that *)
(* have not returned are an explicit stack here, and a step visits one     *)
(* input or returns from one call.                                         *)
(***************************************************************************)
EXTENDS Naturals, Sequences, FiniteSets, SequencesExt

CONSTANTS Outputs, Sources,
          MaxDeps       \* bound: the longest input list of a rule

VARIABLES deps,         \* the update map, as UpdatePlan's Deps
          asked,        \* the targets already given to build_update_plan
          plan,         \* the update_plan
          stack,        \* the calls of build_update_plan that have not returned
          mode          \* "build", "drain"

vars == <<deps, asked, plan, stack, mode>>

ASSUME MaxDepsAssumption == MaxDeps \in Nat

Reference == INSTANCE UpdatePlan WITH Deps <- deps

EmptyPlan ==
  [pending |-> {}, queue |-> <<>>, counts |-> [t \in {} |-> 0],
   descendants |-> [t \in Outputs |-> <<>>], corrupted |-> FALSE]

(* counts as a std::unordered_map: a function whose domain grows.          *)
Put(f, k, v) == [x \in DOMAIN f \cup {k} |-> IF x = k THEN v ELSE f[x]]

Init ==
  /\ deps \in [Outputs -> BoundedSeq(Outputs \cup Sources, MaxDeps)]
  /\ asked = {} /\ plan = EmptyPlan /\ stack = <<>> /\ mode = "build"

-----------------------------------------------------------------------------
(* A call of build_update_plan: it returns at once for a pending file, or  *)
(* goes through its inputs, with a count of those that are generated.      *)
Enter(p, calls, t) ==
  IF t \in p.pending THEN plan' = p /\ stack' = calls
  ELSE /\ plan' = [p EXCEPT !.pending = @ \cup {t}]
       /\ stack' = Append(calls, [target |-> t, next |-> 1, inputCount |-> 0])

Top == stack[Len(stack)]

(* The targets come in the order of the command line, or, for --all, in    *)
(* that of an unordered_map: any order. Asking twice changes nothing.      *)
AddTarget(t) ==
  /\ mode = "build" /\ stack = <<>>
  /\ asked' = asked \cup {t}
  /\ Enter(plan, <<>>, t)
  /\ UNCHANGED <<deps, mode>>

(* Mutant: an input that is already in the plan is not looked at again.    *)
WithNewDescendant(p, input, t) ==
  IF input \in p.pending THEN p ELSE [p EXCEPT !.descendants[input] = Append(@, t)]

WithDescendant(p, input, t) == [p EXCEPT !.descendants[input] = Append(@, t)]

(* Mutant: sources are counted, too.                                       *)
CountingSources(input) == 1

Counting(input) == IF input \in Outputs THEN 1 ELSE 0

(* build_update_plan_for_path, for the next input.                         *)
VisitInput ==
  /\ stack # <<>> /\ Top.next <= Len(deps[Top.target])
  /\ LET input == deps[Top.target][Top.next]
         calls == [stack EXCEPT ![Len(stack)].next = @ + 1,
                                ![Len(stack)].inputCount = @ + Counting(input)]
     IN  IF input \in Outputs
         THEN Enter(WithDescendant(plan, input, Top.target), calls, input)
         ELSE stack' = calls /\ UNCHANGED plan
  /\ UNCHANGED <<deps, asked, mode>>

(* All inputs have been visited: the file waits for some, or is queued.    *)
LeaveTarget ==
  /\ stack # <<>> /\ Top.next > Len(deps[Top.target])
  /\ stack' = Front(stack)
  /\ plan' = IF Top.inputCount = 0 THEN [plan EXCEPT !.queue = Append(@, Top.target)]
             ELSE [plan EXCEPT !.counts = Put(@, Top.target, Top.inputCount)]
  /\ UNCHANGED <<deps, asked, mode>>

-----------------------------------------------------------------------------
(* One turn of the loop of update_plan::erase; without a count it throws.  *)
Decrement(p, d) ==
  IF p.corrupted \/ d \notin DOMAIN p.counts THEN [p EXCEPT !.corrupted = TRUE]
  ELSE [p EXCEPT !.counts[d] = @ - 1,
                 !.queue = IF p.counts[d] = 1 THEN Append(@, d) ELSE @]

DecrementAll(p, ds) ==
  LET After[k \in 0..Len(ds)] == IF k = 0 THEN p ELSE Decrement(After[k - 1], ds[k])
  IN  After[Len(ds)]

(* Mutant: each descendant is decremented once.                            *)
EraseOncePerFile(p, t) ==
  DecrementAll([p EXCEPT !.pending = @ \ {t}], SetToSeq(ToSet(p.descendants[t])))

Erase(p, t) == DecrementAll([p EXCEPT !.pending = @ \ {t}], p.descendants[t])

(* no_targets_error unless something is pending.                           *)
BeginDrain ==
  /\ mode = "build" /\ stack = <<>> /\ plan.pending # {}
  /\ mode' = "drain"
  /\ UNCHANGED <<deps, asked, plan, stack>>

(* The first file of the queue is printed and erased.                      *)
Emit ==
  /\ mode = "drain" /\ plan.queue # <<>> /\ ~plan.corrupted
  /\ plan' = Erase([plan EXCEPT !.queue = Tail(@)], Head(plan.queue))
  /\ UNCHANGED <<deps, asked, stack, mode>>

Next == (\E t \in Outputs : AddTarget(t)) \/ VisitInput \/ LeaveTarget \/ BeginDrain \/ Emit

Spec == Init /\ [][Next]_vars

-----------------------------------------------------------------------------
(* However the targets are ordered and however they share inputs, the plan *)
(* is the closed form: everything they need, each file counting each of    *)
(* its generated inputs, the files that wait for none queued once.         *)
PlanIsClosedForm ==
  mode = "build" /\ stack = <<>> =>
    /\ plan.pending = Reference!Planned(asked)
    /\ plan.counts = Reference!InitialCounts(plan.pending)
    /\ plan.queue \in Reference!Orderings(plan.pending \ DOMAIN plan.counts)

(* Each erase amounts to the closed form, on every update map, and never   *)
(* finds the plan corrupted.                                               *)
EraseIsClosedForm ==
  [][ Emit =>
      LET t == Head(plan.queue)
      IN  /\ plan'.counts = Reference!CountsAfter(plan.counts, t)
          /\ \E s \in Reference!Orderings(Reference!Released(plan.counts, t)) :
               plan'.queue = Tail(plan.queue) \o s
          /\ ~plan'.corrupted ]_vars

(* When the queue is empty, what is left of the plan is exactly the files  *)
(* that depend, through whatever chain, on a file made from itself: on an  *)
(* acyclic update map nothing is left out, and a cycle never takes down    *)
(* more than the files behind it.                                          *)
BehindACycle ==
  UNION {S \in SUBSET Reference!Planned(asked) :
           \A t \in S : Reference!Producers[t] \cap S # {}}

LeftoverIsCyclic == mode = "drain" /\ plan.queue = <<>> => plan.pending = BehindACycle
==============================================================================
