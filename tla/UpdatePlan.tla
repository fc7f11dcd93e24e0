----------------------------- MODULE UpdatePlan -----------------------------
(***************************************************************************)
(* The update plan of src/update_plan.h as values: which output files a    *)
(* set of targets needs, how many inputs each still waits for, and what    *)
(* erasing an updated file does to the counts and to the queue.            *)
(*                                                                         *)
(* An input named twice by a rule is counted twice and erased twice, so    *)
(* everything here is in terms of the *slots* of a file's input list.      *)
(***************************************************************************)
EXTENDS Naturals, Sequences, FiniteSets

CONSTANTS Outputs,   \* keys of update_map::output_files_by_path
          Sources,   \* files no rule generates
          Deps       \* Deps[t]: local_input_file_paths, then the flattened
                     \* dependency_groups, then order_only_dependency_file_paths

ASSUME FilesAssumption == IsFiniteSet(Outputs) /\ Outputs \cap Sources = {}
ASSUME DepsAssumption  == Deps \in [Outputs -> Seq(Outputs \cup Sources)]

(* The positions of t's input list that name a file of S.                  *)
SlotsIn(t, S) == {k \in DOMAIN Deps[t] : Deps[t][k] \in S}

(* How often the input list of d names i.                                  *)
Uses(i, d) == Cardinality(SlotsIn(d, {i}))

Producers == [t \in Outputs |-> {i \in Outputs : SlotsIn(t, {i}) # {}}]

(* The plan of a set of targets: the least set of output files that holds  *)
(* the targets and everything generated that its members are made from.    *)
Closed(S) == \A t \in S : Producers[t] \subseteq S

Planned(targets) ==
  {t \in Outputs : \A S \in SUBSET Outputs : targets \subseteq S /\ Closed(S) => t \in S}

(* Mutant: an input named twice is counted once.                           *)
InitialCountsOfFiles(P) ==
  [t \in {d \in P : SlotsIn(d, Outputs) # {}} |-> Cardinality(Producers[t])]

(* pending_input_counts_by_path once the plan of P is built: an entry for  *)
(* every file that waits for at least one other.                           *)
InitialCounts(P) ==
  [t \in {d \in P : SlotsIn(d, Outputs) # {}} |-> Cardinality(SlotsIn(t, Outputs))]

(* Mutants: a descendant is decremented once however often it names t; a   *)
(* descendant is queued when one of its inputs is still missing.           *)
CountsAfterOne(counts, t) ==
  [d \in DOMAIN counts |-> IF Uses(t, d) > 0 THEN counts[d] - 1 ELSE counts[d]]

ReleasedTooSoon(counts, t) ==
  {d \in DOMAIN counts : Uses(t, d) > 0 /\ counts[d] <= Uses(t, d) + 1}

(* update_plan::erase, for a file t all of whose descendants have a count: *)
(* each descendant is decremented once per slot and queued when it reaches *)
(* zero. The order of descendants_by_path is left open.                    *)
CountsAfter(counts, t) == [d \in DOMAIN counts |-> counts[d] - Uses(t, d)]

Released(counts, t) ==
  {d \in DOMAIN counts : Uses(t, d) > 0 /\ counts[d] = Uses(t, d)}

Orderings(S) ==
  {s \in [1..Cardinality(S) -> S] : \A j, k \in 1..Cardinality(S) : s[j] = s[k] => j = k}
==============================================================================
