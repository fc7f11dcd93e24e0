-------------------------- MODULE ExecuteUpdatePlan --------------------------
(***************************************************************************)
(* execute_update_plan of src/update_plan.cpp and the worker threads of    *)
(* src/update_worker.cpp: the main thread checks the queued output files,  *)
(* hands the stale ones to a pool of worker threads, collects the finished *)
(* jobs, and shuts the pool down when it leaves.                           *)
(*                                                                         *)
(* One mutex (worker_pool::state_mutex) protects every status. The main    *)
(* thread holds it from the construction of the pool on, except while it   *)
(* waits on global_cv and once the destructor of the pool has unlocked it; *)
(* MutexFree says so. A worker's critical sections are single actions.     *)
(***************************************************************************)
EXTENDS UpdatePlan, Integers

CONSTANTS Workers,     \* as many worker threads as cx.concurrency allows
          NoTarget     \* stands for the empty path of a worker without a job

ASSUME WorkersAssumption  == IsFiniteSet(Workers) /\ Workers # {}
ASSUME NoTargetAssumption == NoTarget \notin Outputs

VARIABLES
  pending,     \* pending_output_file_paths
  queue,       \* queued_output_file_paths
  counts,      \* pending_input_counts_by_path
  pc,          \* where the main thread is
  hasErrors,   \* has_errors of the collecting loop
  outcome,     \* how the main loop was left
  status,      \* worker_state::status, "none" before the worker exists
  target,      \* worker_state::local_target_path
  result,      \* what the worker's last command came to
  loc          \* where each worker thread is

plan   == <<pending, queue, counts>>
worker == <<status, target, result, loc>>
vars   == <<pending, queue, counts, pc, hasErrors, outcome, status, target, result, loc>>

Statuses == {"none", "idle", "in_progress", "finished", "shutdown"}
Locs     == {"none", "ready", "waiting", "running", "ended", "exited"}
Results  == {"ok", "failed"}
PCs      == {"schedule", "scan", "wait", "woken", "collect", "unwind", "join", "returned"}
Outcomes == {"none", "updated", "errors", "threw"}

With(s)     == {w \in Workers : status[w] = s}
MutexFree   == pc \in {"wait", "woken", "join", "returned"}
InLoop      == pc \in {"schedule", "scan", "wait", "woken", "collect"}
Queued      == {queue[k] : k \in DOMAIN queue}

Init ==
  /\ \E targets \in (SUBSET Outputs) \ {{}} : pending = Planned(targets)
  /\ counts = InitialCounts(pending)
  /\ queue \in Orderings(pending \ DOMAIN counts)
  /\ pc = "schedule"
  /\ hasErrors = FALSE
  /\ outcome = "none"
  /\ status = [w \in Workers |-> "none"]
  /\ target = [w \in Workers |-> NoTarget]
  /\ result = [w \in Workers |-> "ok"]
  /\ loc = [w \in Workers |-> "none"]

(* plan.erase(t), applied to what remains of the queue.                    *)
Erase(t, rest) ==
  /\ pending' = pending \ {t}
  /\ counts' = CountsAfter(counts, t)
  /\ \E s \in Orderings(Released(counts, t)) : queue' = rest \o s

-----------------------------------------------------------------------------
(* The inner loop over the queue. is_file_up_to_date is asked for the head *)
(* each time around, so its three outcomes are open each time.             *)

ScheduleUpToDate ==
  /\ pc = "schedule" /\ queue # <<>>
  /\ Erase(Head(queue), Tail(queue))
  /\ UNCHANGED <<pc, hasErrors, outcome, worker>>

(* file_changed_manually_error leaves execute_update_plan altogether.      *)
ScheduleThrows ==
  /\ pc = "schedule" /\ queue # <<>>
  /\ pc' = "unwind" /\ outcome' = "threw"
  /\ UNCHANGED <<plan, hasErrors, worker>>

(* Mutants: the pool stops one worker short of the concurrency; the head   *)
(* stays in the queue.                                                     *)
CanTakeButLast(w) ==
  w \in (IF With("idle") # {} THEN With("idle")
         ELSE IF Cardinality(With("none")) > 1 THEN With("none") ELSE {})

ScheduleWithoutPop(w) ==
  /\ pc = "schedule" /\ queue # <<>>
  /\ w \in With("idle") \cup With("none")
  /\ target' = [target EXCEPT ![w] = Head(queue)]
  /\ status' = [status EXCEPT ![w] = "in_progress"]
  /\ loc' = [loc EXCEPT ![w] = "ready"]
  /\ UNCHANGED <<queue, pending, counts, pc, hasErrors, outcome, result>>

(* The head is stale: give it to an idle worker, or to a new one when none *)
(* is idle and the concurrency allows it. Workers are interchangeable, so  *)
(* which idle one the index loop meets first is left open.                 *)
CanTake(w) == w \in (IF With("idle") # {} THEN With("idle") ELSE With("none"))

ScheduleJob(w) ==
  /\ pc = "schedule" /\ queue # <<>>
  /\ CanTake(w)
  /\ queue' = Tail(queue)
  /\ target' = [target EXCEPT ![w] = Head(queue)]
  /\ status' = [status EXCEPT ![w] = "in_progress"]
  /\ loc' = [loc EXCEPT ![w] = "ready"]
  /\ UNCHANGED <<pending, counts, pc, hasErrors, outcome, result>>

ScheduleStops ==
  /\ pc = "schedule"
  /\ queue = <<>> \/ ~ \E w \in Workers : CanTake(w)
  /\ pc' = "scan" /\ hasErrors' = FALSE
  /\ UNCHANGED <<plan, outcome, worker>>

-----------------------------------------------------------------------------
(* The waiting loop, and the collecting loop that follows it.              *)

Scan ==
  /\ pc \in {"scan", "woken"}
  /\ pc' = IF With("finished") # {} \/ With("in_progress") = {} THEN "collect" ELSE "wait"
  /\ UNCHANGED <<plan, hasErrors, outcome, worker>>

Idle(w) == status' = [status EXCEPT ![w] = "idle"]

(* Mutant: a failed job is erased from the plan.                           *)
CollectFailedErases(w) ==
  /\ pc = "collect" /\ status[w] = "finished" /\ result[w] = "failed"
  /\ Idle(w) /\ Erase(target[w], queue)
  /\ hasErrors' = TRUE
  /\ UNCHANGED <<pc, outcome, target, result, loc>>

CollectFailed(w) ==
  /\ pc = "collect" /\ status[w] = "finished" /\ result[w] = "failed"
  /\ Idle(w)
  /\ hasErrors' = TRUE
  /\ UNCHANGED <<plan, pc, outcome, target, result, loc>>

CollectUpdated(w) ==
  /\ pc = "collect" /\ status[w] = "finished" /\ result[w] = "ok"
  /\ Idle(w)
  /\ Erase(target[w], queue)
  /\ UNCHANGED <<pc, hasErrors, outcome, target, result, loc>>

(* finalize_scheduled_update throws, undeclared_rule_dependency_error say. *)
CollectThrows(w) ==
  /\ pc = "collect" /\ status[w] = "finished" /\ result[w] = "ok"
  /\ Idle(w)
  /\ pc' = "unwind" /\ outcome' = "threw"
  /\ UNCHANGED <<plan, hasErrors, target, result, loc>>

(* Mutants: the loop goes on after a failure; it is left at the first one. *)
CollectEndsGoingOn ==
  /\ pc = "collect" /\ With("finished") = {}
  /\ IF pending = {} THEN pc' = "unwind" /\ outcome' = "updated"
                     ELSE pc' = "schedule" /\ UNCHANGED outcome
  /\ UNCHANGED <<plan, hasErrors, worker>>

CollectEndsAtOnce ==
  /\ pc = "collect" /\ With("finished") = {}
  /\ IF hasErrors THEN pc' = "unwind" /\ outcome' = "errors"
     ELSE IF pending = {} THEN pc' = "unwind" /\ outcome' = "updated"
     ELSE pc' = "schedule" /\ UNCHANGED outcome
  /\ UNCHANGED <<plan, hasErrors, worker>>

(* has_in_progress was computed by the scan, but the main thread has held  *)
(* the mutex since: no status became or ceased to be in_progress.          *)
CollectEnds ==
  /\ pc = "collect" /\ With("finished") = {}
  /\ \/ /\ hasErrors /\ With("in_progress") # {}
        /\ pc' = "scan" /\ UNCHANGED outcome
     \/ /\ hasErrors /\ With("in_progress") = {}
        /\ pc' = "unwind" /\ outcome' = "errors"
     \/ /\ ~hasErrors /\ pending = {}
        /\ pc' = "unwind" /\ outcome' = "updated"
     \/ /\ ~hasErrors /\ pending # {}
        /\ pc' = "schedule" /\ UNCHANGED outcome
  /\ UNCHANGED <<plan, hasErrors, worker>>

-----------------------------------------------------------------------------
(* worker_pool::~worker_pool, run on every way out.                        *)

(* Mutant: the destructor does not notify the workers.                     *)
NotWoken(l) == l

Woken(l) == IF l = "waiting" THEN "ready" ELSE l

Shutdown ==
  /\ pc = "unwind"
  /\ status' = [w \in Workers |-> IF status[w] = "none" THEN "none" ELSE "shutdown"]
  /\ loc' = [w \in Workers |-> Woken(loc[w])]
  /\ pc' = "join"
  /\ UNCHANGED <<plan, hasErrors, outcome, target, result>>

Join ==
  /\ pc = "join" /\ \A w \in Workers : loc[w] \in {"none", "exited"}
  /\ pc' = "returned"
  /\ UNCHANGED <<plan, hasErrors, outcome, worker>>

-----------------------------------------------------------------------------
(* update_worker::run_. *)

Checks(w) ==
  /\ MutexFree /\ loc[w] = "ready"
  /\ loc' = [loc EXCEPT ![w] = CASE status[w] = "shutdown"    -> "exited"
                                 [] status[w] = "in_progress" -> "running"
                                 [] OTHER                     -> "waiting"]
  /\ UNCHANGED <<plan, pc, hasErrors, outcome, status, target, result>>

(* run_command_line returns; the mutex is not held. A job has failed when  *)
(* it wrote to stdout, was killed, or exited with a code other than zero.  *)
CommandEnds(w) ==
  /\ loc[w] = "running"
  /\ loc' = [loc EXCEPT ![w] = "ended"]
  /\ \E r \in Results : result' = [result EXCEPT ![w] = r]
  /\ UNCHANGED <<plan, pc, hasErrors, outcome, status, target>>

(* Mutant: global_cv is not notified.                                      *)
PublishesSilently(w) ==
  /\ MutexFree /\ loc[w] = "ended"
  /\ status' = [status EXCEPT ![w] = "finished"]
  /\ loc' = [loc EXCEPT ![w] = "waiting"]
  /\ UNCHANGED <<plan, pc, hasErrors, outcome, target, result>>

(* The worker locks again, stores its status, whatever it has become in    *)
(* the meantime, notifies, and is back at cv_.wait before it unlocks.      *)
Publishes(w) ==
  /\ MutexFree /\ loc[w] = "ended"
  /\ status' = [status EXCEPT ![w] = "finished"]
  /\ loc' = [loc EXCEPT ![w] = "waiting"]
  /\ pc' = IF pc = "wait" THEN "woken" ELSE pc
  /\ UNCHANGED <<plan, hasErrors, outcome, target, result>>

(* Condition variables may wake up for no reason.                          *)
SpuriousWakeUp ==
  \/ /\ pc = "wait" /\ pc' = "woken" /\ UNCHANGED loc
  \/ /\ \E w \in Workers : /\ loc[w] = "waiting"
                           /\ loc' = [loc EXCEPT ![w] = "ready"]
     /\ UNCHANGED pc
SpuriousWakeUps == SpuriousWakeUp /\ UNCHANGED <<plan, hasErrors, outcome, status, target, result>>

-----------------------------------------------------------------------------
Main ==
  \/ ScheduleUpToDate \/ ScheduleThrows \/ ScheduleStops
  \/ \E w \in Workers : ScheduleJob(w)
  \/ Scan
  \/ \E w \in Workers : CollectFailed(w) \/ CollectUpdated(w) \/ CollectThrows(w)
  \/ CollectEnds \/ Shutdown \/ Join

Thread(w) == Checks(w) \/ CommandEnds(w) \/ Publishes(w)

Next == Main \/ (\E w \in Workers : Thread(w)) \/ SpuriousWakeUps

Spec == Init /\ [][Next]_vars

(* The main thread and the commands keep going. A worker asking for the    *)
(* mutex gets it if the main thread lets go of it again and again, which   *)
(* only spurious wake-ups can make it do without a worker's help.          *)
Fairness ==
  /\ WF_vars(Main)
  /\ \A w \in Workers : /\ WF_vars(CommandEnds(w))
                        /\ SF_vars(Checks(w))
                        /\ SF_vars(Publishes(w))

FairSpec == Spec /\ Fairness

-----------------------------------------------------------------------------
(* Where an output file stands, in the terms of OrderedUpdate. A job is in *)
(* flight from its scheduling to its collection; the destructor of the     *)
(* pool gives up the ones it finds.                                        *)

InFlight == IF pc \in {"join", "returned"} THEN {}
            ELSE With("in_progress") \cup With("finished")

Phase ==
  [t \in Outputs |->
     IF t \notin pending THEN "done"
     ELSE IF \E w \in InFlight : target[w] = t THEN "running"
     ELSE IF t \in Queued \/ SlotsIn(t, pending) # {} THEN "waiting"
     ELSE "dropped"]

Abstract == INSTANCE OrderedUpdate WITH phase <- Phase

-----------------------------------------------------------------------------
(* Every variable holds a value of its type; the counts stay natural.      *)
TypeOK ==
  /\ pending \subseteq Outputs
  /\ queue \in Seq(Outputs)
  /\ DOMAIN counts \subseteq Outputs /\ counts \in [DOMAIN counts -> Nat]
  /\ pc \in PCs /\ hasErrors \in BOOLEAN /\ outcome \in Outcomes
  /\ status \in [Workers -> Statuses]
  /\ target \in [Workers -> Outputs \cup {NoTarget}]
  /\ result \in [Workers -> Results]
  /\ loc \in [Workers -> Locs]

(* The count of a file is always the number of its inputs still pending:   *)
(* the decrements of erase and the pushes at zero cannot drift from what   *)
(* pending_output_file_paths says, whatever the order of completions.      *)
CountsMatchPending ==
  \A d \in DOMAIN counts : counts[d] = Cardinality(SlotsIn(d, pending))

(* No output file is at the same time in two places: queued twice, queued  *)
(* and in a worker's hands, or in the hands of two workers, which would    *)
(* run two commands that write the same file.                              *)
OneJobPerFile ==
  /\ \A j, k \in DOMAIN queue : queue[j] = queue[k] => j = k
  /\ \A w \in InFlight : target[w] \notin Queued
  /\ \A v, w \in InFlight : target[v] = target[w] => v = w

(* While a command runs or its result waits to be looked at, none of the   *)
(* files it reads is itself still to be updated.                           *)
InputsFirst == \A w \in InFlight : Producers[target[w]] \cap pending = {}

(* Nobody sleeps through the event it waits for: the main thread only      *)
(* waits while a job is in progress and none is finished, and no worker    *)
(* waits with a job assigned to it.                                        *)
NoLostWakeUp ==
  /\ pc = "wait" => With("in_progress") # {} /\ With("finished") = {}
  /\ \A w \in Workers : loc[w] = "waiting" => status[w] # "in_progress"

(* While the main thread waits with files left in the queue, and no job    *)
(* has failed, every worker the concurrency allows has a job.              *)
WorkConserving ==
  pc = "wait" /\ ~hasErrors /\ queue # <<>> => With("in_progress") = Workers

(* execute_manifest reports a failure exactly when it finds pending files  *)
(* after execute_update_plan: that is the case of every way out but the    *)
(* complete update.                                                        *)
ReportIsExact == pc = "returned" => (pending = {} <=> outcome = "updated")

(* The loop is never left, other than by an exception, while a worker      *)
(* still has a job or a result nobody looked at.                           *)
NoJobLeftBehind ==
  pc = "unwind" /\ outcome # "threw" => \A w \in Workers : status[w] \in {"none", "idle"}

(* Whatever the threads do, the plan is carried out as OrderedUpdate says: *)
(* each file once, after everything it is made from, and nothing new once  *)
(* a job has failed or an exception is on its way.                         *)
Implements == Abstract!Spec

(* An update of an acyclic plan comes to an end, all threads joined,       *)
(* unless an exception leaves the loop while another job is in progress.   *)
ThrowsOverAJob == pc = "unwind" /\ With("in_progress") # {}
Terminates == []~ThrowsOverAJob => <>(pc = "returned")

(* What the comment on ~worker_pool sets out to do (src/update_plan.cpp,   *)
(* lines 80 to 83): the threads are shut down cleanly on every way out.    *)
ShutdownIsClean == pc = "unwind" ~> pc = "returned"
==============================================================================
