---------------------- MODULE ExecuteUpdatePlan_proofs ----------------------
(***************************************************************************)
(* What TLAPS proves of ExecuteUpdatePlan, for every update map, every set *)
(* of targets and every number of workers.                                 *)
(***************************************************************************)
EXTENDS ExecuteUpdatePlan, FiniteSetTheorems, TLAPS

-----------------------------------------------------------------------------
(* Facts about the values of UpdatePlan.                                   *)

RangeOf(s) == {s[k] : k \in DOMAIN s}

NoRepeat(s) == \A j, k \in DOMAIN s : s[j] = s[k] => j = k

(* The input list of a file has finitely many slots.                       *)
LEMMA SlotsFinite ==
  ASSUME NEW t \in Outputs, NEW S
  PROVE  IsFiniteSet(SlotsIn(t, S)) /\ Cardinality(SlotsIn(t, S)) \in Nat
<1>1. Deps[t] \in Seq(Outputs \cup Sources)
  BY DepsAssumption
<1>2. DOMAIN Deps[t] = 1..Len(Deps[t]) /\ Len(Deps[t]) \in Nat
  BY <1>1
<1>3. IsFiniteSet(DOMAIN Deps[t])
  BY <1>2, FS_Interval
<1>4. SlotsIn(t, S) \in SUBSET DOMAIN Deps[t]
  BY DEF SlotsIn
<1> QED
  BY <1>3, <1>4, FS_Subset, FS_CardinalityType

(* Erasing x from the pending files leaves d with as many pending inputs   *)
(* less as its rule names x: what the decrements of erase amount to.       *)
LEMMA EraseCount ==
  ASSUME NEW d \in Outputs, NEW P, NEW x \in P
  PROVE  /\ Uses(x, d) \in Nat
         /\ Uses(x, d) > 0 <=> SlotsIn(d, {x}) # {}
         /\ Cardinality(SlotsIn(d, P)) = Cardinality(SlotsIn(d, P \ {x})) + Uses(x, d)
<1> DEFINE A == SlotsIn(d, P \ {x})
           B == SlotsIn(d, {x})
<1>1. IsFiniteSet(A) /\ IsFiniteSet(B) /\ Cardinality(A) \in Nat /\ Cardinality(B) \in Nat
  BY SlotsFinite
<1>2. SlotsIn(d, P) = A \cup B /\ A \cap B = {}
  BY DEF SlotsIn
<1>3. Cardinality(A \cup B) = Cardinality(A) + Cardinality(B) - Cardinality(A \cap B)
  BY <1>1, FS_Union
<1>4. Cardinality({}) = 0
  BY FS_EmptySet
<1>5. Cardinality(B) = 0 <=> B = {}
  BY <1>1, FS_EmptySet
<1> HIDE DEF A, B
<1>6. Uses(x, d) = Cardinality(B)
  BY DEF Uses, B
<1>7. Cardinality(B) > 0 <=> B # {}
  BY <1>1, <1>5
<1>8. Cardinality(SlotsIn(d, P)) = Cardinality(A) + Cardinality(B)
  <2>1. Cardinality(A \cap B) = 0
    BY <1>2, <1>4
  <2>2. Cardinality(A \cup B) = Cardinality(A) + Cardinality(B)
    BY <1>1, <1>3, <2>1
  <2> QED
    BY <1>2, <2>2
<1>9. Uses(x, d) \in Nat /\ (Uses(x, d) > 0 <=> B # {})
  BY <1>1, <1>6, <1>7
<1> QED
  BY <1>6, <1>8, <1>9 DEF A, B

(* An ordering of S lists exactly the members of S, each of them once.     *)
LEMMA OrderingsList ==
  ASSUME NEW S, IsFiniteSet(S), NEW s \in Orderings(S)
  PROVE  s \in Seq(S) /\ RangeOf(s) = S /\ NoRepeat(s)
<1> DEFINE n == Cardinality(S)
<1>1. n \in Nat
  BY FS_CardinalityType
<1>2. s \in [1..n -> S] /\ \A j, k \in 1..n : s[j] = s[k] => j = k
  BY DEF Orderings
<1>3. s \in Injection(1..n, S)
  BY <1>2 DEF Injection, IsInjective
<1>4. IsFiniteSet(1..n) /\ Cardinality(1..n) = n
  BY <1>1, FS_Interval
<1>5. s \in Surjection(1..n, S)
  BY <1>3, <1>4, FS_Injection
<1>6. \A y \in S : \E k \in 1..n : s[k] = y
  BY <1>5 DEF Surjection
<1> HIDE DEF n
<1>7. s \in Seq(S) /\ DOMAIN s = 1..n
  BY <1>1, <1>2
<1> QED
  BY <1>2, <1>6, <1>7 DEF RangeOf, NoRepeat

(* Pushing an ordering of S behind a queue adds exactly the members of S,  *)
(* and repeats nothing when none of them was there.                        *)
LEMMA PushedQueue ==
  ASSUME NEW T, NEW q \in Seq(T), NEW S \in SUBSET T, IsFiniteSet(S), NEW s \in Orderings(S)
  PROVE  /\ q \o s \in Seq(T)
         /\ RangeOf(q \o s) = RangeOf(q) \cup S
         /\ NoRepeat(q) /\ RangeOf(q) \cap S = {} => NoRepeat(q \o s)
<1>1. s \in Seq(S) /\ RangeOf(s) = S /\ NoRepeat(s)
  BY OrderingsList
<1>2. s \in Seq(T)
  BY <1>1
<1>3. /\ Len(q) \in Nat /\ Len(s) \in Nat
      /\ DOMAIN q = 1..Len(q) /\ DOMAIN s = 1..Len(s)
      /\ DOMAIN (q \o s) = 1..(Len(q) + Len(s))
      /\ \A k \in 1..(Len(q) + Len(s)) :
           (q \o s)[k] = IF k <= Len(q) THEN q[k] ELSE s[k - Len(q)]
  BY <1>2
<1>4. \A k \in 1..Len(q) : k \in 1..(Len(q) + Len(s)) /\ (q \o s)[k] = q[k]
  BY <1>3
<1>5. \A k \in 1..Len(s) : k + Len(q) \in 1..(Len(q) + Len(s)) /\ (q \o s)[k + Len(q)] = s[k]
  BY <1>3
<1>6. RangeOf(q \o s) = RangeOf(q) \cup RangeOf(s)
  <2>1. RangeOf(q \o s) \subseteq RangeOf(q) \cup RangeOf(s)
    BY <1>3 DEF RangeOf
  <2>2. RangeOf(q) \subseteq RangeOf(q \o s)
    BY <1>3, <1>4 DEF RangeOf
  <2>3. RangeOf(s) \subseteq RangeOf(q \o s)
    BY <1>3, <1>5 DEF RangeOf
  <2> QED
    BY <2>1, <2>2, <2>3
<1>7. ASSUME NoRepeat(q), RangeOf(q) \cap S = {} PROVE NoRepeat(q \o s)
  BY <1>1, <1>3, <1>7 DEF NoRepeat, RangeOf
<1> QED
  BY <1>1, <1>2, <1>6, <1>7

(* Taking the head off a queue that repeats nothing.                       *)
LEMMA PoppedQueue ==
  ASSUME NEW T, NEW q \in Seq(T), q # <<>>
  PROVE  /\ Head(q) \in T /\ Tail(q) \in Seq(T)
         /\ RangeOf(q) = {Head(q)} \cup RangeOf(Tail(q))
         /\ NoRepeat(q) => NoRepeat(Tail(q)) /\ Head(q) \notin RangeOf(Tail(q))
<1>1. /\ Len(q) \in Nat \ {0} /\ DOMAIN q = 1..Len(q)
      /\ Head(q) = q[1] /\ q[1] \in T
      /\ Tail(q) \in Seq(T) /\ DOMAIN Tail(q) = 1..(Len(q) - 1)
      /\ \A k \in 1..(Len(q) - 1) : Tail(q)[k] = q[k + 1]
  OBVIOUS
<1>2. RangeOf(q) = {Head(q)} \cup RangeOf(Tail(q))
  <2>1. RangeOf(Tail(q)) \subseteq RangeOf(q) /\ Head(q) \in RangeOf(q)
    BY <1>1 DEF RangeOf
  <2>2. ASSUME NEW k \in 1..Len(q) PROVE q[k] \in {Head(q)} \cup RangeOf(Tail(q))
    <3>1. CASE k = 1
      BY <1>1, <3>1
    <3>2. CASE k # 1
      <4>1. k - 1 \in 1..(Len(q) - 1) /\ Tail(q)[k - 1] = q[k]
        BY <1>1, <3>2
      <4> QED
        BY <4>1, <1>1 DEF RangeOf
    <3> QED
      BY <3>1, <3>2
  <2> QED
    BY <1>1, <2>1, <2>2 DEF RangeOf
<1>3. NoRepeat(q) => NoRepeat(Tail(q)) /\ Head(q) \notin RangeOf(Tail(q))
  BY <1>1 DEF NoRepeat, RangeOf
<1> QED
  BY <1>1, <1>2, <1>3

(* A plan is closed: everything generated that a planned file is made from *)
(* is planned too, so all the inputs counted at first are indeed pending.  *)
LEMMA PlannedIsClosed ==
  ASSUME NEW targets \in SUBSET Outputs, NEW t \in Planned(targets)
  PROVE  SlotsIn(t, Outputs) = SlotsIn(t, Planned(targets))
<1>1. t \in Outputs
  BY DEF Planned
<1>2. Producers[t] \subseteq Planned(targets)
  BY <1>1 DEF Planned, Closed, Producers
<1>3. \A k \in SlotsIn(t, Outputs) : Deps[t][k] \in Producers[t]
  BY <1>1 DEF SlotsIn, Producers
<1> QED
  BY <1>2, <1>3 DEF SlotsIn, Planned

(* A file none of whose slots names a file of P is made from none of them. *)
LEMMA NoSlotNoProducer ==
  ASSUME NEW t \in Outputs, NEW P
  PROVE  SlotsIn(t, P) = {} => Producers[t] \cap P = {}
<1>1. \A i \in Producers[t] : \E k \in DOMAIN Deps[t] : Deps[t][k] = i
  BY DEF Producers, SlotsIn
<1> QED
  BY <1>1 DEF SlotsIn

-----------------------------------------------------------------------------
(* The executor.                                                           *)

(* The plan: which files wait, which are queued, which are in a worker's   *)
(* hands. Uncounted and Settled say that no file outside of the counts,    *)
(* and no file already updated, has anything left to wait for.             *)
Uncounted == \A t \in pending \ DOMAIN counts : SlotsIn(t, pending) = {}

Settled == \A d \in DOMAIN counts \ pending : SlotsIn(d, pending) = {}

QueuedAreReady == \A t \in Queued : t \in pending /\ SlotsIn(t, pending) = {}

JobsAreReady ==
  \A w \in InFlight : target[w] \in pending /\ SlotsIn(target[w], pending) = {}

(* Until something goes wrong, no pending file has fallen out of sight.    *)
NothingDropped ==
  InLoop /\ ~hasErrors =>
    \A t \in pending : \/ t \in Queued
                       \/ SlotsIn(t, pending) # {}
                       \/ \E w \in InFlight : target[w] = t

PlanInv ==
  /\ CountsMatchPending
  /\ Uncounted
  /\ Settled
  /\ QueuedAreReady
  /\ JobsAreReady
  /\ OneJobPerFile
  /\ NothingDropped
  /\ pc = "schedule" => ~hasErrors

(* The threads: where a worker can be, given what its status says.         *)
ThreadInv ==
  /\ \A w \in Workers : status[w] = "in_progress" => loc[w] \in {"ready", "running", "ended"}
  /\ InLoop \/ pc = "unwind" =>
       /\ With("shutdown") = {}
       /\ \A w \in Workers : loc[w] \in {"running", "ended"} => status[w] = "in_progress"
  /\ pc = "wait" => With("in_progress") # {} /\ With("finished") = {}
  /\ pc \in {"scan", "wait", "woken"} /\ ~hasErrors /\ queue # <<>> =>
       With("idle") = {} /\ With("none") = {}

(* The outcome: after an error some file stays pending that no job of the  *)
(* pool can take out of the plan any more.                                 *)
OutcomeInv ==
  /\ InLoop <=> outcome = "none"
  /\ InLoop /\ hasErrors => \E t \in pending : \A w \in InFlight : target[w] # t
  /\ outcome = "updated" => pending = {}
  /\ outcome \in {"errors", "threw"} => pending # {}
  /\ NoJobLeftBehind

IInv == TypeOK /\ PlanInv /\ ThreadInv /\ OutcomeInv

-----------------------------------------------------------------------------
(* What erasing x does to a plan whose queue holds the others and not x.   *)
ErasedFrom(x, others) ==
  /\ pending' = pending \ {x}
  /\ DOMAIN counts' = DOMAIN counts /\ counts' \in [DOMAIN counts -> Nat]
  /\ queue' \in Seq(Outputs) /\ NoRepeat(queue')
  /\ Queued' = others \cup Released(counts, x)
  /\ CountsMatchPending' /\ Uncounted' /\ Settled' /\ QueuedAreReady'
  /\ \A t \in Released(counts, x) : SlotsIn(t, pending) # {}
  /\ \A t \in pending' : SlotsIn(t, pending) # {} =>
       t \in Released(counts, x) \/ SlotsIn(t, pending') # {}

(* update_plan::erase of a file that waits for nothing: the counts stay in *)
(* step with the pending files, and the files it releases, which were not  *)
(* ready before, are exactly those that have just become ready.            *)
LEMMA EraseStep ==
  ASSUME TypeOK, CountsMatchPending, Uncounted, Settled,
         NEW x \in pending, SlotsIn(x, pending) = {},
         NEW rest \in Seq(Outputs), NoRepeat(rest),
         \A t \in RangeOf(rest) : t \in pending \ {x} /\ SlotsIn(t, pending) = {},
         Erase(x, rest)
  PROVE  ErasedFrom(x, RangeOf(rest))
<1> DEFINE R == Released(counts, x)
<1>1. /\ pending' = pending \ {x} /\ x \in Outputs
      /\ DOMAIN counts \subseteq Outputs /\ counts \in [DOMAIN counts -> Nat]
      /\ counts' = [d \in DOMAIN counts |-> counts[d] - Uses(x, d)]
  BY DEF Erase, CountsAfter, TypeOK
<1>2. \A t : SlotsIn(t, pending') \subseteq SlotsIn(t, pending)
  BY <1>1 DEF SlotsIn
<1>3. ASSUME NEW d \in DOMAIN counts
      PROVE  /\ counts'[d] = Cardinality(SlotsIn(d, pending')) /\ counts'[d] \in Nat
             /\ d \in R <=> SlotsIn(d, {x}) # {} /\ SlotsIn(d, pending') = {}
  <2>1. d \in Outputs /\ counts[d] = Cardinality(SlotsIn(d, pending))
    BY <1>1 DEF CountsMatchPending
  <2>2. /\ Uses(x, d) \in Nat
        /\ Uses(x, d) > 0 <=> SlotsIn(d, {x}) # {}
        /\ counts[d] = Cardinality(SlotsIn(d, pending')) + Uses(x, d)
    BY <1>1, <2>1, EraseCount
  <2>3. /\ IsFiniteSet(SlotsIn(d, pending')) /\ Cardinality(SlotsIn(d, pending')) \in Nat
        /\ Cardinality(SlotsIn(d, pending')) = 0 <=> SlotsIn(d, pending') = {}
    BY <2>1, SlotsFinite, FS_EmptySet
  <2>4. counts'[d] = Cardinality(SlotsIn(d, pending'))
    BY <1>1, <2>2, <2>3
  <2>5. counts[d] = Uses(x, d) <=> SlotsIn(d, pending') = {}
    BY <2>2, <2>3
  <2> QED
    BY <2>2, <2>3, <2>4, <2>5 DEF Released
<1>4. CountsMatchPending' /\ DOMAIN counts' = DOMAIN counts /\ counts' \in [DOMAIN counts -> Nat]
  BY <1>1, <1>3 DEF CountsMatchPending
<1>5. Uncounted' /\ Settled'
  BY <1>1, <1>2 DEF Uncounted, Settled
<1>6. ASSUME NEW t \in R
      PROVE  t \in pending' /\ SlotsIn(t, pending) # {} /\ SlotsIn(t, pending') = {}
  <2>1. t \in DOMAIN counts
    BY DEF Released
  <2>2. SlotsIn(t, {x}) # {} /\ SlotsIn(t, {x}) \subseteq SlotsIn(t, pending)
    BY <1>3, <2>1 DEF SlotsIn
  <2> QED
    BY <1>1, <1>3, <2>1, <2>2 DEF Settled
<1>7. ASSUME NEW t \in pending', SlotsIn(t, pending) # {}, SlotsIn(t, pending') = {}
      PROVE  t \in R
  <2>1. t \in DOMAIN counts
    BY <1>1, <1>7 DEF Uncounted
  <2>2. SlotsIn(t, {x}) # {}
    BY <1>1, <1>7 DEF SlotsIn
  <2> QED
    BY <1>3, <1>7, <2>1, <2>2
<1>8. R \in SUBSET Outputs /\ IsFiniteSet(R) /\ RangeOf(rest) \cap R = {}
  <2>1. R \subseteq Outputs
    BY <1>1 DEF Released
  <2>2. IsFiniteSet(R)
    BY <2>1, FilesAssumption, FS_Subset
  <2> QED
    BY <1>6, <2>1, <2>2
<1>9. PICK s \in Orderings(R) : queue' = rest \o s
  BY DEF Erase
<1>10. queue' \in Seq(Outputs) /\ RangeOf(queue') = RangeOf(rest) \cup R /\ NoRepeat(queue')
  BY <1>8, <1>9, PushedQueue
<1>11. QueuedAreReady'
  <2>1. Queued' = RangeOf(queue')
    BY DEF Queued, RangeOf
  <2>2. \A t \in RangeOf(rest) : t \in pending' /\ SlotsIn(t, pending') = {}
    BY <1>1, <1>2
  <2> QED
    BY <1>6, <1>10, <2>1, <2>2 DEF QueuedAreReady
<1> QED
  BY <1>1, <1>4, <1>5, <1>6, <1>7, <1>10, <1>11 DEF ErasedFrom, Queued, RangeOf

(* Steps that leave the plan alone and start no job keep the plan in order *)
(* if no file is lost sight of.                                            *)
LEMMA SamePlan ==
  ASSUME PlanInv, UNCHANGED plan, InFlight' \subseteq InFlight, UNCHANGED target,
         NothingDropped', pc' = "schedule" => ~hasErrors'
  PROVE  PlanInv'
<1>1. pending' = pending /\ queue' = queue /\ counts' = counts /\ Queued' = Queued
  BY DEF plan, Queued
<1>2. CountsMatchPending' /\ Uncounted' /\ Settled' /\ QueuedAreReady'
  BY <1>1 DEF PlanInv, CountsMatchPending, Uncounted, Settled, QueuedAreReady
<1>3. JobsAreReady' /\ OneJobPerFile'
  BY <1>1 DEF PlanInv, JobsAreReady, OneJobPerFile
<1> QED
  BY <1>2, <1>3 DEF PlanInv

(* Before the first file is looked at: the plan as it was built, no        *)
(* worker.                                                                 *)
LEMMA InitOK == Init => IInv
<1> SUFFICES ASSUME Init PROVE IInv
  OBVIOUS
<1>1. PICK targets \in (SUBSET Outputs) \ {{}} : pending = Planned(targets)
  BY DEF Init
<1>2. pending \subseteq Outputs /\ pending # {}
  <2>1. targets \subseteq pending
    BY <1>1 DEF Planned
  <2> QED
    BY <1>1, <2>1 DEF Planned
<1>3. \A t \in pending : SlotsIn(t, Outputs) = SlotsIn(t, pending)
  BY <1>1, PlannedIsClosed
<1>4. /\ DOMAIN counts = {d \in pending : SlotsIn(d, Outputs) # {}}
      /\ \A t \in DOMAIN counts : counts[t] = Cardinality(SlotsIn(t, Outputs))
      /\ counts = [t \in DOMAIN counts |-> Cardinality(SlotsIn(t, Outputs))]
  BY DEF Init, InitialCounts
<1>5. counts \in [DOMAIN counts -> Nat]
  BY <1>2, <1>4, SlotsFinite
<1> DEFINE F == pending \ DOMAIN counts
<1>6. queue \in Seq(F) /\ RangeOf(queue) = F /\ NoRepeat(queue)
  <2>1. IsFiniteSet(F)
    BY <1>2, FilesAssumption, FS_Subset
  <2>2. queue \in Orderings(F)
    BY DEF Init
  <2> QED
    BY <2>1, <2>2, OrderingsList
<1>7. queue \in Seq(Outputs) /\ Queued = F
  BY <1>2, <1>6 DEF Queued, RangeOf
<1>8. TypeOK
  BY <1>2, <1>4, <1>5, <1>7
     DEF Init, TypeOK, PCs, Outcomes, Statuses, Results, Locs
<1>9. InFlight = {} /\ \A w \in Workers : status[w] = "none" /\ loc[w] = "none"
  BY DEF Init, InFlight, With
<1>10. PlanInv
  <2>1. CountsMatchPending
    BY <1>3, <1>4 DEF CountsMatchPending
  <2>2. Uncounted
    BY <1>3, <1>4 DEF Uncounted
  <2>3. Settled
    BY <1>4 DEF Settled
  <2>4. QueuedAreReady
    BY <1>7, <2>2 DEF QueuedAreReady, Uncounted
  <2>5. JobsAreReady
    BY <1>9 DEF JobsAreReady
  <2>6. OneJobPerFile
    BY <1>6, <1>9 DEF OneJobPerFile, NoRepeat
  <2>7. NothingDropped
    BY <1>3, <1>4, <1>7 DEF NothingDropped
  <2> QED
    BY <2>1, <2>2, <2>3, <2>4, <2>5, <2>6, <2>7 DEF PlanInv, Init
<1>11. ThreadInv
  BY <1>9 DEF ThreadInv, With, Init
<1>12. OutcomeInv
  BY DEF OutcomeInv, NoJobLeftBehind, InLoop, Init
<1> QED
  BY <1>8, <1>10, <1>11, <1>12 DEF IInv

-----------------------------------------------------------------------------
(* The steps of the scheduling loop.                                       *)

(* The head of the queue is ready, and erasing it leaves the others queued.*)
LEMMA HeadErased ==
  ASSUME IInv, ScheduleUpToDate
  PROVE  /\ Head(queue) \in pending /\ SlotsIn(Head(queue), pending) = {}
         /\ Head(queue) \in Outputs
         /\ Queued = {Head(queue)} \cup RangeOf(Tail(queue))
         /\ Head(queue) \notin RangeOf(Tail(queue))
         /\ ErasedFrom(Head(queue), RangeOf(Tail(queue)))
<1> DEFINE x == Head(queue)
           rest == Tail(queue)
<1> USE DEF IInv
<1>1. queue # <<>> /\ Erase(x, rest)
  BY DEF ScheduleUpToDate
<1>2. queue \in Seq(Outputs) /\ NoRepeat(queue)
  BY DEF TypeOK, PlanInv, OneJobPerFile, NoRepeat
<1>3. /\ x \in Outputs /\ rest \in Seq(Outputs)
      /\ RangeOf(queue) = {x} \cup RangeOf(rest)
      /\ NoRepeat(rest) /\ x \notin RangeOf(rest)
  BY <1>1, <1>2, PoppedQueue
<1>4. Queued = RangeOf(queue)
  BY DEF Queued, RangeOf
<1>5. /\ x \in pending /\ SlotsIn(x, pending) = {}
      /\ \A t \in RangeOf(rest) : t \in pending \ {x} /\ SlotsIn(t, pending) = {}
  BY <1>3, <1>4 DEF PlanInv, QueuedAreReady
<1> HIDE DEF x, rest
<1>6. ErasedFrom(x, RangeOf(rest))
  BY <1>1, <1>3, <1>5, EraseStep DEF PlanInv
<1> QED
  BY <1>3, <1>4, <1>5, <1>6 DEF x, rest

(* The file at the front is up to date and erased at once.                 *)
LEMMA ScheduleUpToDateOK == IInv /\ ScheduleUpToDate => IInv'
<1> SUFFICES ASSUME IInv, ScheduleUpToDate PROVE IInv'
  OBVIOUS
<1> DEFINE x == Head(queue)
           others == RangeOf(Tail(queue))
<1> USE DEF IInv
<1>1. /\ pc = "schedule"
      /\ pc' = pc /\ hasErrors' = hasErrors /\ outcome' = outcome
      /\ status' = status /\ target' = target /\ result' = result /\ loc' = loc
      /\ InFlight' = InFlight
  BY DEF ScheduleUpToDate, worker, InFlight, With
<1>2. /\ x \in pending /\ SlotsIn(x, pending) = {}
      /\ Queued = {x} \cup others /\ x \notin others /\ ErasedFrom(x, others)
  BY HeadErased
<1> HIDE DEF x, others
<1>3. /\ pending' = pending \ {x}
      /\ DOMAIN counts' = DOMAIN counts /\ counts' \in [DOMAIN counts -> Nat]
      /\ queue' \in Seq(Outputs) /\ NoRepeat(queue')
      /\ Queued' = others \cup Released(counts, x)
      /\ CountsMatchPending' /\ Uncounted' /\ Settled' /\ QueuedAreReady'
      /\ \A t \in Released(counts, x) : SlotsIn(t, pending) # {}
      /\ \A t \in pending' : SlotsIn(t, pending) # {} =>
           t \in Released(counts, x) \/ SlotsIn(t, pending') # {}
  BY <1>2 DEF ErasedFrom
<1>4. TypeOK'
  BY <1>1, <1>3 DEF TypeOK
<1>5. PlanInv'
  <2>1. JobsAreReady'
    <3>1. \A w \in InFlight : target[w] # x
      BY <1>2 DEF PlanInv, OneJobPerFile
    <3>2. \A t : SlotsIn(t, pending') \subseteq SlotsIn(t, pending)
      BY <1>3 DEF SlotsIn
    <3> QED
      BY <1>1, <1>3, <3>1, <3>2 DEF PlanInv, JobsAreReady
  <2>2. OneJobPerFile'
    BY <1>1, <1>2, <1>3 DEF PlanInv, OneJobPerFile, JobsAreReady, NoRepeat
  <2>3. NothingDropped'
    BY <1>1, <1>2, <1>3 DEF PlanInv, NothingDropped, InLoop
  <2> QED
    BY <1>1, <1>3, <2>1, <2>2, <2>3 DEF PlanInv
<1>6. ThreadInv'
  BY <1>1 DEF ThreadInv, With, InLoop
<1>7. OutcomeInv'
  BY <1>1 DEF OutcomeInv, NoJobLeftBehind, InLoop, PlanInv
<1> QED
  BY <1>4, <1>5, <1>6, <1>7

(* is_file_up_to_date throws: the loop is left with the queue as it is.    *)
LEMMA ScheduleThrowsOK == IInv /\ ScheduleThrows => IInv'
<1> SUFFICES ASSUME IInv, ScheduleThrows PROVE IInv'
  OBVIOUS
<1> USE DEF IInv
<1>1. /\ pc = "schedule" /\ queue # <<>> /\ pc' = "unwind" /\ outcome' = "threw"
      /\ UNCHANGED plan /\ UNCHANGED <<pending, queue, counts, hasErrors, status, target, result, loc>>
      /\ InFlight' = InFlight
  BY DEF ScheduleThrows, plan, worker, InFlight, With
<1>2. TypeOK'
  BY <1>1 DEF TypeOK, PCs, Outcomes
<1>3. PlanInv'
  <2>1. NothingDropped'
    BY <1>1 DEF NothingDropped, InLoop
  <2> QED
    BY <1>1, <2>1, SamePlan
<1>4. ThreadInv'
  BY <1>1 DEF ThreadInv, With, InLoop
<1>5. OutcomeInv'
  <2>1. pending # {}
    <3>1. queue \in Seq(Outputs)
      BY DEF TypeOK
    <3>2. Head(queue) \in Queued
      BY <1>1, <3>1 DEF Queued
    <3> QED
      BY <3>2 DEF PlanInv, QueuedAreReady
  <2> QED
    BY <1>1, <2>1 DEF OutcomeInv, NoJobLeftBehind, InLoop
<1> QED
  BY <1>2, <1>3, <1>4, <1>5

(* A file leaves the queue for an idle or a new worker.                    *)
LEMMA ScheduleJobOK == IInv /\ (\E w \in Workers : ScheduleJob(w)) => IInv'
<1> SUFFICES ASSUME IInv, NEW w \in Workers, ScheduleJob(w) PROVE IInv'
  OBVIOUS
<1> DEFINE x == Head(queue)
<1> USE DEF IInv
<1>1. /\ pc = "schedule" /\ queue # <<>> /\ status[w] \in {"idle", "none"}
      /\ queue' = Tail(queue) /\ pc' = pc /\ hasErrors' = hasErrors /\ outcome' = outcome
      /\ pending' = pending /\ counts' = counts /\ result' = result
      /\ target' = [target EXCEPT ![w] = x]
      /\ status' = [status EXCEPT ![w] = "in_progress"]
      /\ loc' = [loc EXCEPT ![w] = "ready"]
  BY DEF ScheduleJob, CanTake, With
<1>2. queue \in Seq(Outputs) /\ NoRepeat(queue)
  BY DEF TypeOK, PlanInv, OneJobPerFile, NoRepeat
<1>3. /\ x \in Outputs /\ queue' \in Seq(Outputs)
      /\ RangeOf(queue) = {x} \cup RangeOf(queue')
      /\ NoRepeat(queue') /\ x \notin RangeOf(queue')
  BY <1>1, <1>2, PoppedQueue
<1>4. Queued = RangeOf(queue) /\ Queued' = RangeOf(queue')
  BY DEF Queued, RangeOf
<1> HIDE DEF x
<1>5. InFlight' = InFlight \cup {w} /\ w \notin InFlight
  BY <1>1 DEF InFlight, With, TypeOK
<1>6. target'[w] = x /\ \A v \in InFlight : target'[v] = target[v]
  BY <1>1, <1>5 DEF TypeOK
<1>7. TypeOK'
  BY <1>1, <1>3 DEF TypeOK, Statuses, Locs
<1>8. PlanInv'
  <2>1. CountsMatchPending' /\ Uncounted' /\ Settled'
    BY <1>1 DEF PlanInv, CountsMatchPending, Uncounted, Settled
  <2>2. QueuedAreReady' /\ JobsAreReady'
    <3>1. x \in pending /\ SlotsIn(x, pending) = {}
      BY <1>3, <1>4 DEF PlanInv, QueuedAreReady
    <3>2. QueuedAreReady'
      BY <1>1, <1>3, <1>4 DEF PlanInv, QueuedAreReady
    <3>3. JobsAreReady'
      BY <1>1, <1>5, <1>6, <3>1 DEF PlanInv, JobsAreReady
    <3> QED
      BY <3>2, <3>3
  <2>3. OneJobPerFile'
    BY <1>3, <1>4, <1>5, <1>6 DEF PlanInv, OneJobPerFile, NoRepeat
  <2>4. NothingDropped'
    BY <1>1, <1>3, <1>4, <1>5, <1>6 DEF PlanInv, NothingDropped, InLoop
  <2> QED
    BY <1>1, <2>1, <2>2, <2>3, <2>4 DEF PlanInv
<1>9. ThreadInv'
  BY <1>1 DEF ThreadInv, With, InLoop, TypeOK
<1>10. OutcomeInv'
  BY <1>1 DEF OutcomeInv, NoJobLeftBehind, InLoop, PlanInv
<1> QED
  BY <1>7, <1>8, <1>9, <1>10

(* The queue is empty, the pool is full, or a job has failed.              *)
LEMMA ScheduleStopsOK == IInv /\ ScheduleStops => IInv'
<1> SUFFICES ASSUME IInv, ScheduleStops PROVE IInv'
  OBVIOUS
<1> USE DEF IInv
<1>1. /\ pc = "schedule" /\ pc' = "scan" /\ ~hasErrors /\ hasErrors' = FALSE /\ outcome' = outcome
      /\ UNCHANGED plan /\ UNCHANGED <<pending, queue, counts, status, target, result, loc>>
      /\ InFlight' = InFlight
  BY DEF ScheduleStops, plan, worker, InFlight, With, PlanInv
<1>2. TypeOK'
  BY <1>1 DEF TypeOK, PCs
<1>3. PlanInv'
  <2>1. NothingDropped'
    BY <1>1 DEF PlanInv, NothingDropped, InLoop, Queued
  <2> QED
    BY <1>1, <2>1, SamePlan
<1>4. ThreadInv'
  <2>1. queue # <<>> => With("idle") = {} /\ With("none") = {}
    BY DEF ScheduleStops, CanTake, With
  <2> QED
    BY <1>1, <2>1 DEF ThreadInv, With, InLoop
<1>5. OutcomeInv'
  BY <1>1 DEF OutcomeInv, NoJobLeftBehind, InLoop
<1> QED
  BY <1>2, <1>3, <1>4, <1>5

-----------------------------------------------------------------------------
(* The steps of the collecting loop.                                       *)

(* The main thread looks for a finished worker and waits if there is none. *)
LEMMA ScanOK == IInv /\ Scan => IInv'
<1> SUFFICES ASSUME IInv, Scan PROVE IInv'
  OBVIOUS
<1> USE DEF IInv
<1>1. /\ pc \in {"scan", "woken"} /\ pc' \in {"collect", "wait"}
      /\ UNCHANGED plan
      /\ UNCHANGED <<pending, queue, counts, hasErrors, outcome, status, target, result, loc>>
      /\ InFlight' = InFlight
      /\ pc' = "wait" => With("finished") = {} /\ With("in_progress") # {}
  BY DEF Scan, plan, worker, InFlight, With
<1>2. TypeOK'
  BY <1>1 DEF TypeOK, PCs
<1>3. PlanInv'
  <2>1. NothingDropped'
    BY <1>1 DEF PlanInv, NothingDropped, InLoop, Queued
  <2> QED
    BY <1>1, <2>1, SamePlan
<1>4. ThreadInv'
  BY <1>1 DEF ThreadInv, With, InLoop
<1>5. OutcomeInv'
  BY <1>1 DEF OutcomeInv, NoJobLeftBehind, InLoop
<1> QED
  BY <1>2, <1>3, <1>4, <1>5

(* What the three ways to collect a finished job have in common.           *)
LEMMA CollectedJob ==
  ASSUME IInv, NEW w \in Workers, pc = "collect", status[w] = "finished", Idle(w),
         UNCHANGED <<target, result, loc>>, pc' \in {"collect", "unwind"}
  PROVE  /\ w \in InFlight /\ InFlight' = InFlight \ {w}
         /\ target[w] \in pending /\ SlotsIn(target[w], pending) = {}
         /\ target[w] \in Outputs /\ target[w] \notin Queued
         /\ \A v \in InFlight' : target[v] # target[w]
         /\ status' \in [Workers -> Statuses]
         /\ ThreadInv'
<1> USE DEF IInv
<1>1. w \in InFlight /\ InFlight' = InFlight \ {w}
  BY DEF InFlight, With, Idle, TypeOK
<1>2. target[w] \in pending /\ SlotsIn(target[w], pending) = {} /\ target[w] \in Outputs
  BY <1>1 DEF PlanInv, JobsAreReady, TypeOK
<1>3. target[w] \notin Queued /\ \A v \in InFlight' : target[v] # target[w]
  BY <1>1 DEF PlanInv, OneJobPerFile
<1>4. status' \in [Workers -> Statuses]
  BY DEF Idle, TypeOK, Statuses
<1>5. ThreadInv'
  BY DEF ThreadInv, With, Idle, TypeOK, InLoop
<1> QED
  BY <1>1, <1>2, <1>3, <1>4, <1>5

(* The result of a failed job is collected; its file stays pending.        *)
LEMMA CollectFailedOK == IInv /\ (\E w \in Workers : CollectFailed(w)) => IInv'
<1> SUFFICES ASSUME IInv, NEW w \in Workers, CollectFailed(w) PROVE IInv'
  OBVIOUS
<1> USE DEF IInv
<1>1. /\ pc = "collect" /\ status[w] = "finished" /\ Idle(w) /\ hasErrors' = TRUE
      /\ UNCHANGED <<target, result, loc>> /\ pc' = pc /\ outcome' = outcome
      /\ UNCHANGED plan /\ UNCHANGED <<pending, queue, counts>>
  BY DEF CollectFailed, plan
<1>2. /\ w \in InFlight /\ InFlight' = InFlight \ {w} /\ target[w] \in pending
      /\ \A v \in InFlight' : target[v] # target[w]
      /\ status' \in [Workers -> Statuses] /\ ThreadInv'
  BY <1>1, CollectedJob
<1>3. TypeOK'
  BY <1>1, <1>2 DEF TypeOK
<1>4. PlanInv'
  <2>1. NothingDropped'
    BY <1>1 DEF NothingDropped
  <2> QED
    BY <1>1, <1>2, <2>1, SamePlan
<1>5. OutcomeInv'
  BY <1>1, <1>2 DEF OutcomeInv, NoJobLeftBehind, InLoop
<1> QED
  BY <1>2, <1>3, <1>4, <1>5

(* What erasing the file of a finished job does to the plan.               *)
LEMMA CollectedErased ==
  ASSUME IInv, NEW w \in Workers, CollectUpdated(w)
  PROVE  ErasedFrom(target[w], RangeOf(queue))
<1> DEFINE x == target[w]
<1> USE DEF IInv
<1>1. /\ pc = "collect" /\ status[w] = "finished" /\ Idle(w) /\ Erase(x, queue)
      /\ UNCHANGED <<target, result, loc>> /\ pc' \in {"collect", "unwind"}
  BY DEF CollectUpdated
<1>2. x \in pending /\ SlotsIn(x, pending) = {} /\ x \notin Queued
  BY <1>1, CollectedJob
<1> HIDE DEF x
<1>3. queue \in Seq(Outputs) /\ NoRepeat(queue) /\ Queued = RangeOf(queue)
  BY DEF TypeOK, PlanInv, OneJobPerFile, NoRepeat, Queued, RangeOf
<1>4. \A t \in RangeOf(queue) : t \in pending \ {x} /\ SlotsIn(t, pending) = {}
  BY <1>2, <1>3 DEF PlanInv, QueuedAreReady
<1>5. ErasedFrom(x, RangeOf(queue))
  BY <1>1, <1>2, <1>3, <1>4, EraseStep DEF PlanInv
<1> QED
  BY <1>5 DEF x

(* The result of a job is collected and its file erased.                   *)
LEMMA CollectUpdatedOK == IInv /\ (\E w \in Workers : CollectUpdated(w)) => IInv'
<1> SUFFICES ASSUME IInv, NEW w \in Workers, CollectUpdated(w) PROVE IInv'
  OBVIOUS
<1> DEFINE x == target[w]
<1> USE DEF IInv
<1>1. /\ pc = "collect" /\ status[w] = "finished" /\ Idle(w) /\ Erase(x, queue)
      /\ UNCHANGED <<target, result, loc>> /\ UNCHANGED <<pc, hasErrors, outcome>>
  BY DEF CollectUpdated
<1>2. /\ w \in InFlight /\ InFlight' = InFlight \ {w}
      /\ x \in pending /\ SlotsIn(x, pending) = {} /\ x \in Outputs /\ x \notin Queued
      /\ \A v \in InFlight' : target[v] # x
      /\ status' \in [Workers -> Statuses] /\ ThreadInv'
  <2>1. pc' \in {"collect", "unwind"}
    BY <1>1
  <2> QED
    BY <1>1, <2>1, CollectedJob
<1> HIDE DEF x
<1>3. Queued = RangeOf(queue) /\ NoRepeat(queue) /\ ErasedFrom(x, RangeOf(queue))
  BY CollectedErased DEF Queued, RangeOf, x, PlanInv, OneJobPerFile, NoRepeat
<1>4. /\ pending' = pending \ {x}
      /\ DOMAIN counts' = DOMAIN counts /\ counts' \in [DOMAIN counts -> Nat]
      /\ queue' \in Seq(Outputs) /\ NoRepeat(queue')
      /\ Queued' = RangeOf(queue) \cup Released(counts, x)
      /\ CountsMatchPending' /\ Uncounted' /\ Settled' /\ QueuedAreReady'
      /\ \A t \in Released(counts, x) : SlotsIn(t, pending) # {}
      /\ \A t \in pending' : SlotsIn(t, pending) # {} =>
           t \in Released(counts, x) \/ SlotsIn(t, pending') # {}
  BY <1>3 DEF ErasedFrom
<1>5. TypeOK'
  BY <1>1, <1>2, <1>4 DEF TypeOK
<1>6. PlanInv'
  <2>1. JobsAreReady'
    <3>1. \A t : SlotsIn(t, pending') \subseteq SlotsIn(t, pending)
      BY <1>4 DEF SlotsIn
    <3> QED
      BY <1>1, <1>2, <1>4, <3>1 DEF PlanInv, JobsAreReady
  <2>2. OneJobPerFile'
    BY <1>1, <1>2, <1>3, <1>4 DEF PlanInv, OneJobPerFile, JobsAreReady, NoRepeat
  <2>3. NothingDropped'
    BY <1>1, <1>2, <1>3, <1>4 DEF PlanInv, NothingDropped, InLoop, x
  <2> QED
    BY <1>1, <1>4, <2>1, <2>2, <2>3 DEF PlanInv
<1>7. OutcomeInv'
  BY <1>1, <1>2, <1>4 DEF OutcomeInv, NoJobLeftBehind, InLoop, x
<1> QED
  BY <1>2, <1>5, <1>6, <1>7

(* finalize_scheduled_update throws: the loop is left.                     *)
LEMMA CollectThrowsOK == IInv /\ (\E w \in Workers : CollectThrows(w)) => IInv'
<1> SUFFICES ASSUME IInv, NEW w \in Workers, CollectThrows(w) PROVE IInv'
  OBVIOUS
<1> USE DEF IInv
<1>1. /\ pc = "collect" /\ status[w] = "finished" /\ Idle(w)
      /\ UNCHANGED <<target, result, loc>> /\ pc' = "unwind" /\ outcome' = "threw"
      /\ UNCHANGED plan /\ UNCHANGED <<pending, queue, counts, hasErrors>>
  BY DEF CollectThrows, plan
<1>2. /\ InFlight' = InFlight \ {w} /\ target[w] \in pending
      /\ status' \in [Workers -> Statuses] /\ ThreadInv'
  BY <1>1, CollectedJob
<1>3. TypeOK'
  BY <1>1, <1>2 DEF TypeOK, PCs, Outcomes
<1>4. PlanInv'
  <2>1. NothingDropped'
    BY <1>1 DEF NothingDropped, InLoop
  <2> QED
    BY <1>1, <1>2, <2>1, SamePlan
<1>5. OutcomeInv'
  BY <1>1, <1>2 DEF OutcomeInv, NoJobLeftBehind, InLoop
<1> QED
  BY <1>2, <1>3, <1>4, <1>5

(* Every finished worker has been collected: the loop goes on or ends.     *)
LEMMA CollectEndsOK == IInv /\ CollectEnds => IInv'
<1> SUFFICES ASSUME IInv, CollectEnds PROVE IInv'
  OBVIOUS
<1> USE DEF IInv
<1>1. /\ pc = "collect" /\ With("finished") = {}
      /\ UNCHANGED plan /\ UNCHANGED <<pending, queue, counts, hasErrors, status, target, result, loc>>
  BY DEF CollectEnds, plan, worker
<1>2. \/ hasErrors /\ pc' = "scan" /\ outcome' = outcome
      \/ hasErrors /\ With("in_progress") = {} /\ pc' = "unwind" /\ outcome' = "errors"
      \/ ~hasErrors /\ pending = {} /\ pc' = "unwind" /\ outcome' = "updated"
      \/ ~hasErrors /\ pc' = "schedule" /\ outcome' = outcome
  BY DEF CollectEnds
<1>3. InFlight' = InFlight
  BY <1>1, <1>2 DEF InFlight, With
<1>4. TypeOK'
  BY <1>1, <1>2 DEF TypeOK, PCs, Outcomes
<1>5. PlanInv'
  <2>1. NothingDropped'
    BY <1>1, <1>2, <1>3 DEF PlanInv, NothingDropped, InLoop, Queued
  <2> QED
    BY <1>1, <1>2, <1>3, <2>1, SamePlan
<1>6. ThreadInv'
  BY <1>1, <1>2 DEF ThreadInv, With, InLoop
<1>7. OutcomeInv'
  <2>1. With("shutdown") = {}
    BY <1>1 DEF ThreadInv, InLoop
  <2>2. pending = {} => With("in_progress") = {}
    BY <1>1 DEF PlanInv, JobsAreReady, InFlight
  <2>3. pc' = "unwind" => \A v \in Workers : status[v] \in {"none", "idle"}
    BY <1>1, <1>2, <2>1, <2>2 DEF With, TypeOK, Statuses
  <2>4. hasErrors => pending # {}
    BY <1>1 DEF OutcomeInv, InLoop
  <2> QED
    BY <1>1, <1>2, <1>3, <2>3, <2>4 DEF OutcomeInv, NoJobLeftBehind, InLoop
<1> QED
  BY <1>4, <1>5, <1>6, <1>7

-----------------------------------------------------------------------------
(* The destructor of the pool, and the worker threads.                     *)

(* The destructor of the pool sets every status to shutdown.               *)
LEMMA ShutdownOK == IInv /\ Shutdown => IInv'
<1> SUFFICES ASSUME IInv, Shutdown PROVE IInv'
  OBVIOUS
<1> USE DEF IInv
<1>1. /\ pc = "unwind" /\ pc' = "join"
      /\ UNCHANGED plan /\ UNCHANGED <<pending, queue, counts, hasErrors, outcome, target, result>>
      /\ InFlight' = {}
  BY DEF Shutdown, plan, InFlight
<1>2. TypeOK'
  BY <1>1 DEF Shutdown, Woken, TypeOK, PCs, Statuses, Locs
<1>3. PlanInv'
  <2>1. NothingDropped'
    BY <1>1 DEF NothingDropped, InLoop
  <2> QED
    BY <1>1, <2>1, SamePlan
<1>4. ThreadInv'
  BY <1>1 DEF Shutdown, ThreadInv, With, InLoop
<1>5. OutcomeInv'
  BY <1>1 DEF OutcomeInv, NoJobLeftBehind, InLoop
<1> QED
  BY <1>2, <1>3, <1>4, <1>5

(* The destructor has joined every thread.                                 *)
LEMMA JoinOK == IInv /\ Join => IInv'
<1> SUFFICES ASSUME IInv, Join PROVE IInv'
  OBVIOUS
<1> USE DEF IInv
<1>1. /\ pc = "join" /\ pc' = "returned"
      /\ UNCHANGED plan
      /\ UNCHANGED <<pending, queue, counts, hasErrors, outcome, status, target, result, loc>>
      /\ InFlight' = {}
  BY DEF Join, plan, worker, InFlight
<1>2. TypeOK'
  BY <1>1 DEF TypeOK, PCs
<1>3. PlanInv'
  <2>1. NothingDropped'
    BY <1>1 DEF NothingDropped, InLoop
  <2> QED
    BY <1>1, <2>1, SamePlan
<1>4. ThreadInv'
  BY <1>1 DEF ThreadInv, With, InLoop
<1>5. OutcomeInv'
  BY <1>1 DEF OutcomeInv, NoJobLeftBehind, InLoop
<1> QED
  BY <1>2, <1>3, <1>4, <1>5

(* A worker thread looks at its status, ends its command or publishes.     *)
LEMMA ThreadOK == IInv /\ (\E w \in Workers : Thread(w)) => IInv'
<1> SUFFICES ASSUME IInv, NEW w \in Workers, Thread(w) PROVE IInv'
  OBVIOUS
<1> USE DEF IInv
<1>1. CASE Checks(w)
  <2>1. PICK l \in {"exited", "running", "waiting"} :
             loc' = [loc EXCEPT ![w] = l] /\ (l = "running" <=> status[w] = "in_progress")
    BY <1>1 DEF Checks
  <2>2. /\ UNCHANGED plan
        /\ UNCHANGED <<pending, queue, counts, pc, hasErrors, outcome, status, target, result>>
        /\ InFlight' = InFlight
    BY <1>1 DEF Checks, plan, InFlight, With
  <2>3. TypeOK'
    BY <2>1, <2>2 DEF TypeOK, Locs
  <2>4. PlanInv'
    <3>1. NothingDropped' /\ (pc' = "schedule" => ~hasErrors')
      BY <2>1, <2>2 DEF PlanInv, NothingDropped, InLoop, Queued
    <3> QED
      BY <2>1, <2>2, <3>1, SamePlan
  <2>5. ThreadInv'
    BY <2>1, <2>2 DEF ThreadInv, With, InLoop, TypeOK
  <2>6. OutcomeInv'
    BY <2>1, <2>2 DEF OutcomeInv, NoJobLeftBehind, InLoop
  <2> QED
    BY <2>3, <2>4, <2>5, <2>6
<1>2. CASE CommandEnds(w)
  <2>1. /\ loc[w] = "running" /\ loc' = [loc EXCEPT ![w] = "ended"]
        /\ UNCHANGED plan
        /\ UNCHANGED <<pending, queue, counts, pc, hasErrors, outcome, status, target>>
        /\ InFlight' = InFlight
    BY <1>2 DEF CommandEnds, plan, InFlight, With
  <2>2. TypeOK'
    BY <1>2, <2>1 DEF CommandEnds, TypeOK, Locs
  <2>3. PlanInv'
    <3>1. NothingDropped' /\ (pc' = "schedule" => ~hasErrors')
      BY <2>1 DEF PlanInv, NothingDropped, InLoop, Queued
    <3> QED
      BY <2>1, <3>1, SamePlan
  <2>4. ThreadInv'
    BY <2>1 DEF ThreadInv, With, InLoop, TypeOK
  <2>5. OutcomeInv'
    BY <2>1 DEF OutcomeInv, NoJobLeftBehind, InLoop
  <2> QED
    BY <2>2, <2>3, <2>4, <2>5
<1>3. CASE Publishes(w)
  <2>1. /\ MutexFree /\ loc[w] = "ended"
        /\ status' = [status EXCEPT ![w] = "finished"] /\ loc' = [loc EXCEPT ![w] = "waiting"]
        /\ pc' = (IF pc = "wait" THEN "woken" ELSE pc)
        /\ UNCHANGED plan
        /\ UNCHANGED <<pending, queue, counts, hasErrors, outcome, target, result>>
    BY <1>3 DEF Publishes, plan
  <2>2. pc \in {"wait", "woken", "join", "returned"} /\ pc' \in {"woken", "join", "returned"}
    BY <2>1 DEF MutexFree
  <2>3. TypeOK'
    BY <2>1, <2>2 DEF TypeOK, Statuses, Locs, PCs
  <2>4. InFlight' \subseteq InFlight /\ (InLoop' => InFlight' = InFlight) /\ (InLoop' <=> InLoop)
    BY <2>1, <2>2 DEF InFlight, InLoop, With, ThreadInv, TypeOK
  <2>5. PlanInv'
    <3>1. NothingDropped'
      BY <2>1, <2>4 DEF PlanInv, NothingDropped, Queued
    <3> QED
      BY <2>1, <2>2, <2>4, <3>1, SamePlan
  <2>6. ThreadInv'
    BY <2>1, <2>2 DEF ThreadInv, With, InLoop, TypeOK
  <2>7. OutcomeInv'
    BY <2>1, <2>2, <2>4 DEF OutcomeInv, NoJobLeftBehind
  <2> QED
    BY <2>3, <2>5, <2>6, <2>7
<1> QED
  BY <1>1, <1>2, <1>3 DEF Thread

(* A thread is woken for no reason.                                        *)
LEMMA SpuriousWakeUpsOK == IInv /\ SpuriousWakeUps => IInv'
<1> SUFFICES ASSUME IInv, SpuriousWakeUps PROVE IInv'
  OBVIOUS
<1> USE DEF IInv
<1>1. /\ UNCHANGED plan
      /\ UNCHANGED <<pending, queue, counts, hasErrors, outcome, status, target, result>>
      /\ \/ pc = "wait" /\ pc' = "woken" /\ loc' = loc
         \/ /\ pc' = pc
            /\ \E w \in Workers : loc[w] = "waiting" /\ loc' = [loc EXCEPT ![w] = "ready"]
  BY DEF SpuriousWakeUps, SpuriousWakeUp, plan
<1>2. InFlight' = InFlight /\ (InLoop' <=> InLoop)
  BY <1>1 DEF InFlight, With, InLoop
<1>3. TypeOK'
  BY <1>1 DEF TypeOK, PCs, Locs
<1>4. PlanInv'
  <2>1. NothingDropped' /\ (pc' = "schedule" => ~hasErrors')
    BY <1>1, <1>2 DEF PlanInv, NothingDropped, Queued
  <2> QED
    BY <1>1, <1>2, <2>1, SamePlan
<1>5. ThreadInv'
  BY <1>1 DEF ThreadInv, With, InLoop, TypeOK
<1>6. OutcomeInv'
  BY <1>1, <1>2 DEF OutcomeInv, NoJobLeftBehind
<1> QED
  BY <1>3, <1>4, <1>5, <1>6

(* Every step keeps the invariant.                                         *)
LEMMA NextOK == IInv /\ [Next]_vars => IInv'
<1> SUFFICES ASSUME IInv, [Next]_vars PROVE IInv'
  OBVIOUS
<1>1. CASE Main
  BY <1>1, ScheduleUpToDateOK, ScheduleThrowsOK, ScheduleJobOK, ScheduleStopsOK, ScanOK,
     CollectFailedOK, CollectUpdatedOK, CollectThrowsOK, CollectEndsOK, ShutdownOK, JoinOK
     DEF Main
<1>2. CASE \E w \in Workers : Thread(w)
  BY <1>2, ThreadOK
<1>3. CASE SpuriousWakeUps
  BY <1>3, SpuriousWakeUpsOK
<1>4. CASE UNCHANGED vars
  <2> USE DEF IInv
  <2>1. /\ UNCHANGED plan /\ InFlight' = InFlight
        /\ UNCHANGED <<pending, queue, counts, pc, hasErrors, outcome, status, target, result, loc>>
    BY <1>4 DEF vars, plan, InFlight, With
  <2>2. TypeOK'
    BY <2>1 DEF TypeOK
  <2>3. PlanInv'
    <3>1. NothingDropped' /\ (pc' = "schedule" => ~hasErrors')
      BY <2>1 DEF PlanInv, NothingDropped, InLoop, Queued
    <3> QED
      BY <2>1, <3>1, SamePlan
  <2>4. ThreadInv'
    BY <2>1 DEF ThreadInv, With, InLoop
  <2>5. OutcomeInv'
    BY <2>1 DEF OutcomeInv, NoJobLeftBehind, InLoop
  <2> QED
    BY <2>2, <2>3, <2>4, <2>5
<1> QED
  BY <1>1, <1>2, <1>3, <1>4 DEF Next

(* The conjunction of the four parts holds throughout every execution.     *)
THEOREM Invariance == Spec => []IInv
  BY InitOK, NextOK, PTL DEF Spec

-----------------------------------------------------------------------------
(* Every variable keeps its type; in particular no count of the plan goes  *)
(* below zero, however often a rule names the same input.                  *)
THEOREM TypeCorrect == Spec => []TypeOK
<1>1. IInv => TypeOK
  BY DEF IInv
<1> QED
  BY <1>1, Invariance, PTL

(* The counts of the plan are at all times the numbers of pending inputs.  *)
THEOREM CountsAreExact == Spec => []CountsMatchPending
<1>1. IInv => CountsMatchPending
  BY DEF IInv, PlanInv
<1> QED
  BY <1>1, Invariance, PTL

(* No file is ever queued twice, queued and worked on, or worked on twice. *)
THEOREM NoFileTwice == Spec => []OneJobPerFile
<1>1. IInv => OneJobPerFile
  BY DEF IInv, PlanInv
<1> QED
  BY <1>1, Invariance, PTL

(* A command only runs while every generated file it reads is up to date.  *)
THEOREM InputsAreFirst == Spec => []InputsFirst
<1>1. IInv => InputsFirst
  <2>1. ASSUME IInv, NEW w \in InFlight PROVE Producers[target[w]] \cap pending = {}
    <3>1. target[w] \in Outputs /\ SlotsIn(target[w], pending) = {}
      BY <2>1 DEF IInv, TypeOK, PlanInv, JobsAreReady
    <3> QED
      BY <3>1, NoSlotNoProducer
  <2> QED
    BY <2>1 DEF InputsFirst
<1> QED
  BY <1>1, Invariance, PTL

(* Neither the main thread nor a worker sleeps through its wake-up.        *)
THEOREM WakeUpsArrive == Spec => []NoLostWakeUp
<1>1. IInv => NoLostWakeUp
  BY DEF IInv, ThreadInv, NoLostWakeUp
<1> QED
  BY <1>1, Invariance, PTL

(* The pool is full whenever the main thread waits with files to spare.    *)
THEOREM PoolIsFull == Spec => []WorkConserving
<1>1. IInv => WorkConserving
  BY DEF IInv, TypeOK, ThreadInv, WorkConserving, With, InLoop, Statuses
<1> QED
  BY <1>1, Invariance, PTL

(* The driver takes an execution for complete exactly when it was.         *)
THEOREM ReportsAreExact == Spec => []ReportIsExact
<1>1. IInv => ReportIsExact
  BY DEF IInv, TypeOK, OutcomeInv, ReportIsExact, InLoop, Outcomes
<1> QED
  BY <1>1, Invariance, PTL

(* Without an exception no job is left running and no result unread.       *)
THEOREM JobsAreCollected == Spec => []NoJobLeftBehind
<1>1. IInv => NoJobLeftBehind
  BY DEF IInv, OutcomeInv
<1> QED
  BY <1>1, Invariance, PTL

-----------------------------------------------------------------------------
(* The steps of the thread pool are steps of OrderedUpdate.                *)

(* A step that leaves a file where it was leaves its phase.                *)
LEMMA SamePhase ==
  ASSUME UNCHANGED <<pending, queue, target>>, InFlight' = InFlight
  PROVE  Phase' = Phase
  BY DEF Phase, Queued

(* A job is only begun, or found unnecessary, with nothing in its way.     *)
LEMMA HeadIsReady ==
  ASSUME IInv, pc = "schedule", NEW x \in Queued, x \in Outputs
  PROVE  Abstract!Ready(x)
<1> USE DEF IInv
<1>1. x \in pending /\ SlotsIn(x, pending) = {} /\ \A w \in InFlight : target[w] # x
  BY DEF PlanInv, QueuedAreReady, OneJobPerFile
<1>2. Phase[x] = "waiting"
  BY <1>1 DEF Phase
<1>3. \A i \in Producers[x] : i \in Outputs /\ i \notin pending
  BY <1>1, NoSlotNoProducer DEF Producers
<1>4. \A i \in Producers[x] : Phase[i] = "done"
  BY <1>3 DEF Phase
<1>5. Abstract!In("dropped") = {}
  <2>1. \A t \in pending : \/ t \in Queued
                          \/ SlotsIn(t, pending) # {}
                          \/ \E w \in InFlight : target[w] = t
    BY DEF PlanInv, NothingDropped, InLoop
  <2> QED
    BY <2>1 DEF Phase, Abstract!In
<1> QED
  BY <1>2, <1>4, <1>5 DEF Abstract!Ready

(* Two functions that differ in one place.                                 *)
LEMMA ExceptAt ==
  ASSUME NEW S, NEW f, NEW g, NEW x \in S, NEW v,
         f = [t \in S |-> f[t]], g = [t \in S |-> g[t]],
         g[x] = v, \A t \in S \ {x} : g[t] = f[t]
  PROVE  g = [f EXCEPT ![x] = v]
  OBVIOUS

(* Erasing x makes x done and leaves every other file where it stood.      *)
LEMMA ErasedPhase ==
  ASSUME IInv, NEW x \in pending, x \in Outputs, NEW others, ErasedFrom(x, others),
         Queued \ {x} = others, UNCHANGED target,
         \A t \in Outputs \ {x} :
           (\E w \in InFlight' : target[w] = t) <=> (\E w \in InFlight : target[w] = t)
  PROVE  Phase' = [Phase EXCEPT ![x] = "done"]
<1>1. ASSUME NEW t \in Outputs \ {x}
      PROVE  Phase'[t] = Phase[t]
  <2>1. t \in pending' <=> t \in pending
    BY DEF ErasedFrom
  <2>2. CASE t \in pending
    <3>1. t \in Queued' \/ SlotsIn(t, pending') # {} <=> t \in Queued \/ SlotsIn(t, pending) # {}
      <4>1. SlotsIn(t, pending') \subseteq SlotsIn(t, pending)
        BY DEF ErasedFrom, SlotsIn
      <4> QED
        BY <2>1, <2>2, <4>1 DEF ErasedFrom
    <3> QED
      BY <2>1, <2>2, <3>1 DEF Phase
  <2>3. CASE t \notin pending
    BY <2>1, <2>3 DEF Phase
  <2> QED
    BY <2>2, <2>3
<1>2. Phase'[x] = "done"
  BY DEF Phase, ErasedFrom
<1>3. Phase = [t \in Outputs |-> Phase[t]] /\ Phase' = [t \in Outputs |-> Phase'[t]]
  BY DEF Phase
<1>4. \A t \in Outputs \ {x} : Phase'[t] = Phase[t]
  BY <1>1
<1> HIDE DEF Phase
<1> QED
  BY <1>2, <1>3, <1>4, ExceptAt

(* Losing a job that is not erased drops its file.                         *)
LEMMA DroppedPhase ==
  ASSUME IInv, NEW w \in Workers, pc = "collect", status[w] = "finished", Idle(w),
         UNCHANGED <<target, result, loc>>, pc' \in {"collect", "unwind"},
         UNCHANGED <<pending, queue>>
  PROVE  Abstract!Drop(target[w])
<1> DEFINE x == target[w]
<1>1. /\ w \in InFlight /\ InFlight' = InFlight \ {w}
      /\ x \in pending /\ SlotsIn(x, pending) = {} /\ x \in Outputs /\ x \notin Queued
      /\ \A v \in InFlight' : target[v] # x
  BY CollectedJob
<1>2. Phase[x] = "running" /\ Phase'[x] = "dropped"
  BY <1>1 DEF Phase, Queued
<1>3. ASSUME NEW t \in Outputs, t # x
      PROVE  Phase'[t] = Phase[t]
  BY <1>1, <1>3 DEF Phase, Queued
<1>4. Phase' = [Phase EXCEPT ![x] = "dropped"]
  <2>1. Phase = [t \in Outputs |-> Phase[t]] /\ Phase' = [t \in Outputs |-> Phase'[t]]
    BY DEF Phase
  <2>2. x \in Outputs /\ \A t \in Outputs \ {x} : Phase'[t] = Phase[t]
    BY <1>1, <1>3
  <2> HIDE DEF Phase, x
  <2> QED
    BY <1>2, <2>1, <2>2, ExceptAt
<1> QED
  BY <1>2, <1>4 DEF Abstract!Drop

(* The initial states are those of OrderedUpdate.                          *)
LEMMA InitRefines == Init => Abstract!Init
<1> SUFFICES ASSUME Init PROVE Abstract!Init
  OBVIOUS
<1>1. IInv
  BY InitOK
<1>2. InLoop /\ ~hasErrors /\ InFlight = {}
  BY DEF Init, InLoop, InFlight, With
<1>3. \A t \in pending : t \in Queued \/ SlotsIn(t, pending) # {}
  BY <1>1, <1>2 DEF IInv, PlanInv, NothingDropped
<1> QED
  BY <1>2, <1>3 DEF Abstract!Init, Phase

(* Every step is one of OrderedUpdate or a stutter.                        *)
LEMMA NextRefines == IInv /\ [Next]_vars => [Abstract!Next]_(Abstract!vars)
<1> SUFFICES ASSUME IInv, [Next]_vars PROVE Abstract!Next \/ Phase' = Phase
  BY DEF Abstract!vars
<1>1. CASE ScheduleUpToDate
  <2> DEFINE x == Head(queue)
  <2>1. /\ x \in pending /\ x \in Outputs
        /\ Queued = {x} \cup RangeOf(Tail(queue)) /\ x \notin RangeOf(Tail(queue))
        /\ ErasedFrom(x, RangeOf(Tail(queue)))
    BY <1>1, HeadErased
  <2>2. pc = "schedule" /\ target' = target /\ InFlight' = InFlight
    BY <1>1 DEF ScheduleUpToDate, worker, InFlight, With
  <2> HIDE DEF x
  <2>3. Abstract!Ready(x)
    BY <2>1, <2>2, HeadIsReady
  <2>4. Phase' = [Phase EXCEPT ![x] = "done"]
    BY <2>1, <2>2, ErasedPhase
  <2>5. Abstract!Skip(x)
    BY <2>3, <2>4 DEF Abstract!Skip
  <2> QED
    BY <2>1, <2>5 DEF Abstract!Next
<1>2. ASSUME NEW w \in Workers, ScheduleJob(w) PROVE Abstract!Next
  <2> DEFINE x == Head(queue)
  <2>1. /\ pc = "schedule" /\ queue # <<>> /\ status[w] \in {"idle", "none"}
        /\ queue' = Tail(queue) /\ pc' = pc /\ pending' = pending
        /\ target' = [target EXCEPT ![w] = x]
        /\ status' = [status EXCEPT ![w] = "in_progress"]
    BY <1>2 DEF ScheduleJob, CanTake, With
  <2>2. queue \in Seq(Outputs) /\ NoRepeat(queue)
    BY DEF IInv, TypeOK, PlanInv, OneJobPerFile, NoRepeat
  <2>3. /\ x \in Outputs /\ Queued = {x} \cup Queued' /\ x \notin Queued'
    <3>1. /\ x \in Outputs /\ RangeOf(queue) = {x} \cup RangeOf(Tail(queue))
          /\ x \notin RangeOf(Tail(queue))
      BY <2>1, <2>2, PoppedQueue
    <3>2. Queued = RangeOf(queue) /\ Queued' = RangeOf(Tail(queue))
      BY <2>1 DEF Queued, RangeOf
    <3> QED
      BY <3>1, <3>2
  <2> HIDE DEF x
  <2>4. InFlight' = InFlight \cup {w} /\ w \notin InFlight
    BY <2>1 DEF InFlight, With, IInv, TypeOK
  <2>5. target'[w] = x /\ \A v \in InFlight : target'[v] = target[v]
    BY <2>1, <2>4 DEF IInv, TypeOK
  <2>6. x \in pending
    BY <2>3 DEF IInv, PlanInv, QueuedAreReady
  <2>7. Phase'[x] = "running"
    BY <2>1, <2>3, <2>4, <2>5, <2>6 DEF Phase
  <2>8. ASSUME NEW t \in Outputs, t # x PROVE Phase'[t] = Phase[t]
    <3>1. (\E v \in InFlight' : target'[v] = t) <=> (\E v \in InFlight : target[v] = t)
      BY <2>4, <2>5, <2>8
    <3>2. t \in Queued' <=> t \in Queued
      BY <2>3, <2>8
    <3> QED
      BY <2>1, <3>1, <3>2 DEF Phase
  <2>9. Phase' = [Phase EXCEPT ![x] = "running"]
    <3>1. Phase = [t \in Outputs |-> Phase[t]] /\ Phase' = [t \in Outputs |-> Phase'[t]]
      BY DEF Phase
    <3>2. \A t \in Outputs \ {x} : Phase'[t] = Phase[t]
      BY <2>8
    <3> HIDE DEF Phase
    <3> QED
      BY <2>3, <2>7, <3>1, <3>2, ExceptAt
  <2>10. Abstract!Start(x)
    BY <2>1, <2>3, <2>9, HeadIsReady DEF Abstract!Start
  <2> QED
    BY <2>3, <2>10 DEF Abstract!Next
<1>3. ASSUME NEW w \in Workers, CollectFailed(w) \/ CollectThrows(w) PROVE Abstract!Next
  <2>1. Abstract!Drop(target[w]) /\ target[w] \in Outputs
    BY <1>3, DroppedPhase, CollectedJob DEF CollectFailed, CollectThrows, plan
  <2> QED
    BY <2>1 DEF Abstract!Next
<1>4. ASSUME NEW w \in Workers, CollectUpdated(w) PROVE Abstract!Next
  <2> DEFINE x == target[w]
  <2>1. /\ w \in InFlight /\ InFlight' = InFlight \ {w}
        /\ x \in pending /\ x \in Outputs /\ x \notin Queued /\ target' = target
        /\ \A v \in InFlight' : target[v] # x
    BY <1>4, CollectedJob DEF CollectUpdated
  <2>2. ErasedFrom(x, RangeOf(queue)) /\ Queued = RangeOf(queue)
    BY <1>4, CollectedErased DEF Queued, RangeOf
  <2> HIDE DEF x
  <2>3. Phase[x] = "running"
    BY <2>1 DEF Phase, x
  <2>4. Phase' = [Phase EXCEPT ![x] = "done"]
    <3>1. \A t \in Outputs \ {x} :
            (\E v \in InFlight' : target[v] = t) <=> (\E v \in InFlight : target[v] = t)
      BY <2>1 DEF x
    <3> QED
      BY <2>1, <2>2, <3>1, ErasedPhase
  <2>5. Abstract!Succeed(x)
    BY <2>3, <2>4 DEF Abstract!Succeed
  <2> QED
    BY <2>1, <2>5 DEF Abstract!Next
<1>5. CASE Shutdown
  <2>1. UNCHANGED <<pending, queue, target>> /\ InFlight' = {} /\ Queued' = Queued
    BY <1>5 DEF Shutdown, plan, InFlight, Queued
  <2>2. CASE InFlight = {}
    BY <2>1, <2>2, SamePhase
  <2>3. CASE InFlight # {}
    <3>1. \A w \in InFlight : /\ target[w] \in pending /\ target[w] \in Outputs
                              /\ SlotsIn(target[w], pending) = {} /\ target[w] \notin Queued
      BY DEF IInv, PlanInv, JobsAreReady, OneJobPerFile, TypeOK
    <3>2. Abstract!In("running") # {}
      BY <2>3, <3>1 DEF Abstract!In, Phase
    <3>3. Phase' = [t \in Outputs |-> IF Phase[t] = "running" THEN "dropped" ELSE Phase[t]]
      BY <2>1, <3>1 DEF Phase
    <3>4. Abstract!Abandon
      BY <3>2, <3>3 DEF Abstract!Abandon
    <3> QED
      BY <3>4 DEF Abstract!Next
  <2> QED
    BY <2>2, <2>3
<1>6. CASE ScheduleThrows \/ ScheduleStops \/ Scan \/ CollectEnds \/ Join
  <2>1. UNCHANGED <<pending, queue, target>> /\ InFlight' = InFlight
    BY <1>6 DEF ScheduleThrows, ScheduleStops, Scan, CollectEnds, Join, plan, worker, InFlight, With
  <2> QED
    BY <2>1, SamePhase
<1>7. ASSUME NEW w \in Workers, Thread(w) PROVE Phase' = Phase
  <2>1. UNCHANGED <<pending, queue, target>>
    BY <1>7 DEF Thread, Checks, CommandEnds, Publishes, plan
  <2>2. InFlight' = InFlight
    <3>1. CASE Checks(w) \/ CommandEnds(w)
      BY <3>1 DEF Checks, CommandEnds, InFlight, With
    <3>2. CASE Publishes(w)
      BY <3>2 DEF Publishes, MutexFree, InFlight, With, InLoop, IInv, TypeOK, ThreadInv
    <3> QED
      BY <1>7, <3>1, <3>2 DEF Thread
  <2> QED
    BY <2>1, <2>2, SamePhase
<1>8. CASE SpuriousWakeUps
  <2>1. UNCHANGED <<pending, queue, target>> /\ InFlight' = InFlight
    BY <1>8 DEF SpuriousWakeUps, SpuriousWakeUp, plan, InFlight, With
  <2> QED
    BY <2>1, SamePhase
<1>9. CASE UNCHANGED vars
  <2>1. UNCHANGED <<pending, queue, target>> /\ InFlight' = InFlight
    BY <1>9 DEF vars, InFlight, With
  <2> QED
    BY <2>1, SamePhase
<1> QED
  BY <1>1, <1>2, <1>3, <1>4, <1>5, <1>6, <1>7, <1>8, <1>9 DEF Next, Main

(* Every execution of the plan by the thread pool, on any schedule of the  *)
(* threads and with any failures, is one OrderedUpdate allows.             *)
THEOREM Refinement == Spec => Implements
<1>1. Spec => Abstract!Spec
  BY InitRefines, NextRefines, Invariance, PTL DEF Spec, Abstract!Spec
<1> QED
  BY <1>1 DEF Implements
-----------------------------------------------------------------------------
(* What OrderedUpdate promises of the steps it allows, and so of the steps *)
(* of the thread pool.                                                     *)

OrderInv == Abstract!TypeOK /\ Abstract!ProducersDoneFirst

(* Before the first step no job runs.                                      *)
LEMMA InitOrdered == Abstract!Init => OrderInv
<1> HIDE DEF Phase
<1> QED
  BY DEF Abstract!Init, OrderInv, Abstract!TypeOK, Abstract!Phases,
         Abstract!ProducersDoneFirst

(* A step only takes a file out of "done" if it was never there: the files *)
(* a running job is made from stay done.                                   *)
LEMMA DoneStays ==
  ASSUME Abstract!TypeOK, [Abstract!Next]_(Abstract!vars), NEW t \in Outputs,
         Phase[t] = "done"
  PROVE  Phase'[t] = "done"
<1> HIDE DEF Phase
<1> QED
  BY DEF Abstract!TypeOK, Abstract!Next, Abstract!vars, Abstract!Start, Abstract!Skip,
         Abstract!Succeed, Abstract!Drop, Abstract!Abandon, Abstract!Ready

(* No step starts a job before its inputs are done or undoes one.          *)
LEMMA NextOrdered ==
  ASSUME OrderInv, [Abstract!Next]_(Abstract!vars)
  PROVE  OrderInv'
<1> HIDE DEF Phase
<1> USE DEF OrderInv
<1>1. Abstract!TypeOK'
  BY DEF Abstract!TypeOK, Abstract!Phases, Abstract!Next, Abstract!vars, Abstract!Start,
         Abstract!Skip, Abstract!Succeed, Abstract!Drop, Abstract!Abandon
<1>2. Abstract!ProducersDoneFirst'
  <2> SUFFICES ASSUME NEW t \in Outputs, Phase'[t] = "running",
                      NEW i \in Producers[t]
               PROVE  Phase'[i] = "done"
    BY DEF Abstract!ProducersDoneFirst, Producers
  <2>1. i \in Outputs
    BY DEF Producers
  <2>2. Phase[i] = "done"
    <3>1. CASE Phase[t] = "running"
      BY <3>1 DEF Abstract!ProducersDoneFirst
    <3>2. CASE Phase[t] # "running"
      <4>1. PICK u \in Outputs : Abstract!Start(u)
        BY <3>2 DEF Abstract!TypeOK, Abstract!Next, Abstract!vars, Abstract!Start,
                    Abstract!Skip, Abstract!Succeed, Abstract!Drop, Abstract!Abandon
      <4>2. u = t
        BY <4>1, <3>2 DEF Abstract!TypeOK, Abstract!Start
      <4> QED
        BY <4>1, <4>2 DEF Abstract!Start, Abstract!Ready
    <3> QED
      BY <3>1, <3>2
  <2> QED
    BY <2>1, <2>2, DoneStays
<1> QED
  BY <1>1, <1>2

(* Whatever implements OrderedUpdate, and by Refinement the thread pool of *)
(* src/update_plan.cpp does, runs a job only while every file it is made   *)
(* from is up to date, for as long as the job takes.                       *)
THEOREM JobsRunInOrder == Spec => []Abstract!ProducersDoneFirst
<1>1. Abstract!Init => OrderInv
  BY InitOrdered
<1>2. OrderInv /\ [Abstract!Next]_(Abstract!vars) => OrderInv'
  BY NextOrdered
<1>3. OrderInv => Abstract!ProducersDoneFirst
  BY DEF OrderInv
<1>4. Spec => Abstract!Spec
  BY Refinement DEF Implements
<1> QED
  BY <1>1, <1>2, <1>3, <1>4, PTL DEF Abstract!Spec
==============================================================================
