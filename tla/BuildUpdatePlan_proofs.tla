------------------------ MODULE BuildUpdatePlan_proofs ------------------------
(***************************************************************************)
(* The recursion of build_update_plan and the loops of erase compute the   *)
(* closed forms of UpdatePlan, for every update map.                       *)
(*                                                                         *)
(* While calls are on the stack, the plan is what it should be of the part *)
(* of each input list that has been gone through: the slots *visited* are  *)
(* those in front of where a call is, and all of a file whose call has     *)
(* returned. Everything is stated of the map m, the plan p and the calls s *)
(* as values.                                                              *)
(***************************************************************************)
EXTENDS BuildUpdatePlan, SequenceTheorems, FiniteSetTheorems, TLAPS

Maps == [Outputs -> Seq(Outputs \cup Sources)]
Call == [target : Outputs, next : Nat, inputCount : Nat]

(* The slots of d that name a file of S, among those of K.                 *)
Naming(m, d, K, S) == {k \in K : m[d][k] \in S}
AllSlots(m, d, S)  == Naming(m, d, DOMAIN m[d], S)

ClosedIn(m, S) == \A d \in S : \A k \in DOMAIN m[d] : m[d][k] \in Outputs => m[d][k] \in S

Within(m, targets, P) == \A S \in SUBSET Outputs : targets \subseteq S /\ ClosedIn(m, S) => P \subseteq S

Distinct(s) == \A i, j \in DOMAIN s : s[i] = s[j] => i = j
Members(s)  == {s[i] : i \in DOMAIN s}

(* How often d is among the first n of ds, and among all.                  *)
UpTo(ds, n, d)  == Cardinality({j \in 1..n : ds[j] = d})
Times(ds, d)    == UpTo(ds, Len(ds), d)

-----------------------------------------------------------------------------
OnStack(s) == {s[i].target : i \in DOMAIN s}

Visited(m, p, s, d) ==
  {k \in DOMAIN m[d] : d \in p.pending /\ \A i \in DOMAIN s : s[i].target = d => k < s[i].next}

IsPlan(p) ==
  p \in [pending : SUBSET Outputs, queue : Seq(Outputs), counts : {p.counts},
         descendants : [Outputs -> Seq(Outputs)], corrupted : {FALSE}]

(* Each call is at a place of its own file's inputs, and has counted those *)
(* in front that are generated.                                            *)
StackInv(m, p, s) ==
  /\ s \in Seq(Call) /\ OnStack(s) \subseteq p.pending
  /\ \A i, j \in DOMAIN s : s[i].target = s[j].target => i = j
  /\ \A i \in DOMAIN s :
       /\ s[i].next \in 1..(Len(m[s[i].target]) + 1)
       /\ s[i].inputCount = Cardinality(Naming(m, s[i].target, 1..(s[i].next - 1), Outputs))

(* What has been visited is pending; E is what is about to be.             *)
VisitedInv(m, p, s, E) ==
  \A d \in p.pending : \A k \in Visited(m, p, s, d) : m[d][k] \in Outputs => m[d][k] \in p.pending \cup E

DescendantsInv(m, p, s) ==
  \A i, d \in Outputs : Times(p.descendants[i], d) = Cardinality(Naming(m, d, Visited(m, p, s, d), {i}))

Returned(p, s) == p.pending \ OnStack(s)

CountsInv(m, p, s) ==
  p.counts = [d \in {t \in Returned(p, s) : AllSlots(m, t, Outputs) # {}} |->
                Cardinality(AllSlots(m, d, Outputs))]

QueueInv(m, p, s) ==
  /\ Distinct(p.queue)
  /\ Members(p.queue) = {t \in Returned(p, s) : AllSlots(m, t, Outputs) = {}}

PlannedInv(m, p, a, E) == a \subseteq p.pending \cup E /\ Within(m, a, p.pending \cup E)

BuildInv(m, p, s, a, E) ==
  /\ IsPlan(p) /\ StackInv(m, p, s) /\ VisitedInv(m, p, s, E) /\ DescendantsInv(m, p, s)
  /\ CountsInv(m, p, s) /\ QueueInv(m, p, s) /\ PlannedInv(m, p, a, E)

-----------------------------------------------------------------------------
(* What holds while the plan is used: P is what was planned.               *)
Behind(m, S) == \A d \in S : AllSlots(m, d, S) # {}

DrainInv(m, p, P) ==
  /\ IsPlan(p) /\ P \in SUBSET Outputs /\ p.pending \subseteq P
  /\ p.counts = [d \in {t \in P : AllSlots(m, t, Outputs) # {}} |-> Cardinality(AllSlots(m, d, p.pending))]
  /\ \A i, d \in Outputs :
       Times(p.descendants[i], d) = IF d \in P THEN Cardinality(AllSlots(m, d, {i})) ELSE 0
  /\ Distinct(p.queue)
  /\ Members(p.queue) = {t \in p.pending : AllSlots(m, t, p.pending) = {}}
  /\ \A t \in P \ p.pending : AllSlots(m, t, p.pending) = {}
  /\ \A S \in SUBSET P : Behind(m, S) => S \subseteq p.pending

IsPlanned(m, a, P) == a \subseteq P /\ P \in SUBSET Outputs /\ ClosedIn(m, P) /\ Within(m, a, P)

IInv ==
  /\ deps \in Maps /\ asked \in SUBSET Outputs
  /\ mode \in {"build", "drain"}
  /\ mode = "build" => BuildInv(deps, plan, stack, asked, {})
  /\ mode = "drain" => stack = <<>> /\ \E P : IsPlanned(deps, asked, P) /\ DrainInv(deps, plan, P)

-----------------------------------------------------------------------------
(* Slots are finitely many.                                                *)
LEMMA SlotsFinite ==
  ASSUME NEW m \in Maps, NEW d \in Outputs, NEW K \in SUBSET DOMAIN m[d], NEW S
  PROVE  /\ IsFiniteSet(Naming(m, d, K, S)) /\ Cardinality(Naming(m, d, K, S)) \in Nat
         /\ Cardinality(Naming(m, d, K, S)) = 0 <=> Naming(m, d, K, S) = {}
<1>1. m[d] \in Seq(Outputs \cup Sources)
  BY DEF Maps
<1>2. Len(m[d]) \in Nat /\ DOMAIN m[d] = 1..Len(m[d])
  BY <1>1
<1>3. IsFiniteSet(DOMAIN m[d])
  BY <1>2, FS_Interval
<1>4. Naming(m, d, K, S) \in SUBSET DOMAIN m[d]
  BY DEF Naming
<1>5. IsFiniteSet(Naming(m, d, K, S))
  BY <1>3, <1>4, FS_Subset
<1> QED BY <1>5, FS_CardinalityType, FS_EmptySet

(* One more slot.                                                          *)
LEMMA SlotAdded ==
  ASSUME NEW m \in Maps, NEW d \in Outputs, NEW K \in SUBSET DOMAIN m[d], NEW S,
         NEW k \in DOMAIN m[d] \ K
  PROVE  Cardinality(Naming(m, d, K \cup {k}, S)) =
           Cardinality(Naming(m, d, K, S)) + IF m[d][k] \in S THEN 1 ELSE 0
<1>1. IsFiniteSet(Naming(m, d, K, S)) /\ Cardinality(Naming(m, d, K, S)) \in Nat
  BY SlotsFinite
<1>2. k \notin Naming(m, d, K, S)
  BY DEF Naming
<1>3. CASE m[d][k] \in S
  <2>1. Naming(m, d, K \cup {k}, S) = Naming(m, d, K, S) \cup {k}
    BY <1>3 DEF Naming
  <2> QED BY <1>1, <1>2, <1>3, <2>1, FS_AddElement
<1>4. CASE m[d][k] \notin S
  <2>1. Naming(m, d, K \cup {k}, S) = Naming(m, d, K, S)
    BY <1>4 DEF Naming
  <2> QED BY <1>1, <1>4, <2>1
<1> QED BY <1>3, <1>4

(* Taking x away from the files takes its uses from the slots.             *)
LEMMA SlotsWithout ==
  ASSUME NEW m \in Maps, NEW d \in Outputs, NEW S, NEW x \in S
  PROVE  Cardinality(AllSlots(m, d, S)) =
           Cardinality(AllSlots(m, d, S \ {x})) + Cardinality(AllSlots(m, d, {x}))
<1> DEFINE A == AllSlots(m, d, S \ {x})
           B == AllSlots(m, d, {x})
<1>1. IsFiniteSet(A) /\ IsFiniteSet(B) /\ Cardinality(A) \in Nat /\ Cardinality(B) \in Nat
  BY SlotsFinite DEF AllSlots
<1>2. AllSlots(m, d, S) = A \cup B /\ A \cap B = {}
  BY DEF AllSlots, Naming
<1> HIDE DEF A, B
<1>3. Cardinality(A \cup B) = Cardinality(A) + Cardinality(B) - Cardinality(A \cap B)
  BY <1>1, FS_Union
<1>4. Cardinality(A \cap B) = 0
  BY <1>2, FS_EmptySet
<1>5. Cardinality(A \cup B) = Cardinality(A) + Cardinality(B)
  BY <1>1, <1>3, <1>4
<1> QED BY <1>2, <1>5 DEF A, B

(* Counting the first elements of a sequence, one by one.                  *)
LEMMA UpToNext ==
  ASSUME NEW ds, NEW n \in Nat, NEW d
  PROVE  /\ UpTo(ds, n, d) \in Nat /\ UpTo(ds, 0, d) = 0
         /\ ds[n + 1] = d => UpTo(ds, n + 1, d) = UpTo(ds, n, d) + 1
         /\ ds[n + 1] # d => UpTo(ds, n + 1, d) = UpTo(ds, n, d)
<1> DEFINE A == {j \in 1..n : ds[j] = d}
           B == {j \in 1..(n + 1) : ds[j] = d}
<1>1. IsFiniteSet(A)
  <2>1. IsFiniteSet(1..n) /\ A \in SUBSET (1..n)
    BY FS_Interval
  <2> QED BY <2>1, FS_Subset
<1>2. Cardinality(A) \in Nat
  BY <1>1, FS_CardinalityType
<1>3. n + 1 \notin A
  OBVIOUS
<1>4. B = IF ds[n + 1] = d THEN A \cup {n + 1} ELSE A
  <2>1. 1..(n + 1) = 1..n \cup {n + 1}
    OBVIOUS
  <2> QED BY <2>1
<1>5. {j \in 1..0 : ds[j] = d} = {}
  OBVIOUS
<1>6. UpTo(ds, 0, d) = 0
  BY <1>5, FS_EmptySet DEF UpTo
<1>7. UpTo(ds, n, d) = Cardinality(A) /\ UpTo(ds, n + 1, d) = Cardinality(B)
  BY DEF UpTo
<1> HIDE DEF A, B
<1>8. Cardinality(B) = Cardinality(A) + IF ds[n + 1] = d THEN 1 ELSE 0
  BY <1>1, <1>2, <1>3, <1>4, FS_AddElement
<1> QED BY <1>2, <1>6, <1>7, <1>8

(* Counting in a sequence with one more element.                           *)
LEMMA TimesAppended ==
  ASSUME NEW T, NEW ds \in Seq(T), NEW x \in T, NEW d
  PROVE  /\ Times(ds, d) \in Nat
         /\ Times(Append(ds, x), d) = Times(ds, d) + IF x = d THEN 1 ELSE 0
<1>1. /\ Len(ds) \in Nat /\ Len(Append(ds, x)) = Len(ds) + 1
      /\ Append(ds, x)[Len(ds) + 1] = x
      /\ \A j \in 1..Len(ds) : Append(ds, x)[j] = ds[j]
  OBVIOUS
<1>2. {j \in 1..Len(ds) : Append(ds, x)[j] = d} = {j \in 1..Len(ds) : ds[j] = d}
  BY <1>1
<1>3. UpTo(Append(ds, x), Len(ds), d) = UpTo(ds, Len(ds), d)
  BY <1>2 DEF UpTo
<1>4. UpTo(ds, Len(ds), d) \in Nat
  BY <1>1, UpToNext
<1>5. UpTo(Append(ds, x), Len(ds) + 1, d) =
        UpTo(Append(ds, x), Len(ds), d) + IF Append(ds, x)[Len(ds) + 1] = d THEN 1 ELSE 0
  <2> DEFINE es == Append(ds, x)
             n  == Len(ds)
  <2>1. n \in Nat
    BY <1>1
  <2> HIDE DEF es, n
  <2>2. es[n + 1] = d => UpTo(es, n + 1, d) = UpTo(es, n, d) + 1
    BY <2>1, UpToNext
  <2>3. es[n + 1] # d => UpTo(es, n + 1, d) = UpTo(es, n, d)
    BY <2>1, UpToNext
  <2>4. UpTo(es, n, d) \in Nat
    BY <2>1, UpToNext
  <2> QED BY <2>2, <2>3, <2>4 DEF es, n
<1> QED BY <1>1, <1>3, <1>4, <1>5 DEF Times

(* Appending what a sequence does not have yet.                            *)
LEMMA AppendedMembers ==
  ASSUME NEW T, NEW q \in Seq(T), NEW x \in T
  PROVE  /\ Append(q, x) \in Seq(T) /\ Members(Append(q, x)) = Members(q) \cup {x}
         /\ Distinct(q) /\ x \notin Members(q) => Distinct(Append(q, x))
<1>1. /\ Len(q) \in Nat /\ DOMAIN q = 1..Len(q)
      /\ Append(q, x) \in Seq(T) /\ DOMAIN Append(q, x) = 1..(Len(q) + 1)
      /\ Append(q, x)[Len(q) + 1] = x
      /\ \A j \in 1..Len(q) : Append(q, x)[j] = q[j]
  OBVIOUS
<1>2. \A j \in 1..(Len(q) + 1) : j \in 1..Len(q) \/ j = Len(q) + 1
  BY <1>1
<1>3. \A j \in 1..Len(q) : j \in 1..(Len(q) + 1)
  BY <1>1
<1>4. Len(q) + 1 \in 1..(Len(q) + 1)
  BY <1>1
<1>5. Members(Append(q, x)) = Members(q) \cup {x}
  BY <1>1, <1>2, <1>3, <1>4 DEF Members
<1>6. ASSUME Distinct(q), x \notin Members(q) PROVE Distinct(Append(q, x))
  BY <1>1, <1>2, <1>6 DEF Distinct, Members
<1> QED BY <1>1, <1>5, <1>6

(* The first of a queue that repeats nothing.                              *)
LEMMA Popped ==
  ASSUME NEW T, NEW q \in Seq(T), q # <<>>, Distinct(q)
  PROVE  /\ Head(q) \in T /\ Head(q) \in Members(q) /\ Tail(q) \in Seq(T)
         /\ Distinct(Tail(q)) /\ Members(Tail(q)) = Members(q) \ {Head(q)}
<1>1. /\ Len(q) \in Nat \ {0} /\ DOMAIN q = 1..Len(q)
      /\ Head(q) = q[1] /\ q[1] \in T
      /\ Tail(q) \in Seq(T) /\ DOMAIN Tail(q) = 1..(Len(q) - 1)
      /\ \A k \in 1..(Len(q) - 1) : Tail(q)[k] = q[k + 1]
  OBVIOUS
<1>2. 1 \in DOMAIN q
  BY <1>1
<1>3. \A k \in 1..(Len(q) - 1) : k + 1 \in DOMAIN q /\ k + 1 # 1
  BY <1>1
<1>4. \A k \in DOMAIN q : k = 1 \/ (k - 1 \in 1..(Len(q) - 1) /\ Tail(q)[k - 1] = q[k])
  BY <1>1
<1>5. Members(Tail(q)) = Members(q) \ {Head(q)}
  <2>1. \A k \in 1..(Len(q) - 1) : Tail(q)[k] # Head(q) /\ Tail(q)[k] \in Members(q)
    BY <1>1, <1>2, <1>3 DEF Members, Distinct
  <2>2. \A k \in DOMAIN q : q[k] = Head(q) \/ q[k] \in Members(Tail(q))
    BY <1>1, <1>4 DEF Members
  <2>3. Members(Tail(q)) \subseteq Members(q) \ {Head(q)}
    BY <1>1, <2>1 DEF Members
  <2>4. Members(q) \ {Head(q)} \subseteq Members(Tail(q))
    BY <2>2 DEF Members
  <2> QED BY <2>3, <2>4
<1>6. Distinct(Tail(q))
  BY <1>1, <1>3 DEF Distinct
<1> QED BY <1>1, <1>2, <1>5, <1>6 DEF Members

(* UpdatePlan counts with the same operator.                               *)
LEMMA SameCardinality == ASSUME NEW S PROVE Reference!Cardinality(S) = Cardinality(S)
BY DEF Reference!Cardinality, Cardinality

(* A sequence that has each member of S once is an ordering of S.          *)
LEMMA OrderingOf ==
  ASSUME NEW T, NEW s \in Seq(T), Distinct(s)
  PROVE  s \in Reference!Orderings(Members(s))
<1>1. Len(s) \in Nat /\ DOMAIN s = 1..Len(s) /\ s \in [1..Len(s) -> Members(s)]
  BY DEF Members
<1>2. s \in Bijection(1..Len(s), Members(s))
  BY <1>1 DEF Distinct, Members, Bijection, Injection, Surjection, IsInjective
<1>3. ExistsBijection(1..Len(s), Members(s))
  BY <1>2 DEF ExistsBijection
<1>4. Cardinality(Members(s)) = Len(s)
  BY <1>1, <1>3, FS_CountingElements
<1>5. \A j, k \in 1..Len(s) : s[j] = s[k] => j = k
  BY <1>1 DEF Distinct
<1>6. s \in [1..Cardinality(Members(s)) -> Members(s)]
  BY <1>1, <1>4, Zenon
<1>7. \A j, k \in 1..Cardinality(Members(s)) : s[j] = s[k] => j = k
  BY <1>4, <1>5
<1> QED BY <1>6, <1>7, SameCardinality, Zenon DEF Reference!Orderings
-----------------------------------------------------------------------------
(* What has been visited: all of a file that returned, what is in front of *)
(* where its call is of one that did not, and nothing of any other.        *)
LEMMA VisitedIs ==
  ASSUME NEW m \in Maps, NEW p, NEW s, StackInv(m, p, s), NEW d \in Outputs
  PROVE  /\ Visited(m, p, s, d) \in SUBSET DOMAIN m[d]
         /\ d \notin p.pending => Visited(m, p, s, d) = {}
         /\ d \in Returned(p, s) => Visited(m, p, s, d) = DOMAIN m[d]
         /\ \A i \in DOMAIN s : s[i].target = d => Visited(m, p, s, d) = 1..(s[i].next - 1)
<1>1. DOMAIN m[d] = 1..Len(m[d]) /\ Len(m[d]) \in Nat
  BY DEF Maps
<1>2. d \in Returned(p, s) => Visited(m, p, s, d) = DOMAIN m[d]
  BY DEF Visited, Returned, OnStack
<1>3. ASSUME NEW i \in DOMAIN s, s[i].target = d PROVE Visited(m, p, s, d) = 1..(s[i].next - 1)
  <2>1. s[i].next \in 1..(Len(m[d]) + 1) /\ d \in p.pending
    BY <1>3 DEF StackInv, OnStack
  <2>2. \A j \in DOMAIN s : s[j].target = d => j = i
    BY <1>3 DEF StackInv
  <2>3. Visited(m, p, s, d) = {k \in DOMAIN m[d] : k < s[i].next}
    BY <1>3, <2>1, <2>2 DEF Visited
  <2> QED BY <1>1, <2>1, <2>3
<1> QED BY <1>2, <1>3 DEF Visited

(* A call for a file that is not in the plan yet begins.                   *)
LEMMA EnterNew ==
  ASSUME NEW m \in Maps, NEW p, NEW s, NEW a \in SUBSET Outputs, NEW t \in Outputs,
         BuildInv(m, p, s, a, {t}), t \notin p.pending
  PROVE  BuildInv(m, [p EXCEPT !.pending = @ \cup {t}],
                  Append(s, [target |-> t, next |-> 1, inputCount |-> 0]), a, {})
<1> DEFINE call == [target |-> t, next |-> 1, inputCount |-> 0]
           q == [p EXCEPT !.pending = @ \cup {t}]
           c == Append(s, call)
<1>1. /\ q.pending = p.pending \cup {t} /\ q.queue = p.queue /\ q.counts = p.counts
      /\ q.descendants = p.descendants /\ IsPlan(q)
  <2>1. IsPlan(p)
    BY DEF BuildInv
  <2> QED BY <2>1 DEF IsPlan
<1>2. /\ s \in Seq(Call) /\ Len(s) \in Nat /\ DOMAIN s = 1..Len(s) /\ call \in Call
      /\ c \in Seq(Call) /\ DOMAIN c = 1..(Len(s) + 1)
      /\ c[Len(s) + 1] = call /\ \A i \in DOMAIN s : c[i] = s[i]
  BY DEF BuildInv, StackInv, Call
<1>3. \A i \in DOMAIN c : i \in DOMAIN s \/ i = Len(s) + 1
  BY <1>2
<1>4. DOMAIN s \subseteq DOMAIN c /\ Len(s) + 1 \in DOMAIN c
  BY <1>2
<1> HIDE DEF q, c
<1>5. OnStack(c) = OnStack(s) \cup {t} /\ t \notin OnStack(s)
  <2>1. OnStack(s) \subseteq p.pending
    BY DEF BuildInv, StackInv
  <2> QED BY <1>2, <1>3, <1>4, <2>1 DEF OnStack
<1>6. StackInv(m, q, c)
  <2>1. OnStack(c) \subseteq q.pending
    BY <1>1, <1>5 DEF BuildInv, StackInv
  <2>2. \A i, j \in DOMAIN c : c[i].target = c[j].target => i = j
    BY <1>2, <1>3, <1>5 DEF BuildInv, StackInv, OnStack
  <2>3. ASSUME NEW i \in DOMAIN c
        PROVE  /\ c[i].next \in 1..(Len(m[c[i].target]) + 1)
               /\ c[i].inputCount = Cardinality(Naming(m, c[i].target, 1..(c[i].next - 1), Outputs))
    <3>1. CASE i \in DOMAIN s
      BY <1>2, <3>1 DEF BuildInv, StackInv
    <3>2. CASE i = Len(s) + 1
      <4>1. Len(m[t]) \in Nat
        BY DEF Maps
      <4>2. 1..(1 - 1) = {}
        OBVIOUS
      <4>3. Naming(m, t, 1..(1 - 1), Outputs) = {}
        BY <4>2 DEF Naming
      <4>4. Cardinality(Naming(m, t, 1..(1 - 1), Outputs)) = 0
        BY <4>3, FS_EmptySet
      <4>5. c[i].target = t /\ c[i].next = 1 /\ c[i].inputCount = 0
        BY <1>2, <3>2
      <4>6. 1 \in 1..(Len(m[t]) + 1)
        BY <4>1
      <4> QED BY <4>4, <4>5, <4>6
    <3> QED BY <1>3, <3>1, <3>2
  <2> QED BY <1>2, <2>1, <2>2, <2>3 DEF StackInv
<1>7. Returned(q, c) = Returned(p, s)
  BY <1>1, <1>5 DEF Returned
<1>8. \A d \in Outputs : Visited(m, q, c, d) = Visited(m, p, s, d)
  <2> SUFFICES ASSUME NEW d \in Outputs PROVE Visited(m, q, c, d) = Visited(m, p, s, d)
    OBVIOUS
  <2>1. CASE d = t
    <3>1. Visited(m, p, s, d) = {}
      BY <2>1 DEF Visited
    <3>2. c[Len(s) + 1].target = d /\ c[Len(s) + 1].next = 1
      BY <1>2, <2>1
    <3>3. Visited(m, q, c, d) = 1..(1 - 1)
      BY <1>4, <1>6, <3>2, VisitedIs
    <3> QED BY <3>1, <3>3
  <2>2. CASE d # t
    <3>1. d \in q.pending <=> d \in p.pending
      BY <1>1, <2>2
    <3>2. ASSUME NEW k PROVE (\A i \in DOMAIN c : c[i].target = d => k < c[i].next)
                             <=> (\A i \in DOMAIN s : s[i].target = d => k < s[i].next)
      BY <1>2, <1>3, <1>4, <2>2
    <3> QED BY <3>1, <3>2 DEF Visited
  <2> QED BY <2>1, <2>2
<1>9. VisitedInv(m, q, c, {})
  <2>1. q.pending \subseteq Outputs
    BY <1>1 DEF IsPlan
  <2>2. ASSUME NEW d \in q.pending, NEW k \in Visited(m, q, c, d), m[d][k] \in Outputs
        PROVE  m[d][k] \in q.pending
    <3>1. d \in p.pending /\ k \in Visited(m, p, s, d)
      BY <1>8, <2>1, <2>2 DEF Visited
    <3> QED BY <1>1, <2>2, <3>1 DEF BuildInv, VisitedInv
  <2> QED BY <2>2 DEF VisitedInv
<1>10. DescendantsInv(m, q, c)
  BY <1>1, <1>8 DEF BuildInv, DescendantsInv
<1>11. CountsInv(m, q, c) /\ QueueInv(m, q, c)
  BY <1>1, <1>7 DEF BuildInv, CountsInv, QueueInv
<1>12. PlannedInv(m, q, a, {})
  BY <1>1 DEF BuildInv, PlannedInv
<1> QED BY <1>1, <1>6, <1>9, <1>10, <1>11, <1>12 DEF BuildInv, q, c

(* A call for a file that is in the plan returns at once.                  *)
LEMMA EnterPending ==
  ASSUME NEW m, NEW p, NEW s, NEW a, NEW t, BuildInv(m, p, s, a, {t}), t \in p.pending
  PROVE  BuildInv(m, p, s, a, {})
<1>1. p.pending \cup {t} = p.pending /\ p.pending \cup {} = p.pending
  OBVIOUS
<1>2. VisitedInv(m, p, s, {}) /\ PlannedInv(m, p, a, {})
  BY <1>1 DEF BuildInv, VisitedInv, PlannedInv
<1> QED BY <1>2 DEF BuildInv

(* A target is asked for.                                                  *)
LEMMA Asked ==
  ASSUME NEW m \in Maps, NEW p, NEW a, NEW t \in Outputs, BuildInv(m, p, <<>>, a, {})
  PROVE  BuildInv(m, p, <<>>, a \cup {t}, {t})
<1>1. VisitedInv(m, p, <<>>, {t})
  BY DEF BuildInv, VisitedInv
<1>2. PlannedInv(m, p, a \cup {t}, {t})
  BY DEF BuildInv, PlannedInv, Within
<1> QED BY <1>1, <1>2 DEF BuildInv

(* The plan of nothing.                                                    *)
LEMMA NothingPlanned ==
  ASSUME NEW m \in Maps
  PROVE  BuildInv(m, EmptyPlan, <<>>, {}, {})
<1>1. IsPlan(EmptyPlan)
  BY DEF IsPlan, EmptyPlan
<1>2. OnStack(<<>>) = {} /\ Returned(EmptyPlan, <<>>) = {}
  BY DEF OnStack, Returned, EmptyPlan
<1>3. StackInv(m, EmptyPlan, <<>>)
  BY <1>2 DEF StackInv, Call
<1>4. VisitedInv(m, EmptyPlan, <<>>, {}) /\ PlannedInv(m, EmptyPlan, {}, {})
  BY DEF VisitedInv, PlannedInv, Within, EmptyPlan
<1>5. DescendantsInv(m, EmptyPlan, <<>>)
  <2> SUFFICES ASSUME NEW i \in Outputs, NEW d \in Outputs
               PROVE  Times(EmptyPlan.descendants[i], d)
                        = Cardinality(Naming(m, d, Visited(m, EmptyPlan, <<>>, d), {i}))
    BY DEF DescendantsInv
  <2>1. Times(EmptyPlan.descendants[i], d) = 0
    <3>1. EmptyPlan.descendants[i] = <<>> /\ Len(<<>>) = 0
      BY DEF EmptyPlan
    <3> QED BY <3>1, UpToNext DEF Times
  <2>2. Naming(m, d, Visited(m, EmptyPlan, <<>>, d), {i}) = {}
    BY DEF Naming, Visited, EmptyPlan
  <2> QED BY <2>1, <2>2, FS_EmptySet
<1>6. CountsInv(m, EmptyPlan, <<>>)
  <2>1. {t \in Returned(EmptyPlan, <<>>) : AllSlots(m, t, Outputs) # {}} = {}
    BY <1>2
  <2> QED BY <2>1 DEF CountsInv, EmptyPlan
<1>7. QueueInv(m, EmptyPlan, <<>>)
  <2>1. {t \in Returned(EmptyPlan, <<>>) : AllSlots(m, t, Outputs) = {}} = {}
    BY <1>2
  <2>2. EmptyPlan.queue = <<>> /\ DOMAIN <<>> = {}
    BY DEF EmptyPlan
  <2>3. Distinct(<<>>) /\ Members(<<>>) = {}
    BY <2>2 DEF Distinct, Members
  <2> QED BY <2>1, <2>2, <2>3 DEF QueueInv
<1> QED BY <1>1, <1>3, <1>4, <1>5, <1>6, <1>7 DEF BuildInv
-----------------------------------------------------------------------------
(* The call on top of the stack, counting what it is at or not.            *)
GoneOn(s, n, counted) ==
  [s EXCEPT ![n].next = @ + 1, ![n].inputCount = @ + counted]

WentOn(m, p, s, t, k, c) ==
  /\ t \in Outputs /\ t \in p.pending /\ k \in DOMAIN m[t]
  /\ StackInv(m, p, c) /\ OnStack(c) = OnStack(s)
  /\ k \notin Visited(m, p, s, t) /\ Visited(m, p, c, t) = Visited(m, p, s, t) \cup {k}
  /\ \A d \in Outputs \ {t} : Visited(m, p, c, d) = Visited(m, p, s, d)

(* The call on top of the stack goes one slot further.                     *)
LEMMA GoingOn ==
  ASSUME NEW m \in Maps, NEW p, p.pending \in SUBSET Outputs, NEW s, StackInv(m, p, s),
         s # <<>>, NEW t, NEW k, t = s[Len(s)].target, k = s[Len(s)].next, k <= Len(m[t]),
         NEW c, c = GoneOn(s, Len(s), Counting(m[t][k]))
  PROVE  WentOn(m, p, s, t, k, c)
<1> DEFINE n == Len(s)
           u == Counting(m[t][k])
<1>1. n \in Nat \ {0} /\ DOMAIN s = 1..n /\ n \in DOMAIN s /\ s \in [1..n -> Call]
  BY DEF StackInv
<1>2. s[n] \in Call /\ s[n].target = t /\ s[n].next = k
  BY <1>1
<1>3. t \in Outputs /\ t \in p.pending /\ k \in 1..(Len(m[t]) + 1)
  BY <1>1, <1>2 DEF StackInv, OnStack
<1>4. Len(m[t]) \in Nat /\ DOMAIN m[t] = 1..Len(m[t])
  BY <1>3 DEF Maps
<1>5. k \in DOMAIN m[t] /\ k \in Nat \ {0}
  BY <1>3, <1>4
<1>6. u \in {0, 1}
  BY DEF Counting
<1> HIDE DEF u
<1>7. c = GoneOn(s, n, u)
  BY DEF u
<1>8. s[n].next \in Nat /\ s[n].inputCount \in Nat
  BY <1>2 DEF Call
<1>9. /\ DOMAIN c = 1..n /\ c[n] = [target |-> t, next |-> k + 1, inputCount |-> s[n].inputCount + u]
      /\ \A i \in 1..n : i # n => c[i] = s[i]
  BY <1>1, <1>2, <1>7 DEF GoneOn, Call
<1>10. c \in Seq(Call) /\ Len(c) = n
  <2>1. c[n] \in Call
    BY <1>3, <1>6, <1>8, <1>9, <1>5 DEF Call
  <2>2. \A i \in 1..n : c[i] \in Call
    BY <1>1, <1>9, <2>1
  <2>3. c = [i \in 1..n |-> c[i]]
    BY <1>1, <1>7 DEF GoneOn
  <2>4. c \in [1..n -> Call]
    BY <2>2, <2>3
  <2>5. c \in Seq(Call)
    BY <1>1, <2>4, SeqDef
  <2>6. Len(c) \in Nat /\ DOMAIN c = 1..Len(c)
    BY <2>5
  <2>7. Len(c) = n
    <3> HIDE DEF n
    <3> QED BY <1>1, <1>9, <2>6
  <2> QED BY <2>5, <2>7
<1>11. \A i \in 1..n : c[i].target = s[i].target
  BY <1>1, <1>2, <1>9
<1> HIDE DEF n
<1>12. OnStack(c) = OnStack(s)
  <2>1. DOMAIN c = DOMAIN s /\ \A i \in DOMAIN s : c[i].target = s[i].target
    BY <1>1, <1>9, <1>11
  <2> QED BY <2>1 DEF OnStack
<1>13. Visited(m, p, s, t) = 1..(k - 1)
  BY <1>1, <1>2, <1>3, VisitedIs
<1>14. StackInv(m, p, c)
  <2>1. c[n].inputCount = Cardinality(Naming(m, t, 1..((k + 1) - 1), Outputs))
    <3>1. 1..((k + 1) - 1) = 1..(k - 1) \cup {k} /\ k \notin 1..(k - 1) /\ 1..(k - 1) \subseteq DOMAIN m[t]
      BY <1>4, <1>5
    <3>2. s[n].inputCount = Cardinality(Naming(m, t, 1..(k - 1), Outputs))
      BY <1>1, <1>2 DEF StackInv
    <3>3. Cardinality(Naming(m, t, 1..(k - 1) \cup {k}, Outputs))
            = Cardinality(Naming(m, t, 1..(k - 1), Outputs)) + IF m[t][k] \in Outputs THEN 1 ELSE 0
      <4> DEFINE K == 1..(k - 1)
      <4>1. K \in SUBSET DOMAIN m[t] /\ k \in DOMAIN m[t] \ K
        BY <1>5, <3>1
      <4> HIDE DEF K
      <4>2. Cardinality(Naming(m, t, K \cup {k}, Outputs))
              = Cardinality(Naming(m, t, K, Outputs)) + IF m[t][k] \in Outputs THEN 1 ELSE 0
        BY <1>3, <4>1, SlotAdded
      <4> QED BY <4>2 DEF K
    <3>4. c[n].inputCount = s[n].inputCount + IF m[t][k] \in Outputs THEN 1 ELSE 0
      BY <1>9 DEF u, Counting
    <3> QED BY <3>1, <3>2, <3>3, <3>4
  <2>2. c[n].target = t /\ c[n].next = k + 1 /\ k + 1 \in 1..(Len(m[t]) + 1)
    BY <1>4, <1>5, <1>9
  <2>3. ASSUME NEW i \in DOMAIN c
        PROVE  /\ c[i].next \in 1..(Len(m[c[i].target]) + 1)
               /\ c[i].inputCount = Cardinality(Naming(m, c[i].target, 1..(c[i].next - 1), Outputs))
    <3>1. CASE i = n
      BY <2>1, <2>2, <3>1
    <3>2. CASE i # n
      <4>1. c[i] = s[i] /\ i \in DOMAIN s
        BY <1>1, <1>9, <3>2
      <4> QED BY <4>1 DEF StackInv
    <3> QED BY <3>1, <3>2
  <2>4. \A i, j \in DOMAIN c : c[i].target = c[j].target => i = j
    <3>1. DOMAIN c = DOMAIN s /\ \A i \in DOMAIN s : c[i].target = s[i].target
      BY <1>1, <1>9, <1>11
    <3>2. \A i, j \in DOMAIN s : s[i].target = s[j].target => i = j
      BY DEF StackInv
    <3> SUFFICES ASSUME NEW i \in DOMAIN c, NEW j \in DOMAIN c, c[i].target = c[j].target
                 PROVE  i = j
      OBVIOUS
    <3>3. i \in DOMAIN s /\ j \in DOMAIN s /\ s[i].target = s[j].target
      BY <3>1
    <3> QED BY <3>2, <3>3
  <2>5. OnStack(c) \subseteq p.pending
    BY <1>12 DEF StackInv
  <2> QED BY <1>10, <2>3, <2>4, <2>5 DEF StackInv
<1>15. Visited(m, p, c, t) = 1..(k - 1) \cup {k}
  <2>1. n \in DOMAIN c /\ c[n].target = t /\ c[n].next = k + 1
    BY <1>1, <1>9
  <2>2. Visited(m, p, c, t) = 1..((k + 1) - 1)
    BY <1>3, <1>14, <2>1, VisitedIs
  <2> QED BY <1>5, <2>2
<1>16. k \notin 1..(k - 1)
  BY <1>5
<1>17. ASSUME NEW d \in Outputs \ {t} PROVE Visited(m, p, c, d) = Visited(m, p, s, d)
  <2>1. ASSUME NEW j PROVE (\A i \in DOMAIN c : c[i].target = d => j < c[i].next)
                           <=> (\A i \in DOMAIN s : s[i].target = d => j < s[i].next)
    <3>1. DOMAIN c = DOMAIN s /\ \A i \in DOMAIN s : c[i].target = s[i].target
      BY <1>1, <1>9, <1>11
    <3>2. \A i \in DOMAIN s : s[i].target = d => c[i] = s[i]
      BY <1>1, <1>2, <1>9
    <3> QED BY <3>1, <3>2
  <2> QED BY <2>1 DEF Visited
<1> QED BY <1>3, <1>5, <1>12, <1>13, <1>14, <1>15, <1>16, <1>17 DEF WentOn

(* A source file counts for nothing.                                       *)
LEMMA VisitedSource ==
  ASSUME NEW m \in Maps, NEW p, NEW s, NEW a, BuildInv(m, p, s, a, {}), s # <<>>,
         NEW t, NEW k, t = s[Len(s)].target, k = s[Len(s)].next, k <= Len(m[t]),
         NEW c, c = GoneOn(s, Len(s), Counting(m[t][k])), m[t][k] \notin Outputs
  PROVE  BuildInv(m, p, c, a, {})
<1>1. IsPlan(p) /\ p.pending \in SUBSET Outputs /\ StackInv(m, p, s)
  BY DEF BuildInv, IsPlan
<1>2. /\ t \in Outputs /\ t \in p.pending /\ k \in DOMAIN m[t]
      /\ StackInv(m, p, c) /\ OnStack(c) = OnStack(s)
      /\ k \notin Visited(m, p, s, t) /\ Visited(m, p, c, t) = Visited(m, p, s, t) \cup {k}
      /\ \A d \in Outputs \ {t} : Visited(m, p, c, d) = Visited(m, p, s, d)
  <2>1. WentOn(m, p, s, t, k, c)
    BY <1>1, GoingOn, Zenon
  <2> QED BY <2>1, Zenon DEF WentOn
<1>3. VisitedInv(m, p, c, {})
  BY <1>1, <1>2 DEF BuildInv, VisitedInv
<1>4. DescendantsInv(m, p, c)
  <2> SUFFICES ASSUME NEW i \in Outputs, NEW d \in Outputs
               PROVE  Naming(m, d, Visited(m, p, c, d), {i}) = Naming(m, d, Visited(m, p, s, d), {i})
    BY DEF BuildInv, DescendantsInv
  <2> QED BY <1>2 DEF Naming
<1>5. CountsInv(m, p, c) /\ QueueInv(m, p, c)
  BY <1>2 DEF BuildInv, CountsInv, QueueInv, Returned
<1> QED BY <1>1, <1>2, <1>3, <1>4, <1>5 DEF BuildInv

(* A generated file has one descendant more, and is about to be entered.   *)
LEMMA VisitedOutput ==
  ASSUME NEW m \in Maps, NEW p, NEW s, NEW a \in SUBSET Outputs, BuildInv(m, p, s, a, {}), s # <<>>,
         NEW t, NEW k, t = s[Len(s)].target, k = s[Len(s)].next, k <= Len(m[t]),
         NEW c, c = GoneOn(s, Len(s), Counting(m[t][k])), m[t][k] \in Outputs
  PROVE  BuildInv(m, WithDescendant(p, m[t][k], t), c, a, {m[t][k]})
<1> DEFINE input == m[t][k]
           q == WithDescendant(p, input, t)
<1>1. IsPlan(p) /\ p.pending \in SUBSET Outputs /\ StackInv(m, p, s)
  BY DEF BuildInv, IsPlan
<1>2. /\ t \in Outputs /\ t \in p.pending /\ k \in DOMAIN m[t]
      /\ StackInv(m, p, c) /\ OnStack(c) = OnStack(s)
      /\ k \notin Visited(m, p, s, t) /\ Visited(m, p, c, t) = Visited(m, p, s, t) \cup {k}
      /\ \A d \in Outputs \ {t} : Visited(m, p, c, d) = Visited(m, p, s, d)
  <2>1. WentOn(m, p, s, t, k, c)
    BY <1>1, GoingOn, Zenon
  <2> QED BY <2>1, Zenon DEF WentOn
<1> HIDE DEF input
<1>3. input \in Outputs
  BY DEF input
<1>4. /\ IsPlan(q) /\ q.pending = p.pending /\ q.queue = p.queue /\ q.counts = p.counts
      /\ p.descendants[input] \in Seq(Outputs)
      /\ q.descendants[input] = Append(p.descendants[input], t)
      /\ \A i \in Outputs \ {input} : q.descendants[i] = p.descendants[i]
  <2>1. p.descendants \in [Outputs -> Seq(Outputs)]
    BY <1>1 DEF IsPlan
  <2>2. q = [p EXCEPT !.descendants = [p.descendants EXCEPT ![input] = Append(@, t)]]
    BY DEF WithDescendant
  <2>3. Append(p.descendants[input], t) \in Seq(Outputs)
    BY <1>2, <1>3, <2>1
  <2>4. [p.descendants EXCEPT ![input] = Append(@, t)] \in [Outputs -> Seq(Outputs)]
    BY <1>3, <2>1, <2>3
  <2> HIDE DEF q
  <2> QED BY <1>1, <1>3, <2>1, <2>2, <2>4 DEF IsPlan
<1> HIDE DEF q
<1>5. \A d : Visited(m, q, c, d) = Visited(m, p, c, d)
  BY <1>4 DEF Visited
<1>6. StackInv(m, q, c)
  BY <1>2, <1>4 DEF StackInv
<1>7. VisitedInv(m, q, c, {input})
  <2> SUFFICES ASSUME NEW d \in p.pending, NEW j \in Visited(m, p, c, d), m[d][j] \in Outputs
               PROVE  m[d][j] \in p.pending \cup {input}
    BY <1>4, <1>5 DEF VisitedInv
  <2>1. CASE j \in Visited(m, p, s, d)
    BY <2>1 DEF BuildInv, VisitedInv
  <2>2. CASE j \notin Visited(m, p, s, d)
    BY <1>1, <1>2, <2>2 DEF input
  <2> QED BY <2>1, <2>2
<1>8. DescendantsInv(m, q, c)
  <2> SUFFICES ASSUME NEW i \in Outputs, NEW d \in Outputs
               PROVE  Times(q.descendants[i], d) = Cardinality(Naming(m, d, Visited(m, p, c, d), {i}))
    BY <1>5 DEF DescendantsInv
  <2>1. Times(p.descendants[i], d) = Cardinality(Naming(m, d, Visited(m, p, s, d), {i}))
    BY DEF BuildInv, DescendantsInv
  <2>2. CASE d = t /\ i = input
    <3>1. Visited(m, p, s, t) \in SUBSET DOMAIN m[t] /\ k \in DOMAIN m[t] \ Visited(m, p, s, t)
      BY <1>1, <1>2, VisitedIs
    <3>2. Cardinality(Naming(m, t, Visited(m, p, s, t) \cup {k}, {i}))
            = Cardinality(Naming(m, t, Visited(m, p, s, t), {i})) + IF m[t][k] \in {i} THEN 1 ELSE 0
      BY <1>2, <3>1, SlotAdded
    <3>3. m[t][k] \in {i}
      BY <2>2 DEF input
    <3>4. Times(Append(p.descendants[input], t), t) = Times(p.descendants[input], t) + 1
      BY <1>2, <1>4, TimesAppended
    <3> QED BY <1>2, <1>4, <2>1, <2>2, <3>2, <3>3, <3>4
  <2>3. CASE d # t \/ i # input
    <3>1. Naming(m, d, Visited(m, p, c, d), {i}) = Naming(m, d, Visited(m, p, s, d), {i})
      BY <1>2, <2>3 DEF Naming, input
    <3>2. Times(q.descendants[i], d) = Times(p.descendants[i], d)
      <4>1. CASE i # input
        BY <1>4, <4>1
      <4>2. CASE i = input /\ d # t
        <5> DEFINE ds == p.descendants[input]
        <5>1. ds \in Seq(Outputs) /\ t \in Outputs
          BY <1>2, <1>4
        <5> HIDE DEF ds
        <5>2. Times(ds, d) \in Nat /\ Times(Append(ds, t), d) = Times(ds, d) + IF t = d THEN 1 ELSE 0
          BY <5>1, TimesAppended
        <5>3. Times(Append(ds, t), d) = Times(ds, d)
          BY <4>2, <5>2
        <5>4. Times(q.descendants[input], d) = Times(Append(ds, t), d)
          BY <1>4 DEF ds
        <5> QED BY <4>2, <5>3, <5>4 DEF ds
      <4> QED BY <2>3, <4>1, <4>2
    <3> QED BY <2>1, <3>1, <3>2
  <2> QED BY <2>2, <2>3
<1>9. CountsInv(m, q, c) /\ QueueInv(m, q, c)
  BY <1>2, <1>4 DEF BuildInv, CountsInv, QueueInv, Returned
<1>10. PlannedInv(m, q, a, {input})
  <2>1. ASSUME NEW S \in SUBSET Outputs, a \subseteq S, ClosedIn(m, S)
        PROVE  p.pending \cup {input} \subseteq S
    <3>1. p.pending \subseteq S
      BY <2>1 DEF BuildInv, PlannedInv, Within
    <3>2. m[t][k] \in Outputs => m[t][k] \in S
      BY <1>2, <2>1, <3>1 DEF ClosedIn
    <3> QED BY <1>3, <3>1, <3>2 DEF input
  <2> QED BY <1>4, <2>1 DEF BuildInv, PlannedInv, Within
<1> QED BY <1>4, <1>6, <1>7, <1>8, <1>9, <1>10 DEF BuildInv, q, input
-----------------------------------------------------------------------------
(* The call on top of the stack has seen all of its file's inputs.         *)
EndsCall(m, p, s, t, c) ==
  /\ t \in Outputs /\ t \in p.pending /\ t \notin OnStack(c) /\ OnStack(s) = OnStack(c) \cup {t}
  /\ StackInv(m, p, c)
  /\ s[Len(s)].inputCount = Cardinality(AllSlots(m, t, Outputs))
  /\ \A d \in Outputs : Visited(m, p, c, d) = Visited(m, p, s, d)

(* Its return makes no difference to what has been visited.                *)
LEMMA EndingCall ==
  ASSUME NEW m \in Maps, NEW p, p.pending \in SUBSET Outputs, NEW s, StackInv(m, p, s),
         s # <<>>, NEW t, t = s[Len(s)].target, s[Len(s)].next > Len(m[t]),
         NEW c, c = Front(s)
  PROVE  EndsCall(m, p, s, t, c)
<1> DEFINE n == Len(s)
<1>1. n \in Nat \ {0} /\ DOMAIN s = 1..n /\ n \in DOMAIN s /\ s \in [1..n -> Call]
  BY DEF StackInv
<1>2. /\ c \in Seq(Call) /\ DOMAIN c = 1..(n - 1) /\ \A i \in 1..(n - 1) : c[i] = s[i] /\ i \in DOMAIN s
  BY <1>1 DEF StackInv, Front
<1>3. \A i \in DOMAIN s : i \in DOMAIN c \/ i = n
  BY <1>1, <1>2
<1>4. n \notin DOMAIN c
  BY <1>1, <1>2
<1>5. t \in Outputs /\ t \in p.pending /\ s[n].target = t
  BY <1>1 DEF StackInv, OnStack
<1>6. Len(m[t]) \in Nat /\ DOMAIN m[t] = 1..Len(m[t])
  BY <1>5 DEF Maps
<1>7. /\ s[n].next \in 1..(Len(m[t]) + 1)
      /\ s[n].inputCount = Cardinality(Naming(m, t, 1..(s[n].next - 1), Outputs))
  BY <1>1, <1>5 DEF StackInv
<1>8. s[n].next = Len(m[t]) + 1 /\ 1..(s[n].next - 1) = DOMAIN m[t]
  BY <1>6, <1>7
<1>9. s[n].inputCount = Cardinality(AllSlots(m, t, Outputs))
  BY <1>7, <1>8 DEF AllSlots
<1> HIDE DEF n
<1>10. \A i \in DOMAIN s : s[i].target = t => i = n
  BY <1>1, <1>5 DEF StackInv
<1>11. OnStack(s) = OnStack(c) \cup {t}
  BY <1>1, <1>2, <1>3, <1>5 DEF OnStack
<1>12. t \notin OnStack(c)
  BY <1>2, <1>4, <1>10 DEF OnStack
<1>13. StackInv(m, p, c)
  <2>1. \A i \in DOMAIN c : i \in DOMAIN s /\ c[i] = s[i]
    BY <1>2
  <2>2. OnStack(c) \subseteq p.pending
    BY <1>11 DEF StackInv
  <2>3. \A i, j \in DOMAIN c : c[i].target = c[j].target => i = j
    <3> SUFFICES ASSUME NEW i \in DOMAIN c, NEW j \in DOMAIN c, c[i].target = c[j].target
                 PROVE  i = j
      OBVIOUS
    <3> QED BY <2>1 DEF StackInv
  <2>4. ASSUME NEW i \in DOMAIN c
        PROVE  /\ c[i].next \in 1..(Len(m[c[i].target]) + 1)
               /\ c[i].inputCount = Cardinality(Naming(m, c[i].target, 1..(c[i].next - 1), Outputs))
    BY <2>1 DEF StackInv
  <2> QED BY <1>2, <2>2, <2>3, <2>4 DEF StackInv
<1>14. ASSUME NEW d \in Outputs PROVE Visited(m, p, c, d) = Visited(m, p, s, d)
  <2>1. CASE d = t
    <3>1. t \in Returned(p, c)
      BY <1>5, <1>12 DEF Returned
    <3>2. Visited(m, p, c, t) = DOMAIN m[t]
      BY <1>5, <1>13, <3>1, VisitedIs
    <3>3. Visited(m, p, s, t) = 1..(s[n].next - 1)
      BY <1>1, <1>5, VisitedIs
    <3> QED BY <1>8, <2>1, <3>2, <3>3
  <2>2. CASE d # t
    <3>1. ASSUME NEW j PROVE (\A i \in DOMAIN c : c[i].target = d => j < c[i].next)
                             <=> (\A i \in DOMAIN s : s[i].target = d => j < s[i].next)
      <4>1. \A i \in DOMAIN s : s[i].target = d => i \in DOMAIN c /\ c[i] = s[i]
        BY <1>2, <1>3, <1>5, <2>2
      <4>2. \A i \in DOMAIN c : i \in DOMAIN s /\ c[i] = s[i]
        BY <1>2
      <4> QED BY <4>1, <4>2
    <3> QED BY <3>1 DEF Visited
  <2> QED BY <2>1, <2>2
<1> QED BY <1>5, <1>9, <1>11, <1>12, <1>13, <1>14 DEF EndsCall, n

(* What is the same for all that a call may do to the plan when it ends.   *)
LEMMA EndedCall ==
  ASSUME NEW m \in Maps, NEW p, NEW s, NEW a, BuildInv(m, p, s, a, {}), NEW t, NEW c,
         EndsCall(m, p, s, t, c), NEW q, IsPlan(q), q.pending = p.pending,
         q.descendants = p.descendants, CountsInv(m, q, c), QueueInv(m, q, c)
  PROVE  BuildInv(m, q, c, a, {})
<1>1. p.pending \in SUBSET Outputs
  BY DEF BuildInv, IsPlan
<1>2. \A d \in Outputs : Visited(m, q, c, d) = Visited(m, p, s, d)
  BY DEF EndsCall, Visited
<1>3. StackInv(m, q, c)
  BY DEF EndsCall, StackInv
<1>4. VisitedInv(m, q, c, {})
  BY <1>1, <1>2 DEF BuildInv, VisitedInv
<1>5. DescendantsInv(m, q, c)
  BY <1>2 DEF BuildInv, DescendantsInv
<1>6. PlannedInv(m, q, a, {})
  BY DEF BuildInv, PlannedInv
<1> QED BY <1>3, <1>4, <1>5, <1>6 DEF BuildInv

(* A file that is made from no other is queued.                            *)
LEMMA LeftReady ==
  ASSUME NEW m \in Maps, NEW p, NEW s, NEW a, BuildInv(m, p, s, a, {}), NEW t, NEW c,
         EndsCall(m, p, s, t, c), s[Len(s)].inputCount = 0
  PROVE  BuildInv(m, [p EXCEPT !.queue = Append(@, t)], c, a, {})
<1> DEFINE q == [p EXCEPT !.queue = Append(@, t)]
<1>1. IsPlan(p) /\ p.queue \in Seq(Outputs) /\ p.pending \in SUBSET Outputs
  BY DEF BuildInv, IsPlan
<1>2. t \in Outputs /\ t \in p.pending /\ t \notin OnStack(c) /\ OnStack(s) = OnStack(c) \cup {t}
  BY DEF EndsCall
<1>3. /\ q.pending = p.pending /\ q.queue = Append(p.queue, t) /\ q.counts = p.counts
      /\ q.descendants = p.descendants /\ IsPlan(q)
  <2>1. Append(p.queue, t) \in Seq(Outputs)
    BY <1>1, <1>2
  <2> QED BY <1>1, <2>1 DEF IsPlan
<1> HIDE DEF q
<1>4. AllSlots(m, t, Outputs) = {}
  <2>1. Cardinality(AllSlots(m, t, Outputs)) = 0
    BY DEF EndsCall
  <2> QED BY <1>2, <2>1, SlotsFinite DEF AllSlots
<1>5. Returned(q, c) = Returned(p, s) \cup {t} /\ t \notin Returned(p, s)
  BY <1>2, <1>3 DEF Returned
<1>6. CountsInv(m, q, c)
  <2>1. {d \in Returned(q, c) : AllSlots(m, d, Outputs) # {}}
          = {d \in Returned(p, s) : AllSlots(m, d, Outputs) # {}}
    BY <1>4, <1>5
  <2> QED BY <1>3, <2>1 DEF BuildInv, CountsInv
<1>7. QueueInv(m, q, c)
  <2>1. Distinct(p.queue) /\ Members(p.queue) = {d \in Returned(p, s) : AllSlots(m, d, Outputs) = {}}
    BY DEF BuildInv, QueueInv
  <2>2. t \notin Members(p.queue)
    BY <1>5, <2>1
  <2>3. Distinct(q.queue) /\ Members(q.queue) = Members(p.queue) \cup {t}
    BY <1>1, <1>2, <1>3, <2>1, <2>2, AppendedMembers
  <2> QED BY <1>4, <1>5, <2>1, <2>3 DEF QueueInv
<1> QED BY <1>3, <1>6, <1>7, EndedCall DEF q

(* Any other gets its count.                                               *)
LEMMA LeftWaiting ==
  ASSUME NEW m \in Maps, NEW p, NEW s, NEW a, BuildInv(m, p, s, a, {}), NEW t, NEW c,
         EndsCall(m, p, s, t, c), s[Len(s)].inputCount # 0
  PROVE  BuildInv(m, [p EXCEPT !.counts = Put(@, t, s[Len(s)].inputCount)], c, a, {})
<1> DEFINE q == [p EXCEPT !.counts = Put(@, t, s[Len(s)].inputCount)]
<1>1. IsPlan(p) /\ p.pending \in SUBSET Outputs
  BY DEF BuildInv, IsPlan
<1>2. t \in Outputs /\ t \in p.pending /\ t \notin OnStack(c) /\ OnStack(s) = OnStack(c) \cup {t}
  BY DEF EndsCall
<1>3. /\ q.pending = p.pending /\ q.queue = p.queue /\ q.counts = Put(p.counts, t, s[Len(s)].inputCount)
      /\ q.descendants = p.descendants /\ IsPlan(q)
  BY <1>1 DEF IsPlan
<1> HIDE DEF q
<1>4. s[Len(s)].inputCount = Cardinality(AllSlots(m, t, Outputs)) /\ AllSlots(m, t, Outputs) # {}
  <2>1. s[Len(s)].inputCount = Cardinality(AllSlots(m, t, Outputs))
    BY DEF EndsCall
  <2> QED BY <2>1, FS_EmptySet
<1>5. Returned(q, c) = Returned(p, s) \cup {t} /\ t \notin Returned(p, s)
  BY <1>2, <1>3 DEF Returned
<1>6. CountsInv(m, q, c)
  <2> DEFINE D == {d \in Returned(p, s) : AllSlots(m, d, Outputs) # {}}
             E == {d \in Returned(q, c) : AllSlots(m, d, Outputs) # {}}
  <2>1. E = D \cup {t} /\ t \notin D
    BY <1>4, <1>5
  <2>2. p.counts = [d \in D |-> Cardinality(AllSlots(m, d, Outputs))]
    BY DEF BuildInv, CountsInv
  <2> HIDE DEF D, E
  <2>3. q.counts = [d \in D \cup {t} |-> IF d = t THEN s[Len(s)].inputCount ELSE p.counts[d]]
    BY <1>3, <2>2 DEF Put
  <2>4. q.counts = [d \in E |-> Cardinality(AllSlots(m, d, Outputs))]
    BY <1>4, <2>1, <2>2, <2>3
  <2> QED BY <2>4 DEF CountsInv, E
<1>7. QueueInv(m, q, c)
  <2>1. {d \in Returned(q, c) : AllSlots(m, d, Outputs) = {}}
          = {d \in Returned(p, s) : AllSlots(m, d, Outputs) = {}}
    BY <1>4, <1>5
  <2> QED BY <1>3, <2>1 DEF BuildInv, QueueInv
<1> QED BY <1>3, <1>6, <1>7, EndedCall DEF q
-----------------------------------------------------------------------------
(* Induction over the natural numbers, for a set.                          *)
LEMMA Induction ==
  ASSUME NEW S \in SUBSET Nat, 0 \in S, \A n \in S : n + 1 \in S
  PROVE  S = Nat
<1> SUFFICES ASSUME S # Nat PROVE FALSE
  OBVIOUS
<1> DEFINE T == Nat \ S
           R == OpToRel(<, Nat)
<1>1. IsWellFoundedOn(R, Nat)
  BY NatLessThanWellFounded, Zenon
<1>2. T \subseteq Nat /\ T # {}
  OBVIOUS
<1>3. PICK x \in T : \A y \in T : ~ (<<y, x>> \in R)
  <2> HIDE DEF T, R
  <2> QED BY <1>1, <1>2, WFMin
<1>4. \A y \in T : ~ (y < x)
  BY <1>2, <1>3 DEF OpToRel
<1>5. x \in Nat /\ x \notin S /\ x # 0
  OBVIOUS
<1>6. x - 1 \in Nat /\ x - 1 < x /\ (x - 1) + 1 = x
  BY <1>5
<1>7. x - 1 \in S
  BY <1>4, <1>6
<1> QED BY <1>5, <1>6, <1>7

(* The plan after each of the first n turns of the loop of erase.          *)
IsDecrementing(p, ds, A, n) ==
  A = [k \in 0..n |-> IF k = 0 THEN p ELSE Decrement(A[k - 1], ds[k])]

(* The recursive function of DecrementAll() exists, by induction.          *)
LEMMA DecrementingExists ==
  ASSUME NEW p, NEW ds
  PROVE  \A n \in Nat : \E A : IsDecrementing(p, ds, A, n)
<1> DEFINE S == {n \in Nat : \E A : IsDecrementing(p, ds, A, n)}
<1>1. 0 \in S
  <2>1. IsDecrementing(p, ds, [k \in 0..0 |-> p], 0)
    BY DEF IsDecrementing
  <2> QED BY <2>1
<1>2. ASSUME NEW n \in S PROVE n + 1 \in S
  <2>1. n \in Nat
    OBVIOUS
  <2>2. PICK A : IsDecrementing(p, ds, A, n)
    OBVIOUS
  <2> DEFINE B == [k \in 0..(n + 1) |-> IF k = n + 1 THEN Decrement(A[n], ds[n + 1]) ELSE A[k]]
  <2>3. ASSUME NEW k \in 0..(n + 1)
        PROVE  B[k] = IF k = 0 THEN p ELSE Decrement(B[k - 1], ds[k])
    <3>1. CASE k = n + 1
      BY <2>1, <3>1
    <3>2. CASE k # n + 1
      <4>1. k \in 0..n /\ B[k] = A[k] /\ (k # 0 => B[k - 1] = A[k - 1])
        BY <2>1, <3>2
      <4>2. A[k] = IF k = 0 THEN p ELSE Decrement(A[k - 1], ds[k])
        BY <2>2, <4>1 DEF IsDecrementing
      <4> HIDE DEF B
      <4> QED BY <4>1, <4>2
    <3> QED BY <3>1, <3>2
  <2>4. B = [k \in 0..(n + 1) |-> B[k]]
    OBVIOUS
  <2> HIDE DEF B
  <2>5. IsDecrementing(p, ds, B, n + 1)
    BY <2>3, <2>4 DEF IsDecrementing
  <2> QED BY <2>1, <2>5
<1> HIDE DEF S
<1>3. S = Nat
  <2>1. S \in SUBSET Nat
    BY DEF S
  <2> QED BY <1>1, <1>2, <2>1, Induction
<1> QED BY <1>3 DEF S

(* What n turns of the loop amount to.                                     *)
Reached(p, ds, n) == {d \in DOMAIN p.counts : UpTo(ds, n, d) > 0 /\ p.counts[d] = UpTo(ds, n, d)}

Pushed(q, S, r) == \E x \in Seq(Outputs) : Distinct(x) /\ Members(x) = S /\ r = q \o x

Decreased(p, ds, n, q) ==
  /\ IsPlan(q) /\ q.pending = p.pending /\ q.descendants = p.descendants
  /\ q.counts = [d \in DOMAIN p.counts |-> p.counts[d] - UpTo(ds, n, d)]
  /\ Pushed(p.queue, Reached(p, ds, n), q.queue)

(* A plan that erase may go through: every descendant has a count, no less *)
(* than the number of times it is decremented.                             *)
Fits(p, ds) ==
  /\ IsPlan(p) /\ ds \in Seq(Outputs) /\ DOMAIN p.counts \subseteq Outputs
  /\ p.counts = [d \in DOMAIN p.counts |-> p.counts[d]]
  /\ Members(ds) \subseteq DOMAIN p.counts
  /\ \A d \in DOMAIN p.counts : p.counts[d] \in Nat /\ Times(ds, d) <= p.counts[d]

(* A part of a sequence has an element no more often than all of it.       *)
LEMMA UpToSome ==
  ASSUME NEW ds, Len(ds) \in Nat, NEW n \in 0..Len(ds), NEW d
  PROVE  UpTo(ds, n, d) \in Nat /\ Times(ds, d) \in Nat /\ UpTo(ds, n, d) <= Times(ds, d)
<1> DEFINE A == {j \in 1..n : ds[j] = d}
           B == {j \in 1..Len(ds) : ds[j] = d}
<1>1. IsFiniteSet(B)
  <2>1. IsFiniteSet(1..Len(ds)) /\ B \in SUBSET (1..Len(ds))
    BY FS_Interval
  <2> QED BY <2>1, FS_Subset
<1>2. A \in SUBSET B
  OBVIOUS
<1>3. UpTo(ds, n, d) = Cardinality(A) /\ Times(ds, d) = Cardinality(B)
  BY DEF UpTo, Times
<1> HIDE DEF A, B
<1>4. IsFiniteSet(A) /\ Cardinality(A) <= Cardinality(B)
  BY <1>1, <1>2, FS_Subset
<1> QED BY <1>1, <1>3, <1>4, FS_CardinalityType

(* A turn of the loop.                                                     *)
LEMMA OneDecrement ==
  ASSUME NEW p, NEW ds, Fits(p, ds), NEW n \in Nat, n < Len(ds), NEW q, Decreased(p, ds, n, q)
  PROVE  Decreased(p, ds, n + 1, Decrement(q, ds[n + 1]))
<1> DEFINE d == ds[n + 1]
           r == Decrement(q, d)
<1>1. Len(ds) \in Nat /\ n \in 0..Len(ds) /\ n + 1 \in 0..Len(ds) /\ n + 1 \in DOMAIN ds
  BY DEF Fits
<1>2. d \in DOMAIN p.counts /\ d \in Outputs
  BY <1>1 DEF Fits, Members
<1>3. /\ \A e : UpTo(ds, n, e) \in Nat
      /\ \A e : e # d => UpTo(ds, n + 1, e) = UpTo(ds, n, e)
      /\ UpTo(ds, n + 1, d) = UpTo(ds, n, d) + 1
  BY UpToNext
<1>4. p.counts[d] \in Nat /\ UpTo(ds, n, d) + 1 <= p.counts[d]
  <2>1. UpTo(ds, n + 1, d) <= Times(ds, d) /\ Times(ds, d) \in Nat
    BY <1>1, UpToSome
  <2>2. p.counts[d] \in Nat /\ Times(ds, d) <= p.counts[d]
    BY <1>2 DEF Fits
  <2> HIDE DEF d
  <2> QED BY <1>3, <2>1, <2>2
<1> HIDE DEF d
<1>5. /\ IsPlan(q) /\ q.queue \in Seq(Outputs) /\ q.corrupted = FALSE
      /\ q.counts = [e \in DOMAIN p.counts |-> p.counts[e] - UpTo(ds, n, e)]
  BY DEF Decreased, IsPlan
<1>6. DOMAIN q.counts = DOMAIN p.counts /\ q.counts[d] = p.counts[d] - UpTo(ds, n, d)
  BY <1>2, <1>5
<1>7. /\ r.pending = q.pending /\ r.descendants = q.descendants /\ r.corrupted = FALSE
      /\ r.counts = [q.counts EXCEPT ![d] = @ - 1]
      /\ r.queue = IF q.counts[d] = 1 THEN Append(q.queue, d) ELSE q.queue
      /\ IsPlan(r)
  <2>1. r = [q EXCEPT !.counts[d] = @ - 1,
                      !.queue = IF q.counts[d] = 1 THEN Append(@, d) ELSE @]
    BY <1>2, <1>5, <1>6 DEF Decrement
  <2>2. r = [q EXCEPT !.counts = [q.counts EXCEPT ![d] = @ - 1],
                      !.queue = IF q.counts[d] = 1 THEN Append(q.queue, d) ELSE q.queue]
    BY <1>5, <2>1 DEF IsPlan
  <2>3. (IF q.counts[d] = 1 THEN Append(q.queue, d) ELSE q.queue) \in Seq(Outputs)
    BY <1>2, <1>5
  <2> HIDE DEF r
  <2> QED BY <1>5, <2>2, <2>3 DEF IsPlan
<1> HIDE DEF r
<1>8. r.counts = [e \in DOMAIN p.counts |-> p.counts[e] - UpTo(ds, n + 1, e)]
  <2>1. r.counts = [e \in DOMAIN p.counts |-> IF e = d THEN q.counts[e] - 1 ELSE q.counts[e]]
    BY <1>5, <1>7
  <2>2. ASSUME NEW e \in DOMAIN p.counts
        PROVE  (IF e = d THEN q.counts[e] - 1 ELSE q.counts[e]) = p.counts[e] - UpTo(ds, n + 1, e)
    <3>1. CASE e = d
      BY <1>3, <1>4, <1>6, <3>1
    <3>2. CASE e # d
      BY <1>3, <1>5, <3>2
    <3> QED BY <3>1, <3>2
  <2> QED BY <2>1, <2>2
<1>9. d \notin Reached(p, ds, n)
  BY <1>3, <1>4 DEF Reached
<1>10. Reached(p, ds, n + 1) = Reached(p, ds, n) \cup IF q.counts[d] = 1 THEN {d} ELSE {}
  <2>1. \A e : e # d => (e \in Reached(p, ds, n + 1) <=> e \in Reached(p, ds, n))
    BY <1>3 DEF Reached
  <2>2. d \in Reached(p, ds, n + 1) <=> p.counts[d] = UpTo(ds, n, d) + 1
    BY <1>2, <1>3 DEF Reached
  <2>3. p.counts[d] = UpTo(ds, n, d) + 1 <=> q.counts[d] = 1
    BY <1>3, <1>4, <1>6
  <2> QED BY <1>9, <2>1, <2>2, <2>3
<1>11. Pushed(p.queue, Reached(p, ds, n + 1), r.queue)
  <2>1. PICK x \in Seq(Outputs) :
          Distinct(x) /\ Members(x) = Reached(p, ds, n) /\ q.queue = p.queue \o x
    BY DEF Decreased, Pushed
  <2>2. CASE q.counts[d] # 1
    BY <1>7, <1>10, <2>1, <2>2 DEF Pushed
  <2>3. CASE q.counts[d] = 1
    <3>1. /\ Append(x, d) \in Seq(Outputs) /\ Distinct(Append(x, d))
          /\ Members(Append(x, d)) = Reached(p, ds, n) \cup {d}
      BY <1>2, <1>9, <2>1, AppendedMembers
    <3>2. r.queue = p.queue \o Append(x, d)
      <4>1. p.queue \in Seq(Outputs)
        BY DEF Fits, IsPlan
      <4>2. r.queue = Append(p.queue \o x, d)
        BY <1>7, <2>1, <2>3
      <4>3. p.queue \o x \in Seq(Outputs) /\ <<d>> \in Seq(Outputs)
        BY <1>2, <4>1
      <4>4. Append(p.queue \o x, d) = (p.queue \o x) \o <<d>> /\ Append(x, d) = x \o <<d>>
        BY <1>2, <4>3, AppendIsConcat
      <4>5. (p.queue \o x) \o <<d>> = p.queue \o (x \o <<d>>)
        <5>1. \A u, v, w \in Seq(Outputs) : (u \o v) \o w = u \o (v \o w)
          BY ConcatAssociative
        <5>2. x \in Seq(Outputs)
          BY <2>1
        <5> QED BY <4>1, <4>3, <5>1, <5>2
      <4> QED BY <4>2, <4>4, <4>5
    <3> QED BY <1>10, <2>3, <3>1, <3>2 DEF Pushed
  <2> QED BY <2>2, <2>3
<1>12. q.pending = p.pending /\ q.descendants = p.descendants
  BY DEF Decreased
<1> QED BY <1>7, <1>8, <1>11, <1>12 DEF Decreased, r, d

(* The whole loop.                                                         *)
LEMMA AllDecrements ==
  ASSUME NEW p, NEW ds, Fits(p, ds)
  PROVE  Decreased(p, ds, Len(ds), DecrementAll(p, ds))
<1> DEFINE n == Len(ds)
           A == CHOOSE B : IsDecrementing(p, ds, B, n)
<1>1. DecrementAll(p, ds) = A[n]
  BY Zenon DEF DecrementAll, IsDecrementing
<1>2. n \in Nat
  BY DEF Fits
<1>3. IsDecrementing(p, ds, A, n)
  BY <1>2, DecrementingExists
<1> HIDE DEF A
<1> DEFINE Good(k) == Decreased(p, ds, k, A[k])
           S == {k \in Nat : k \in 0..n => Good(k)}
<1>4. 0 \in S
  <2>1. A[0] = p
    BY <1>2, <1>3 DEF IsDecrementing
  <2>2. Decreased(p, ds, 0, p)
    <3>1. \A d : UpTo(ds, 0, d) = 0
      BY UpToNext
    <3>2. \A d \in DOMAIN p.counts : p.counts[d] - UpTo(ds, 0, d) = p.counts[d]
      BY <3>1 DEF Fits
    <3>3. p.counts = [d \in DOMAIN p.counts |-> p.counts[d] - UpTo(ds, 0, d)]
      BY <3>2 DEF Fits
    <3>4. Reached(p, ds, 0) = {}
      BY <3>1 DEF Reached
    <3>5. Distinct(<<>>) /\ Members(<<>>) = {} /\ <<>> \in Seq(Outputs)
      BY DEF Distinct, Members
    <3>6. p.queue = p.queue \o <<>>
      BY DEF Fits, IsPlan
    <3> QED BY <3>3, <3>4, <3>5, <3>6 DEF Decreased, Pushed, Fits
  <2> QED BY <2>1, <2>2
<1>5. ASSUME NEW k \in S PROVE k + 1 \in S
  <2> SUFFICES ASSUME k + 1 \in 0..n PROVE Good(k + 1)
    OBVIOUS
  <2>1. k \in Nat /\ k + 1 # 0 /\ (k + 1) - 1 = k
    OBVIOUS
  <2>2. k \in 0..n /\ k < n
    BY <1>2, <2>1
  <2>3. Good(k)
    BY <2>2
  <2>4. A[k + 1] = Decrement(A[k], ds[k + 1])
    BY <1>3, <2>1 DEF IsDecrementing
  <2> QED BY <2>1, <2>2, <2>3, <2>4, OneDecrement
<1> HIDE DEF S
<1>6. S = Nat
  <2>1. S \in SUBSET Nat
    BY DEF S
  <2> QED BY <1>4, <1>5, <2>1, Induction
<1>7. Good(n)
  <2>1. n \in S /\ n \in 0..n
    BY <1>2, <1>6
  <2> HIDE DEF n, Good
  <2> QED BY <2>1 DEF S
<1> QED BY <1>1, <1>7
-----------------------------------------------------------------------------
(* Once all calls have returned, the plan can be used.                     *)
LEMMA Planning ==
  ASSUME NEW m \in Maps, NEW p, NEW a \in SUBSET Outputs, BuildInv(m, p, <<>>, a, {})
  PROVE  IsPlanned(m, a, p.pending) /\ DrainInv(m, p, p.pending)
<1> DEFINE P == p.pending
<1>1. IsPlan(p) /\ P \in SUBSET Outputs /\ StackInv(m, p, <<>>)
  BY DEF BuildInv, IsPlan
<1>2. Returned(p, <<>>) = P
  BY DEF Returned, OnStack
<1>3. \A d \in Outputs : Visited(m, p, <<>>, d) = IF d \in P THEN DOMAIN m[d] ELSE {}
  BY <1>1, <1>2, VisitedIs
<1>4. ClosedIn(m, P)
  BY <1>1, <1>3 DEF BuildInv, VisitedInv, ClosedIn
<1>5. IsPlanned(m, a, P)
  <2>1. P \cup {} = P
    OBVIOUS
  <2> QED BY <1>1, <1>4, <2>1 DEF BuildInv, PlannedInv, IsPlanned
<1>6. \A d \in P : AllSlots(m, d, Outputs) = AllSlots(m, d, P)
  BY <1>1, <1>4 DEF ClosedIn, AllSlots, Naming
<1>7. p.counts = [d \in {t \in P : AllSlots(m, t, Outputs) # {}} |-> Cardinality(AllSlots(m, d, P))]
  BY <1>2, <1>6 DEF BuildInv, CountsInv
<1>8. ASSUME NEW i \in Outputs, NEW d \in Outputs
      PROVE  Times(p.descendants[i], d) = IF d \in P THEN Cardinality(AllSlots(m, d, {i})) ELSE 0
  <2>1. Times(p.descendants[i], d) = Cardinality(Naming(m, d, Visited(m, p, <<>>, d), {i}))
    BY DEF BuildInv, DescendantsInv
  <2>2. CASE d \in P
    BY <1>3, <2>1, <2>2 DEF AllSlots
  <2>3. CASE d \notin P
    <3>1. Naming(m, d, Visited(m, p, <<>>, d), {i}) = {}
      BY <1>3, <2>3 DEF Naming
    <3> QED BY <2>1, <2>3, <3>1, FS_EmptySet
  <2> QED BY <2>2, <2>3
<1>9. Distinct(p.queue) /\ Members(p.queue) = {t \in P : AllSlots(m, t, P) = {}}
  BY <1>2, <1>6 DEF BuildInv, QueueInv
<1>10. DrainInv(m, p, P)
  BY <1>1, <1>7, <1>8, <1>9 DEF DrainInv
<1> QED BY <1>5, <1>10

(* A sequence has its members some times, and nothing else.                *)
LEMMA MemberTimes ==
  ASSUME NEW T, NEW ds \in Seq(T), NEW d \in Members(ds)
  PROVE  Times(ds, d) \in Nat /\ Times(ds, d) # 0
<1> DEFINE A == {j \in 1..Len(ds) : ds[j] = d}
<1>1. Len(ds) \in Nat /\ DOMAIN ds = 1..Len(ds)
  OBVIOUS
<1>2. IsFiniteSet(A)
  <2>1. IsFiniteSet(1..Len(ds)) /\ A \in SUBSET (1..Len(ds))
    BY <1>1, FS_Interval
  <2> QED BY <2>1, FS_Subset
<1>3. A # {}
  BY <1>1 DEF Members
<1>4. Times(ds, d) = Cardinality(A)
  BY DEF Times, UpTo
<1> HIDE DEF A
<1> QED BY <1>2, <1>3, <1>4, FS_EmptySet, FS_CardinalityType

(* Sequences that have nothing in common, one after the other.             *)
LEMMA Concatenated ==
  ASSUME NEW T, NEW q \in Seq(T), NEW x \in Seq(T), Distinct(q), Distinct(x),
         Members(q) \cap Members(x) = {}
  PROVE  q \o x \in Seq(T) /\ Distinct(q \o x) /\ Members(q \o x) = Members(q) \cup Members(x)
<1>1. /\ Len(q) \in Nat /\ Len(x) \in Nat
      /\ DOMAIN q = 1..Len(q) /\ DOMAIN x = 1..Len(x)
      /\ q \o x \in Seq(T) /\ DOMAIN (q \o x) = 1..(Len(q) + Len(x))
      /\ \A k \in 1..(Len(q) + Len(x)) :
           (q \o x)[k] = IF k <= Len(q) THEN q[k] ELSE x[k - Len(q)]
  OBVIOUS
<1>2. \A k \in 1..Len(q) : k \in 1..(Len(q) + Len(x)) /\ (q \o x)[k] = q[k]
  BY <1>1
<1>3. \A k \in 1..Len(x) : k + Len(q) \in 1..(Len(q) + Len(x)) /\ (q \o x)[k + Len(q)] = x[k]
  BY <1>1
<1>4. \A k \in 1..(Len(q) + Len(x)) : k \in 1..Len(q) \/ k - Len(q) \in 1..Len(x)
  BY <1>1
<1>5. Members(q \o x) = Members(q) \cup Members(x)
  <2>1. Members(q \o x) \subseteq Members(q) \cup Members(x)
    BY <1>1 DEF Members
  <2>2. Members(q) \subseteq Members(q \o x)
    BY <1>1, <1>2 DEF Members
  <2>3. Members(x) \subseteq Members(q \o x)
    BY <1>1, <1>3 DEF Members
  <2> QED BY <2>1, <2>2, <2>3
<1>6. Distinct(q \o x)
  <2> SUFFICES ASSUME NEW i \in 1..(Len(q) + Len(x)), NEW j \in 1..(Len(q) + Len(x)),
                      (q \o x)[i] = (q \o x)[j]
               PROVE  i = j
    BY <1>1 DEF Distinct
  <2>1. CASE i <= Len(q) /\ j <= Len(q)
    BY <1>1, <2>1 DEF Distinct
  <2>2. CASE ~(i <= Len(q)) /\ ~(j <= Len(q))
    <3>1. /\ i - Len(q) \in DOMAIN x /\ j - Len(q) \in DOMAIN x
          /\ x[i - Len(q)] = x[j - Len(q)]
      BY <1>1, <2>2
    <3>2. i - Len(q) = j - Len(q)
      BY <3>1 DEF Distinct
    <3> QED BY <1>1, <3>2
  <2>3. ASSUME NEW k \in 1..(Len(q) + Len(x)), NEW l \in 1..(Len(q) + Len(x)),
               k <= Len(q), ~(l <= Len(q))
        PROVE  (q \o x)[k] # (q \o x)[l]
    <3>1. k \in DOMAIN q /\ l - Len(q) \in DOMAIN x
      BY <1>1, <2>3
    <3>2. (q \o x)[k] = q[k] /\ (q \o x)[l] = x[l - Len(q)]
      BY <1>1, <2>3
    <3>3. (q \o x)[k] \in Members(q) /\ (q \o x)[l] \in Members(x)
      BY <3>1, <3>2 DEF Members
    <3> QED BY <3>3
  <2> QED BY <2>1, <2>2, <2>3
<1> QED BY <1>1, <1>5, <1>6

-----------------------------------------------------------------------------
(* The first file of the queue is taken out, up to the loop of erase.      *)
Taken(p, t) == [[p EXCEPT !.queue = Tail(@)] EXCEPT !.pending = @ \ {t}]

FirstTaken(m, p, P, t, ds, p1) ==
  /\ t \in p.pending /\ AllSlots(m, t, p.pending) = {}
  /\ IsPlan(p1) /\ p1.pending = p.pending \ {t} /\ p1.queue = Tail(p.queue)
  /\ p1.counts = p.counts /\ p1.descendants = p.descendants
  /\ Distinct(p1.queue) /\ Members(p1.queue) = Members(p.queue) \ {t}
  /\ \A d \in P : Times(ds, d) = Cardinality(AllSlots(m, d, {t}))
  /\ Fits(p1, ds)

(* All that loop needs is there.                                           *)
LEMMA Taking ==
  ASSUME NEW m \in Maps, NEW p, NEW P, DrainInv(m, p, P), p.queue # <<>>,
         NEW t, t = Head(p.queue), NEW ds, ds = p.descendants[t], NEW p1, p1 = Taken(p, t)
  PROVE  FirstTaken(m, p, P, t, ds, p1)
<1>1. IsPlan(p) /\ p.queue \in Seq(Outputs) /\ P \in SUBSET Outputs /\ p.pending \subseteq P
  BY DEF DrainInv, IsPlan
<1>2. /\ t \in Members(p.queue) /\ Tail(p.queue) \in Seq(Outputs)
      /\ Distinct(Tail(p.queue)) /\ Members(Tail(p.queue)) = Members(p.queue) \ {t}
  BY <1>1, Popped DEF DrainInv
<1>3. t \in p.pending /\ t \in Outputs /\ AllSlots(m, t, p.pending) = {}
  BY <1>1, <1>2 DEF DrainInv
<1>4. /\ IsPlan(p1) /\ p1.pending = p.pending \ {t} /\ p1.queue = Tail(p.queue)
      /\ p1.counts = p.counts /\ p1.descendants = p.descendants
  <2>1. p.pending \ {t} \in SUBSET Outputs
    BY <1>1
  <2> QED BY <1>1, <1>2, <2>1 DEF IsPlan, Taken
<1>5. ds \in Seq(Outputs)
  BY <1>1, <1>3 DEF IsPlan
<1>6. \A d \in Outputs : Times(ds, d) = IF d \in P THEN Cardinality(AllSlots(m, d, {t})) ELSE 0
  BY <1>3 DEF DrainInv
<1> DEFINE D == {d \in P : AllSlots(m, d, Outputs) # {}}
<1>7. p.counts = [d \in D |-> Cardinality(AllSlots(m, d, p.pending))]
  BY DEF DrainInv
<1>8. DOMAIN p.counts = D /\ D \subseteq Outputs
  BY <1>1, <1>7
<1>9. Members(ds) \subseteq D
  <2> SUFFICES ASSUME NEW d \in Members(ds) PROVE d \in D
    OBVIOUS
  <2>1. d \in Outputs /\ Times(ds, d) # 0
    BY <1>5, MemberTimes DEF Members
  <2>2. d \in P /\ Cardinality(AllSlots(m, d, {t})) # 0
    BY <1>6, <2>1
  <2>3. AllSlots(m, d, {t}) # {}
    BY <2>2, FS_EmptySet
  <2> QED BY <1>3, <2>2, <2>3 DEF AllSlots, Naming
<1>10. ASSUME NEW d \in D PROVE p.counts[d] \in Nat /\ Times(ds, d) <= p.counts[d]
  <2>1. d \in Outputs /\ d \in P
    BY <1>1
  <2>2. /\ Cardinality(AllSlots(m, d, p.pending)) \in Nat
        /\ Cardinality(AllSlots(m, d, p.pending \ {t})) \in Nat
        /\ Cardinality(AllSlots(m, d, {t})) \in Nat
    BY <2>1, SlotsFinite DEF AllSlots
  <2>3. Cardinality(AllSlots(m, d, p.pending))
          = Cardinality(AllSlots(m, d, p.pending \ {t})) + Cardinality(AllSlots(m, d, {t}))
    BY <1>3, <2>1, SlotsWithout
  <2>4. p.counts[d] = Cardinality(AllSlots(m, d, p.pending)) /\ Times(ds, d) = Cardinality(AllSlots(m, d, {t}))
    BY <1>6, <1>7, <2>1
  <2> QED BY <2>2, <2>3, <2>4
<1> HIDE DEF D
<1>11. Fits(p1, ds)
  <2>1. p.counts = [d \in DOMAIN p.counts |-> p.counts[d]]
    BY <1>7
  <2> QED BY <1>4, <1>5, <1>8, <1>9, <1>10, <2>1 DEF Fits
<1>12. \A d \in P : Times(ds, d) = Cardinality(AllSlots(m, d, {t}))
  BY <1>1, <1>6
<1> QED BY <1>2, <1>3, <1>4, <1>11, <1>12 DEF FirstTaken

(* Emitting a file keeps the invariant.                                    *)
LEMMA Emitting ==
  ASSUME NEW m \in Maps, NEW p, NEW P, DrainInv(m, p, P), p.queue # <<>>,
         NEW t, t = Head(p.queue), NEW ds, ds = p.descendants[t], NEW p1, p1 = Taken(p, t),
         NEW q, Decreased(p1, ds, Len(ds), q)
  PROVE  DrainInv(m, q, P)
<1>1. /\ t \in p.pending /\ AllSlots(m, t, p.pending) = {}
      /\ IsPlan(p1) /\ p1.pending = p.pending \ {t} /\ p1.queue = Tail(p.queue)
      /\ p1.counts = p.counts /\ p1.descendants = p.descendants
      /\ Distinct(p1.queue) /\ Members(p1.queue) = Members(p.queue) \ {t}
      /\ \A d \in P : Times(ds, d) = Cardinality(AllSlots(m, d, {t}))
  <2>1. FirstTaken(m, p, P, t, ds, p1)
    BY Taking, Zenon
  <2> QED BY <2>1, Zenon DEF FirstTaken
<1>2. /\ IsPlan(q) /\ q.pending = p.pending \ {t} /\ q.descendants = p.descendants
      /\ q.counts = [d \in DOMAIN p.counts |-> p.counts[d] - Times(ds, d)]
      /\ Pushed(p1.queue, Reached(p1, ds, Len(ds)), q.queue)
  BY <1>1 DEF Decreased, Times
<1>3. P \in SUBSET Outputs /\ p.pending \subseteq P /\ q.pending \subseteq p.pending
  BY <1>2 DEF DrainInv
<1> DEFINE D == {d \in P : AllSlots(m, d, Outputs) # {}}
<1>4. p.counts = [d \in D |-> Cardinality(AllSlots(m, d, p.pending))]
  BY DEF DrainInv
<1>5. ASSUME NEW d \in P
      PROVE  /\ Cardinality(AllSlots(m, d, p.pending)) - Cardinality(AllSlots(m, d, {t}))
                  = Cardinality(AllSlots(m, d, q.pending))
             /\ Cardinality(AllSlots(m, d, {t})) > 0 <=> AllSlots(m, d, {t}) # {}
             /\ Cardinality(AllSlots(m, d, p.pending)) = Cardinality(AllSlots(m, d, {t}))
                  <=> AllSlots(m, d, q.pending) = {}
  <2>1. d \in Outputs
    BY <1>3
  <2>2. /\ Cardinality(AllSlots(m, d, p.pending)) \in Nat
        /\ Cardinality(AllSlots(m, d, p.pending \ {t})) \in Nat
        /\ Cardinality(AllSlots(m, d, {t})) \in Nat
        /\ Cardinality(AllSlots(m, d, p.pending \ {t})) = 0 <=> AllSlots(m, d, p.pending \ {t}) = {}
        /\ Cardinality(AllSlots(m, d, {t})) = 0 <=> AllSlots(m, d, {t}) = {}
    BY <2>1, SlotsFinite DEF AllSlots
  <2>3. Cardinality(AllSlots(m, d, p.pending))
          = Cardinality(AllSlots(m, d, p.pending \ {t})) + Cardinality(AllSlots(m, d, {t}))
    BY <1>1, <2>1, SlotsWithout
  <2> DEFINE A == AllSlots(m, d, p.pending)
             B == AllSlots(m, d, p.pending \ {t})
             C == AllSlots(m, d, {t})
  <2>4. AllSlots(m, d, q.pending) = B
    BY <1>2
  <2>5. /\ Cardinality(A) \in Nat /\ Cardinality(B) \in Nat /\ Cardinality(C) \in Nat
        /\ Cardinality(B) = 0 <=> B = {}
        /\ Cardinality(C) = 0 <=> C = {}
        /\ Cardinality(A) = Cardinality(B) + Cardinality(C)
    BY <2>2, <2>3
  <2> HIDE DEF A, B, C
  <2>6. /\ Cardinality(A) - Cardinality(C) = Cardinality(B)
        /\ Cardinality(C) > 0 <=> C # {}
        /\ Cardinality(A) = Cardinality(C) <=> B = {}
    BY <2>5
  <2> QED BY <2>4, <2>6 DEF A, C
<1>6. q.counts = [d \in D |-> Cardinality(AllSlots(m, d, q.pending))]
  <2>1. DOMAIN p.counts = D
    BY <1>4
  <2>2. ASSUME NEW d \in D PROVE p.counts[d] - Times(ds, d) = Cardinality(AllSlots(m, d, q.pending))
    BY <1>1, <1>4, <1>5
  <2> HIDE DEF D
  <2> QED BY <1>2, <2>1, <2>2
<1>7. \A i, d \in Outputs :
        Times(q.descendants[i], d) = IF d \in P THEN Cardinality(AllSlots(m, d, {i})) ELSE 0
  BY <1>2 DEF DrainInv
<1>8. Members(p.queue) = {d \in p.pending : AllSlots(m, d, p.pending) = {}}
  BY DEF DrainInv
<1>9. \A d \in P \ p.pending : AllSlots(m, d, p.pending) = {}
  BY DEF DrainInv
<1>10. \A d \in P : AllSlots(m, d, p.pending) = AllSlots(m, d, q.pending) \cup AllSlots(m, d, {t})
  BY <1>1, <1>2 DEF AllSlots, Naming
<1>11. Reached(p1, ds, Len(ds)) = {d \in P : AllSlots(m, d, {t}) # {} /\ AllSlots(m, d, q.pending) = {}}
  <2>1. ASSUME NEW d \in D
        PROVE  d \in Reached(p1, ds, Len(ds)) <=> AllSlots(m, d, {t}) # {} /\ AllSlots(m, d, q.pending) = {}
    <3>1. d \in DOMAIN p1.counts /\ p1.counts[d] = Cardinality(AllSlots(m, d, p.pending)) /\ d \in P
      BY <1>1, <1>4
    <3>2. UpTo(ds, Len(ds), d) = Cardinality(AllSlots(m, d, {t}))
      BY <1>1, <3>1 DEF Times
    <3> QED BY <1>5, <3>1, <3>2 DEF Reached
  <2>2. Reached(p1, ds, Len(ds)) \subseteq D
    BY <1>1, <1>4 DEF Reached
  <2>3. \A d \in P : AllSlots(m, d, {t}) # {} => d \in D
    BY <1>1, <1>3 DEF AllSlots, Naming
  <2>4. D \subseteq P
    OBVIOUS
  <2> HIDE DEF D
  <2> QED BY <2>1, <2>2, <2>3, <2>4
<1> HIDE DEF D
<1>12. /\ Members(p1.queue) \cap Reached(p1, ds, Len(ds)) = {}
       /\ Members(p1.queue) \cup Reached(p1, ds, Len(ds))
            = {d \in q.pending : AllSlots(m, d, q.pending) = {}}
  <2>1. Members(p1.queue) = {d \in p.pending : AllSlots(m, d, p.pending) = {}} \ {t}
    BY <1>1, <1>8
  <2>2. ASSUME NEW d \in P
        PROVE  /\ ~(d \in Members(p1.queue) /\ d \in Reached(p1, ds, Len(ds)))
               /\ d \in Members(p1.queue) \/ d \in Reached(p1, ds, Len(ds))
                    <=> d \in q.pending /\ AllSlots(m, d, q.pending) = {}
    BY <1>1, <1>2, <1>9, <1>10, <1>11, <2>1
  <2>3. Members(p1.queue) \subseteq P /\ Reached(p1, ds, Len(ds)) \subseteq P /\ q.pending \subseteq P
    BY <1>3, <1>11, <2>1
  <2> QED BY <2>2, <2>3
<1>13. Distinct(q.queue) /\ Members(q.queue) = {d \in q.pending : AllSlots(m, d, q.pending) = {}}
  <2>1. PICK x \in Seq(Outputs) : Distinct(x) /\ Members(x) = Reached(p1, ds, Len(ds)) /\ q.queue = p1.queue \o x
    BY <1>2 DEF Pushed
  <2>2. p1.queue \in Seq(Outputs)
    BY <1>1 DEF IsPlan
  <2> QED BY <1>1, <1>12, <2>1, <2>2, Concatenated
<1>14. \A d \in P \ q.pending : AllSlots(m, d, q.pending) = {}
  BY <1>1, <1>2, <1>9, <1>10, <1>3
<1>15. ASSUME NEW S \in SUBSET P, Behind(m, S) PROVE S \subseteq q.pending
  <2>1. S \subseteq p.pending
    BY <1>15 DEF DrainInv
  <2>2. t \notin S
    BY <1>1, <1>15, <2>1 DEF Behind, AllSlots, Naming
  <2> QED BY <1>2, <2>1, <2>2
<1> QED BY <1>2, <1>3, <1>6, <1>7, <1>13, <1>14, <1>15 DEF DrainInv, D
-----------------------------------------------------------------------------
(* The steps of the program keep the invariant.                            *)
LEMMA InitInv == Init => IInv
<1> SUFFICES ASSUME Init PROVE IInv
  OBVIOUS
<1>1. deps \in Maps
  <2> SUFFICES ASSUME NEW t \in Outputs PROVE deps[t] \in Seq(Outputs \cup Sources)
    BY DEF Init, Maps
  <2>1. deps[t] \in UNION {[1..k -> Outputs \cup Sources] : k \in 0..MaxDeps}
    BY DEF Init, BoundedSeq, SeqOf
  <2>2. PICK k \in 0..MaxDeps : deps[t] \in [1..k -> Outputs \cup Sources]
    BY <2>1
  <2> QED BY <2>2, MaxDepsAssumption, SeqDef
<1>2. BuildInv(deps, plan, stack, asked, {})
  BY <1>1, NothingPlanned DEF Init
<1> QED BY <1>1, <1>2 DEF Init, IInv

(* A target is asked for, and its file is entered.                         *)
LEMMA AddTargetInv == ASSUME IInv, NEW t \in Outputs, AddTarget(t) PROVE IInv'
<1>1. /\ deps \in Maps /\ asked \in SUBSET Outputs /\ mode = "build" /\ stack = <<>>
      /\ BuildInv(deps, plan, <<>>, asked, {})
  BY DEF IInv, AddTarget
<1>2. deps' = deps /\ mode' = "build" /\ asked' = asked \cup {t} /\ asked' \in SUBSET Outputs
  BY <1>1 DEF AddTarget
<1>3. BuildInv(deps, plan, <<>>, asked', {t})
  BY <1>1, <1>2, Asked
<1>4. BuildInv(deps, plan', stack', asked', {})
  <2>1. CASE t \in plan.pending
    <3>1. plan' = plan /\ stack' = <<>>
      BY <2>1 DEF AddTarget, Enter
    <3> QED BY <1>3, <2>1, <3>1, EnterPending
  <2>2. CASE t \notin plan.pending
    <3>1. /\ plan' = [plan EXCEPT !.pending = @ \cup {t}]
          /\ stack' = Append(<<>>, [target |-> t, next |-> 1, inputCount |-> 0])
      BY <2>2 DEF AddTarget, Enter
    <3> QED BY <1>1, <1>2, <1>3, <2>2, <3>1, EnterNew
  <2> QED BY <2>1, <2>2
<1> QED BY <1>1, <1>2, <1>4 DEF IInv

(* An input is visited, and entered if it is generated.                    *)
LEMMA VisitInputInv == IInv /\ VisitInput => IInv'
<1> SUFFICES ASSUME IInv, VisitInput PROVE IInv'
  OBVIOUS
<1>1. /\ deps \in Maps /\ asked \in SUBSET Outputs /\ mode = "build" /\ stack # <<>>
      /\ BuildInv(deps, plan, stack, asked, {})
  BY DEF IInv, VisitInput
<1>2. deps' = deps /\ mode' = mode /\ asked' = asked
  BY DEF VisitInput
<1> DEFINE t == stack[Len(stack)].target
           k == stack[Len(stack)].next
           c == GoneOn(stack, Len(stack), Counting(deps[t][k]))
<1>3. k <= Len(deps[t])
  BY DEF VisitInput, Top
<1>4. CASE deps[t][k] \notin Outputs
  <2>1. plan' = plan /\ stack' = c
    BY <1>4 DEF VisitInput, Top, GoneOn
  <2>2. BuildInv(deps, plan, c, asked, {})
    <3> HIDE DEF c
    <3>1. c = GoneOn(stack, Len(stack), Counting(deps[t][k]))
      BY DEF c
    <3> HIDE DEF t, k
    <3>2. t = stack[Len(stack)].target /\ k = stack[Len(stack)].next
      BY DEF t, k
    <3> QED BY <1>1, <1>3, <1>4, <3>1, <3>2, VisitedSource
  <2> QED BY <1>1, <1>2, <2>1, <2>2 DEF IInv
<1>5. CASE deps[t][k] \in Outputs
  <2> DEFINE input == deps[t][k]
             q == WithDescendant(plan, input, t)
  <2>1. Enter(q, c, input)
    BY <1>5 DEF VisitInput, Top, GoneOn
  <2>2. BuildInv(deps, q, c, asked, {input})
    <3> HIDE DEF c
    <3>1. c = GoneOn(stack, Len(stack), Counting(deps[t][k]))
      BY DEF c
    <3> HIDE DEF t, k
    <3>2. t = stack[Len(stack)].target /\ k = stack[Len(stack)].next
      BY DEF t, k
    <3> QED BY <1>1, <1>3, <1>5, <3>1, <3>2, VisitedOutput
  <2>3. input \in Outputs
    BY <1>5
  <2> HIDE DEF input, q, c
  <2>4. BuildInv(deps, plan', stack', asked, {})
    <3>1. CASE input \in q.pending
      <4>1. plan' = q /\ stack' = c
        BY <2>1, <3>1 DEF Enter
      <4> QED BY <2>2, <3>1, <4>1, EnterPending
    <3>2. CASE input \notin q.pending
      <4>1. /\ plan' = [q EXCEPT !.pending = @ \cup {input}]
            /\ stack' = Append(c, [target |-> input, next |-> 1, inputCount |-> 0])
        BY <2>1, <3>2 DEF Enter
      <4> QED BY <1>1, <2>2, <2>3, <3>2, <4>1, EnterNew
    <3> QED BY <3>1, <3>2
  <2> QED BY <1>1, <1>2, <2>4 DEF IInv
<1> QED BY <1>4, <1>5

(* A call returns, and its file is queued or waits.                        *)
LEMMA LeaveTargetInv == IInv /\ LeaveTarget => IInv'
<1> SUFFICES ASSUME IInv, LeaveTarget PROVE IInv'
  OBVIOUS
<1>1. /\ deps \in Maps /\ asked \in SUBSET Outputs /\ mode = "build" /\ stack # <<>>
      /\ BuildInv(deps, plan, stack, asked, {})
  BY DEF IInv, LeaveTarget
<1>2. deps' = deps /\ mode' = mode /\ asked' = asked /\ stack' = Front(stack)
  BY DEF LeaveTarget
<1> DEFINE t == stack[Len(stack)].target
           u == stack[Len(stack)].inputCount
<1>3. stack[Len(stack)].next > Len(deps[t])
  BY DEF LeaveTarget, Top
<1>4. EndsCall(deps, plan, stack, t, stack')
  <2>1. plan.pending \in SUBSET Outputs /\ StackInv(deps, plan, stack)
    BY <1>1 DEF BuildInv, IsPlan
  <2> QED BY <1>1, <1>2, <1>3, <2>1, EndingCall
<1>5. plan' = IF u = 0 THEN [plan EXCEPT !.queue = Append(@, t)]
              ELSE [plan EXCEPT !.counts = Put(@, t, u)]
  BY DEF LeaveTarget, Top
<1>6. BuildInv(deps, plan', stack', asked, {})
  <2>1. CASE u = 0
    BY <1>1, <1>4, <1>5, <2>1, LeftReady
  <2>2. CASE u # 0
    BY <1>1, <1>4, <1>5, <2>2, LeftWaiting
  <2> QED BY <2>1, <2>2
<1> QED BY <1>1, <1>2, <1>6 DEF IInv

(* The plan is handed over to the loops that print it.                     *)
LEMMA BeginDrainInv == IInv /\ BeginDrain => IInv'
<1> SUFFICES ASSUME IInv, BeginDrain PROVE IInv'
  OBVIOUS
<1>1. /\ deps \in Maps /\ asked \in SUBSET Outputs /\ mode = "build" /\ stack = <<>>
      /\ BuildInv(deps, plan, <<>>, asked, {})
  BY DEF IInv, BeginDrain
<1>2. deps' = deps /\ mode' = "drain" /\ asked' = asked /\ stack' = <<>> /\ plan' = plan
  BY <1>1 DEF BeginDrain
<1>3. IsPlanned(deps, asked, plan.pending) /\ DrainInv(deps, plan, plan.pending)
  BY <1>1, Planning
<1> QED BY <1>1, <1>2, <1>3 DEF IInv

(* What Emit does.                                                         *)
LEMMA EmitIs ==
  ASSUME IInv, Emit, NEW t, t = Head(plan.queue), NEW ds, ds = plan.descendants[t],
         NEW P, DrainInv(deps, plan, P)
  PROVE  /\ FirstTaken(deps, plan, P, t, ds, Taken(plan, t))
         /\ Decreased(Taken(plan, t), ds, Len(ds), plan')
<1>1. deps \in Maps /\ plan.queue # <<>> /\ IsPlan(plan)
  BY DEF IInv, Emit, DrainInv
<1>2. plan' = DecrementAll(Taken(plan, t), ds)
  BY <1>1 DEF Emit, Erase, Taken, IsPlan
<1>3. FirstTaken(deps, plan, P, t, ds, Taken(plan, t))
  BY <1>1, Taking
<1>4. Decreased(Taken(plan, t), ds, Len(ds), plan')
  BY <1>2, <1>3, AllDecrements DEF FirstTaken
<1> QED BY <1>3, <1>4

(* A file is printed and erased.                                           *)
LEMMA EmitInv == IInv /\ Emit => IInv'
<1> SUFFICES ASSUME IInv, Emit PROVE IInv'
  OBVIOUS
<1>1. deps \in Maps /\ asked \in SUBSET Outputs /\ mode = "drain" /\ stack = <<>> /\ plan.queue # <<>>
  BY DEF IInv, Emit
<1>2. deps' = deps /\ mode' = mode /\ asked' = asked /\ stack' = stack
  BY DEF Emit
<1>3. PICK P : IsPlanned(deps, asked, P) /\ DrainInv(deps, plan, P)
  BY <1>1 DEF IInv
<1> DEFINE t == Head(plan.queue)
           ds == plan.descendants[t]
<1>4. Decreased(Taken(plan, t), ds, Len(ds), plan')
  BY <1>3, EmitIs
<1>5. DrainInv(deps, plan', P)
  BY <1>1, <1>3, <1>4, Emitting
<1> QED BY <1>1, <1>2, <1>3, <1>5 DEF IInv

(* No other step does anything.                                            *)
LEMMA NextInv == IInv /\ [Next]_vars => IInv'
<1> SUFFICES ASSUME IInv, [Next]_vars PROVE IInv'
  OBVIOUS
<1>1. CASE \E t \in Outputs : AddTarget(t)
  BY <1>1, AddTargetInv
<1>2. CASE UNCHANGED vars
  BY <1>2 DEF IInv, vars
<1> QED BY <1>1, <1>2, VisitInputInv, LeaveTargetInv, BeginDrainInv, EmitInv DEF Next

(* The invariant holds throughout every run.                               *)
THEOREM InductiveInvariant == Spec => []IInv
BY InitInv, NextInv, PTL DEF Spec

-----------------------------------------------------------------------------
(* The closed forms, in the terms of the map.                              *)
LEMMA SameSlots ==
  ASSUME NEW d, NEW S
  PROVE  Reference!SlotsIn(d, S) = AllSlots(deps, d, S)
BY DEF Reference!SlotsIn, AllSlots, Naming

(* Closed under producers means the same in both.                          *)
LEMMA SameClosed ==
  ASSUME deps \in Maps, NEW S \in SUBSET Outputs
  PROVE  Reference!Closed(S) <=> ClosedIn(deps, S)
<1>1. \A d \in Outputs : Reference!Producers[d] = {i \in Outputs : \E k \in DOMAIN deps[d] : deps[d][k] = i}
  BY DEF Reference!Producers, Reference!SlotsIn
<1> QED BY <1>1 DEF Reference!Closed, ClosedIn

(* There is only one plan of the targets.                                  *)
LEMMA ThePlanned ==
  ASSUME deps \in Maps, NEW P, IsPlanned(deps, asked, P)
  PROVE  P = Reference!Planned(asked)
<1>1. Reference!Closed(P) /\ P \in SUBSET Outputs /\ asked \subseteq P
  BY SameClosed DEF IsPlanned
<1>2. \A S \in SUBSET Outputs : asked \subseteq S /\ Reference!Closed(S) => P \subseteq S
  BY SameClosed DEF IsPlanned, Within
<1>3. Reference!Planned(asked)
        = {t \in Outputs : \A S \in SUBSET Outputs : asked \subseteq S /\ Reference!Closed(S) => t \in S}
  BY DEF Reference!Planned
<1> QED BY <1>1, <1>2, <1>3

(* Whatever the map, and however the targets are ordered, what the         *)
(* recursion of build_update_plan leaves when its last call returns is the *)
(* closed form that the rest of the project is built on                    *)
(* (src/update_plan.cpp:5-49).                                             *)
THEOREM RecursionIsClosedForm == Spec => []PlanIsClosedForm
<1>1. IInv => PlanIsClosedForm
  <2> SUFFICES ASSUME IInv, mode = "build", stack = <<>>
               PROVE  /\ plan.pending = Reference!Planned(asked)
                      /\ plan.counts = Reference!InitialCounts(plan.pending)
                      /\ plan.queue \in Reference!Orderings(plan.pending \ DOMAIN plan.counts)
    BY DEF PlanIsClosedForm
  <2>1. deps \in Maps /\ asked \in SUBSET Outputs /\ BuildInv(deps, plan, <<>>, asked, {})
    BY DEF IInv
  <2>2. plan.pending = Reference!Planned(asked)
    BY <2>1, Planning, ThePlanned
  <2>3. Returned(plan, <<>>) = plan.pending
    BY DEF Returned, OnStack
  <2>4. plan.counts = [d \in {t \in plan.pending : AllSlots(deps, t, Outputs) # {}} |->
                         Cardinality(AllSlots(deps, d, Outputs))]
    BY <2>1, <2>3 DEF BuildInv, CountsInv
  <2>5. plan.counts = Reference!InitialCounts(plan.pending)
    BY <2>4, SameSlots, SameCardinality, Zenon DEF Reference!InitialCounts
  <2>6. Members(plan.queue) = plan.pending \ DOMAIN plan.counts
    BY <2>1, <2>3, <2>4 DEF BuildInv, QueueInv
  <2>7. plan.queue \in Seq(Outputs) /\ Distinct(plan.queue)
    BY <2>1 DEF BuildInv, IsPlan, QueueInv
  <2>8. plan.queue \in Reference!Orderings(plan.pending \ DOMAIN plan.counts)
    BY <2>6, <2>7, OrderingOf
  <2> QED BY <2>2, <2>5, <2>8
<1> QED BY <1>1, InductiveInvariant, PTL

(* When the queue is empty, what is left is what is behind a cycle, and    *)
(* nothing else (src/update_plan.h:22-39).                                 *)
THEOREM LeftoverIsBehindCycles == Spec => []LeftoverIsCyclic
<1>1. IInv => LeftoverIsCyclic
  <2> SUFFICES ASSUME IInv, mode = "drain", plan.queue = <<>>
               PROVE  plan.pending = BehindACycle
    BY DEF LeftoverIsCyclic
  <2>1. PICK P : IsPlanned(deps, asked, P) /\ DrainInv(deps, plan, P)
    BY DEF IInv
  <2>2. P = Reference!Planned(asked) /\ P \in SUBSET Outputs /\ plan.pending \in SUBSET P
    BY <2>1, ThePlanned DEF IInv, IsPlanned, DrainInv
  <2>3. ASSUME NEW S \in SUBSET P
        PROVE  Behind(deps, S) <=> \A t \in S : Reference!Producers[t] \cap S # {}
    <3>1. \A t \in S : Reference!Producers[t] = {i \in Outputs : \E k \in DOMAIN deps[t] : deps[t][k] = i}
      BY <2>2 DEF Reference!Producers, Reference!SlotsIn
    <3> QED BY <2>2, <3>1 DEF Behind, AllSlots, Naming
  <2>4. Members(<<>>) = {}
    BY DEF Members
  <2>5. Behind(deps, plan.pending)
    BY <2>1, <2>4 DEF DrainInv, Behind
  <2>6. \A S \in SUBSET P : Behind(deps, S) => S \subseteq plan.pending
    BY <2>1 DEF DrainInv
  <2>7. BehindACycle = UNION {S \in SUBSET P : Behind(deps, S)}
    BY <2>2, <2>3 DEF BehindACycle
  <2> QED BY <2>2, <2>5, <2>6, <2>7
<1> QED BY <1>1, InductiveInvariant, PTL

(* Each erase amounts to the closed form and never finds the plan          *)
(* corrupted (src/update_plan.h:22-39).                                    *)
THEOREM LoopIsClosedForm == Spec => EraseIsClosedForm
<1> DEFINE ErasesRight ==
             LET t == Head(plan.queue)
             IN  /\ plan'.counts = Reference!CountsAfter(plan.counts, t)
                 /\ \E s \in Reference!Orderings(Reference!Released(plan.counts, t)) :
                      plan'.queue = Tail(plan.queue) \o s
                 /\ ~plan'.corrupted
<1>1. ASSUME IInv, Emit PROVE ErasesRight
  <2> DEFINE t == Head(plan.queue)
             ds == plan.descendants[t]
             p1 == Taken(plan, t)
  <2>1. PICK P : IsPlanned(deps, asked, P) /\ DrainInv(deps, plan, P)
    BY <1>1 DEF IInv, Emit
  <2>2. FirstTaken(deps, plan, P, t, ds, p1) /\ Decreased(p1, ds, Len(ds), plan')
    BY <1>1, <2>1, EmitIs
  <2> HIDE DEF t, ds, p1
  <2>3. p1.counts = plan.counts /\ p1.queue = Tail(plan.queue)
    BY <2>2 DEF FirstTaken
  <2>4. DOMAIN plan.counts \subseteq P
    BY <2>1 DEF DrainInv
  <2>5. \A d \in DOMAIN plan.counts : UpTo(ds, Len(ds), d) = Reference!Uses(t, d)
    <3>1. \A d \in P : UpTo(ds, Len(ds), d) = Cardinality(AllSlots(deps, d, {t}))
      BY <2>2 DEF FirstTaken, Times
    <3>2. \A d : Reference!Uses(t, d) = Cardinality(AllSlots(deps, d, {t}))
      BY SameSlots, SameCardinality DEF Reference!Uses
    <3> QED BY <2>4, <3>1, <3>2
  <2>6. plan'.counts = Reference!CountsAfter(plan.counts, t)
    BY <2>2, <2>3, <2>5 DEF Decreased, Reference!CountsAfter
  <2>7. Reached(p1, ds, Len(ds)) = Reference!Released(plan.counts, t)
    BY <2>3, <2>5 DEF Reached, Reference!Released
  <2>8. PICK x \in Seq(Outputs) :
          Distinct(x) /\ Members(x) = Reached(p1, ds, Len(ds)) /\ plan'.queue = p1.queue \o x
    BY <2>2 DEF Decreased, Pushed
  <2>9. x \in Reference!Orderings(Reference!Released(plan.counts, t))
    BY <2>7, <2>8, OrderingOf
  <2>10. ~plan'.corrupted
    BY <2>2 DEF Decreased, IsPlan
  <2> QED BY <2>3, <2>6, <2>8, <2>9, <2>10 DEF t
<1>2. IInv /\ [Next]_vars => [Emit => ErasesRight]_vars
  BY <1>1
<1>3. Spec => [][Emit => ErasesRight]_vars
  BY <1>2, InductiveInvariant, PTL DEF Spec
<1> QED BY <1>3 DEF EraseIsClosedForm
==============================================================================
