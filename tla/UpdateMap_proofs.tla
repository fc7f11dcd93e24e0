-------------------------- MODULE UpdateMap_proofs --------------------------
(***************************************************************************)
(* Proofs about UpdateMap: the map that is returned holds what the rules   *)
(* say and nothing else, and files do not need each other in a circle; the *)
(* crawler finds each file that a pattern fits, once.                      *)
(* The inductive invariant says so of the rules the loop has come to: what *)
(* a rule says (Outcome) is partly stored and partly in data, and since a  *)
(* rule names earlier ones only, what it says does not change any more     *)
(* while the outputs of later rules are stored (Stable). What the loops    *)
(* gather is a recursive function and what FlattenSeq gives is chosen by   *)
(* such an equation: both are proved by induction on the length. The       *)
(* crawler has an invariant of its own (WalkInv), at the end.              *)
(***************************************************************************)
EXTENDS UpdateMap, SequenceTheorems, FiniteSetTheorems, TLAPS

(* Induction over the natural numbers, for a set.                          *)
LEMMA Induction ==
  ASSUME NEW S \in SUBSET Nat, 0 \in S, \A n \in S : n + 1 \in S
  PROVE  S = Nat
<1> SUFFICES ASSUME S # Nat PROVE FALSE
  OBVIOUS
<1> DEFINE T == Nat \ S
           R == OpToRel(<, Nat)
<1>1. IsWellFoundedOn(R, Nat)
  BY NatLessThanWellFounded, Zenon
<1>2. T \subseteq Nat /\ T # {}
  OBVIOUS
<1>3. PICK x \in T : \A y \in T : ~ (<<y, x>> \in R)
  <2> HIDE DEF T, R
  <2> QED BY <1>1, <1>2, WFMin
<1>4. \A y \in T : ~ (y < x)
  BY <1>2, <1>3 DEF OpToRel
<1>5. x \in Nat /\ x \notin S /\ x # 0
  OBVIOUS
<1>6. x - 1 \in Nat /\ x - 1 < x /\ (x - 1) + 1 = x
  BY <1>5
<1>7. x - 1 \in S
  BY <1>4, <1>6
<1> QED BY <1>5, <1>6, <1>7

(* A set of numbers that is not empty has a least element.                 *)
LEMMA Least ==
  ASSUME NEW T \in SUBSET Nat, T # {}
  PROVE  \E x \in T : \A y \in T : x <= y
<1> DEFINE R == OpToRel(<, Nat)
<1>1. IsWellFoundedOn(R, Nat)
  BY NatLessThanWellFounded, Zenon
<1>2. PICK x \in T : \A y \in T : ~ (<<y, x>> \in R)
  <2> HIDE DEF R
  <2> QED BY <1>1, WFMin
<1>3. \A y \in T : ~ (y < x)
  BY <1>2 DEF OpToRel
<1> QED BY <1>3

-----------------------------------------------------------------------------
(* Sequences of anything.                                                  *)
IsSequence(s) == s \in Seq(ToSet(s))

(* A sequence over any set is one over its own elements.                   *)
LEMMA SequenceOf ==
  ASSUME NEW U, NEW s \in Seq(U)
  PROVE  /\ IsSequence(s) /\ ToSet(s) \subseteq U
         /\ Len(s) \in Nat /\ DOMAIN s = 1..Len(s)
<1>1. Len(s) \in Nat /\ DOMAIN s = 1..Len(s)
  OBVIOUS
<1>2. s \in [1..Len(s) -> ToSet(s)]
  BY <1>1 DEF ToSet
<1>3. s \in Seq(ToSet(s))
  BY <1>1, <1>2, SeqDef
<1>4. ToSet(s) \subseteq U
  BY <1>1 DEF ToSet
<1> QED BY <1>1, <1>3, <1>4 DEF IsSequence

(* A function on 1..n is a sequence of length n, whatever its values are.  *)
LEMMA SequenceOfLength ==
  ASSUME NEW n \in Nat, NEW s, s = [k \in 1..n |-> s[k]]
  PROVE  IsSequence(s) /\ Len(s) = n
<1>1. s \in [1..n -> ToSet(s)]
  <2>1. DOMAIN s = 1..n
    OBVIOUS
  <2> QED BY <2>1 DEF ToSet
<1>2. s \in Seq(ToSet(s))
  BY <1>1, SeqDef
<1> QED BY <1>1, <1>2 DEF IsSequence

(* A sequence is one over any set that has its elements.                   *)
LEMMA SequenceIn ==
  ASSUME NEW U, NEW s, IsSequence(s), ToSet(s) \subseteq U
  PROVE  s \in Seq(U)
<1>1. Len(s) \in Nat /\ s \in [1..Len(s) -> ToSet(s)]
  BY DEF IsSequence
<1>2. s \in [1..Len(s) -> U]
  BY <1>1
<1> QED BY <1>1, <1>2, SeqDef

(* Append() adds one element.                                              *)
LEMMA SequenceAppend ==
  ASSUME NEW s, IsSequence(s), NEW x
  PROVE  IsSequence(Append(s, x)) /\ ToSet(Append(s, x)) = ToSet(s) \cup {x}
<1> DEFINE U == ToSet(s) \cup {x}
<1>1. s \in Seq(U)
  BY SequenceIn
<1>2. Append(s, x) \in Seq(U)
  BY <1>1
<1>3. Len(s) \in Nat /\ DOMAIN s = 1..Len(s) /\ DOMAIN Append(s, x) = 1..(Len(s) + 1)
  BY <1>1
<1>4. (\A i \in 1..Len(s) : Append(s, x)[i] = s[i]) /\ Append(s, x)[Len(s) + 1] = x
  BY <1>1
<1>5. ToSet(Append(s, x)) = U
  <2>1. \A i \in 1..(Len(s) + 1) : i \in 1..Len(s) \/ i = Len(s) + 1
    BY <1>3
  <2>2. \A i \in 1..Len(s) : i \in 1..(Len(s) + 1)
    BY <1>3
  <2>3. Len(s) + 1 \in 1..(Len(s) + 1)
    BY <1>3
  <2> QED BY <1>3, <1>4, <2>1, <2>2, <2>3 DEF ToSet
<1> QED BY <1>2, <1>5, SequenceOf

(* Contains() of the community modules is about the elements.              *)
LEMMA SequenceContains ==
  ASSUME NEW s, IsSequence(s), NEW x
  PROVE  Contains(s, x) <=> x \in ToSet(s)
BY DEF IsSequence, Contains, ToSet

(* Concatenation has the elements of both sequences.                       *)
LEMMA SequenceConcat ==
  ASSUME NEW U, NEW s \in Seq(U), NEW t \in Seq(U)
  PROVE  s \o t \in Seq(U) /\ ToSet(s \o t) = ToSet(s) \cup ToSet(t)
<1>1. s \o t \in Seq(U) /\ Len(s) \in Nat /\ Len(t) \in Nat
  OBVIOUS
<1>2. DOMAIN s = 1..Len(s) /\ DOMAIN t = 1..Len(t) /\ DOMAIN (s \o t) = 1..(Len(s) + Len(t))
  OBVIOUS
<1>3. \A i \in 1..(Len(s) + Len(t)) :
        (s \o t)[i] = IF i \in 1..Len(s) THEN s[i] ELSE t[i - Len(s)]
  BY <1>1
<1>4. ASSUME NEW i \in DOMAIN (s \o t) PROVE (s \o t)[i] \in ToSet(s) \cup ToSet(t)
  <2>1. i \in 1..Len(s) \/ i - Len(s) \in 1..Len(t)
    BY <1>1, <1>2
  <2> QED BY <1>2, <1>3, <2>1 DEF ToSet
<1>5. ASSUME NEW i \in DOMAIN s PROVE s[i] \in ToSet(s \o t)
  <2>1. i \in 1..(Len(s) + Len(t)) /\ (s \o t)[i] = s[i]
    BY <1>1, <1>2, <1>3
  <2> QED BY <1>2, <2>1 DEF ToSet
<1>6. ASSUME NEW i \in DOMAIN t PROVE t[i] \in ToSet(s \o t)
  <2>1. Len(s) + i \in 1..(Len(s) + Len(t)) /\ Len(s) + i \notin 1..Len(s) /\ (Len(s) + i) - Len(s) = i
    BY <1>1, <1>2
  <2>2. (s \o t)[Len(s) + i] = t[i]
    BY <1>3, <2>1
  <2> QED BY <1>2, <2>1, <2>2 DEF ToSet
<1> QED BY <1>1, <1>4, <1>5, <1>6 DEF ToSet

-----------------------------------------------------------------------------
(* FlattenSeq, as a list of partial results that the definition chooses.   *)
IsFlattening(seqs, A) ==
  A = [i \in 1..Len(seqs) |-> IF i = 1 THEN seqs[i] ELSE A[i - 1] \o seqs[i]]

(* There is such a list of partial results, by induction on its length:    *)
(* what CHOOSE and a recursive function mean rests on this.                *)
LEMMA FlatteningExists ==
  ASSUME NEW seqs, Len(seqs) \in Nat
  PROVE  \E A : IsFlattening(seqs, A)
<1> DEFINE Upto(A, n) == A = [i \in 1..n |-> IF i = 1 THEN seqs[i] ELSE A[i - 1] \o seqs[i]]
           S == {n \in Nat : \E A : Upto(A, n)}
<1>1. 0 \in S
  <2>1. Upto([i \in 1..0 |-> <<>>], 0)
    OBVIOUS
  <2> QED BY <2>1
<1>2. ASSUME NEW n \in S PROVE n + 1 \in S
  <2>1. n \in Nat
    OBVIOUS
  <2>2. PICK A : Upto(A, n)
    OBVIOUS
  <2> DEFINE last == IF n = 0 THEN seqs[1] ELSE A[n] \o seqs[n + 1]
             B    == [i \in 1..(n + 1) |-> IF i = n + 1 THEN last ELSE A[i]]
  <2>3. ASSUME NEW i \in 1..(n + 1)
        PROVE  B[i] = IF i = 1 THEN seqs[i] ELSE B[i - 1] \o seqs[i]
    <3>1. CASE i = n + 1
      BY <2>1, <3>1
    <3>2. CASE i # n + 1
      <4>1. i \in 1..n /\ B[i] = A[i] /\ (i # 1 => B[i - 1] = A[i - 1])
        BY <2>1, <3>2
      <4>2. A[i] = IF i = 1 THEN seqs[i] ELSE A[i - 1] \o seqs[i]
        BY <2>2, <4>1
      <4> HIDE DEF B
      <4> QED BY <4>1, <4>2
    <3> QED BY <3>1, <3>2
  <2>4. B = [i \in 1..(n + 1) |-> B[i]]
    OBVIOUS
  <2> HIDE DEF B
  <2>5. Upto(B, n + 1)
    BY <2>3, <2>4
  <2> HIDE DEF Upto
  <2>6. \E C : Upto(C, n + 1)
    BY <2>5
  <2> QED BY <2>1, <2>6
<1> HIDE DEF S
<1>3. S = Nat
  <2>1. S \in SUBSET Nat
    BY DEF S
  <2> QED BY <1>1, <1>2, <2>1, Induction
<1> QED BY <1>3 DEF S, IsFlattening

(* A sequence of sequences, flattened, has the elements of all of them.    *)
LEMMA Flattened ==
  ASSUME NEW U, NEW seqs, Len(seqs) \in Nat, DOMAIN seqs = 1..Len(seqs),
         seqs = <<>> \/ Len(seqs) # 0, \A i \in DOMAIN seqs : seqs[i] \in Seq(U)
  PROVE  /\ FlattenSeq(seqs) \in Seq(U)
         /\ ToSet(FlattenSeq(seqs)) = UNION {ToSet(seqs[i]) : i \in DOMAIN seqs}
<1>1. CASE Len(seqs) = 0
  <2>1. FlattenSeq(seqs) = <<>> /\ DOMAIN seqs = {}
    BY <1>1 DEF FlattenSeq
  <2> QED BY <2>1 DEF ToSet
<1>2. CASE Len(seqs) # 0
  <2> DEFINE n == Len(seqs)
             A == CHOOSE B : IsFlattening(seqs, B)
  <2>1. FlattenSeq(seqs) = A[n]
    BY <1>2, Zenon DEF FlattenSeq, IsFlattening
  <2>2. IsFlattening(seqs, A)
    BY FlatteningExists
  <2> HIDE DEF A
  <2> DEFINE Good(k) == A[k] \in Seq(U) /\ ToSet(A[k]) = UNION {ToSet(seqs[i]) : i \in 1..k}
             S == {k \in Nat : k \in 1..n => Good(k)}
  <2>3. 0 \in S
    OBVIOUS
  <2>4. ASSUME NEW k \in S PROVE k + 1 \in S
    <3> SUFFICES ASSUME k + 1 \in 1..n PROVE Good(k + 1)
      OBVIOUS
    <3>1. A[k + 1] = IF k + 1 = 1 THEN seqs[k + 1] ELSE A[k] \o seqs[k + 1]
      <4>1. (k + 1) - 1 = k
        OBVIOUS
      <4> QED BY <2>2, <4>1 DEF IsFlattening
    <3>2. seqs[k + 1] \in Seq(U)
      OBVIOUS
    <3>3. 1..(k + 1) = 1..k \cup {k + 1}
      OBVIOUS
    <3>4. CASE k = 0
      <4>1. A[1] = seqs[1] /\ 1..1 = {1} /\ k + 1 = 1
        BY <3>1, <3>4
      <4> QED BY <3>2, <4>1
    <3>5. CASE k # 0
      <4>1. k \in 1..n /\ A[k + 1] = A[k] \o seqs[k + 1]
        <5>1. k \in Nat /\ n \in Nat /\ k + 1 # 1 /\ k + 1 \in 1..n
          BY <3>5
        <5>2. k \in 1..n
          BY <3>5, <5>1
        <5>3. A[k + 1] = A[k] \o seqs[k + 1]
          BY <3>1, <5>1, Zenon
        <5> QED BY <5>2, <5>3
      <4>2. Good(k)
        BY <4>1
      <4>3. A[k + 1] \in Seq(U) /\ ToSet(A[k + 1]) = ToSet(A[k]) \cup ToSet(seqs[k + 1])
        BY <3>2, <4>1, <4>2, SequenceConcat
      <4> QED BY <3>3, <4>2, <4>3
    <3> QED BY <3>4, <3>5
  <2> HIDE DEF S
  <2>5. S = Nat
    <3>1. S \in SUBSET Nat
      BY DEF S
    <3> QED BY <2>3, <2>4, <3>1, Induction
  <2>6. n \in 1..n
    BY <1>2
  <2>7. Good(n)
    BY <2>5, <2>6 DEF S
  <2> QED BY <2>1, <2>7
<1> QED BY <1>1, <1>2

-----------------------------------------------------------------------------
(* What is gathered of a set of captures: the outputs they resolve to, and *)
(* for each the texts of those that do.                                    *)
Gathers(gathered, segments, captures) ==
  /\ DOMAIN gathered = {Resolve(segments, c).value : c \in captures}
  /\ \A path \in DOMAIN gathered :
       /\ IsSequence(gathered[path].inputs)
       /\ ToSet(gathered[path].inputs) =
            {c.value : c \in {d \in captures : Resolve(segments, d).value = path}}

(* One more capture is gathered: its output appears or has one more input. *)
LEMMA GatherOne ==
  ASSUME NEW segments, NEW C, NEW gathered, Gathers(gathered, segments, C), NEW c
  PROVE  Gathers(Gather(gathered, segments, c), segments, C \cup {c})
<1> DEFINE output == Resolve(segments, c)
           before == IF output.value \in DOMAIN gathered THEN gathered[output.value].inputs ELSE <<>>
           after  == Gather(gathered, segments, c)
           Of(S, path) == {d.value : d \in {e \in S : Resolve(segments, e).value = path}}
<1>1. after = [path \in DOMAIN gathered \cup {output.value} |->
                 IF path # output.value THEN gathered[path]
                 ELSE [inputs |-> Append(before, c.value), starts |-> output.starts]]
  BY DEF Gather
<1>2. IsSequence(before) /\ ToSet(before) = Of(C, output.value)
  <2>1. CASE output.value \in DOMAIN gathered
    BY <2>1 DEF Gathers
  <2>2. CASE output.value \notin DOMAIN gathered
    <3>1. before = <<>> /\ ToSet(<<>>) = {} /\ IsSequence(<<>>)
      BY <2>2 DEF ToSet, IsSequence
    <3>2. Of(C, output.value) = {}
      BY <2>2 DEF Gathers
    <3> QED BY <3>1, <3>2
  <2> QED BY <2>1, <2>2
<1>3. Of(C \cup {c}, output.value) = Of(C, output.value) \cup {c.value}
  OBVIOUS
<1>4. \A path : path # output.value => Of(C \cup {c}, path) = Of(C, path)
  OBVIOUS
<1>5. DOMAIN after = {Resolve(segments, d).value : d \in C \cup {c}}
  <2>1. DOMAIN gathered = {Resolve(segments, d).value : d \in C}
    BY DEF Gathers
  <2> HIDE DEF after
  <2> QED BY <1>1, <2>1
<1> HIDE DEF before, after
<1>6. after[output.value].inputs = Append(before, c.value)
  BY <1>1
<1>7. IsSequence(after[output.value].inputs)
      /\ ToSet(after[output.value].inputs) = Of(C \cup {c}, output.value)
  BY <1>2, <1>3, <1>6, SequenceAppend
<1>8. ASSUME NEW path \in DOMAIN after, path # output.value
      PROVE  IsSequence(after[path].inputs) /\ ToSet(after[path].inputs) = Of(C \cup {c}, path)
  <2>1. path \in DOMAIN gathered /\ after[path] = gathered[path]
    BY <1>1, <1>8
  <2>2. Of(C \cup {c}, path) = Of(C, path)
    BY <1>4, <1>8
  <2> QED BY <2>1, <2>2 DEF Gathers
<1> QED BY <1>5, <1>7, <1>8 DEF Gathers, after

(* The results of gathering the first n captures, one by one.              *)
IsGathering(segments, captures, A, n) ==
  A = [k \in 0..n |-> IF k = 0 THEN Nothing ELSE Gather(A[k - 1], segments, captures[k])]

(* The recursive function of Gathered() exists, by induction.              *)
LEMMA GatheringExists ==
  ASSUME NEW segments, NEW captures
  PROVE  \A n \in Nat : \E A : IsGathering(segments, captures, A, n)
<1> DEFINE S == {n \in Nat : \E A : IsGathering(segments, captures, A, n)}
<1>1. 0 \in S
  <2>1. IsGathering(segments, captures, [k \in 0..0 |-> Nothing], 0)
    BY DEF IsGathering
  <2> QED BY <2>1
<1>2. ASSUME NEW n \in S PROVE n + 1 \in S
  <2>1. n \in Nat
    OBVIOUS
  <2>2. PICK A : IsGathering(segments, captures, A, n)
    OBVIOUS
  <2> DEFINE B == [k \in 0..(n + 1) |->
                     IF k = n + 1 THEN Gather(A[n], segments, captures[n + 1]) ELSE A[k]]
  <2>3. ASSUME NEW k \in 0..(n + 1)
        PROVE  B[k] = IF k = 0 THEN Nothing ELSE Gather(B[k - 1], segments, captures[k])
    <3>1. CASE k = n + 1
      BY <2>1, <3>1
    <3>2. CASE k # n + 1
      <4>1. k \in 0..n /\ B[k] = A[k] /\ (k # 0 => B[k - 1] = A[k - 1])
        BY <2>1, <3>2
      <4>2. A[k] = IF k = 0 THEN Nothing ELSE Gather(A[k - 1], segments, captures[k])
        BY <2>2, <4>1 DEF IsGathering
      <4> HIDE DEF B
      <4> QED BY <4>1, <4>2
    <3> QED BY <3>1, <3>2
  <2>4. B = [k \in 0..(n + 1) |-> B[k]]
    OBVIOUS
  <2> HIDE DEF B
  <2>5. IsGathering(segments, captures, B, n + 1)
    BY <2>3, <2>4 DEF IsGathering
  <2> QED BY <2>1, <2>5
<1> HIDE DEF S
<1>3. S = Nat
  <2>1. S \in SUBSET Nat
    BY DEF S
  <2> QED BY <1>1, <1>2, <2>1, Induction
<1> QED BY <1>3 DEF S

(* The loops over the inputs of a rule gather all of them.                 *)
LEMMA GatheredMeaning ==
  ASSUME NEW segments, NEW U, NEW captures \in Seq(U)
  PROVE  Gathers(Gathered(segments, captures), segments, ToSet(captures))
<1> DEFINE n == Len(captures)
           A == CHOOSE B : IsGathering(segments, captures, B, n)
<1>1. Gathered(segments, captures) = A[n]
  BY Zenon DEF Gathered, IsGathering
<1>2. n \in Nat /\ DOMAIN captures = 1..n
  OBVIOUS
<1>3. IsGathering(segments, captures, A, n)
  BY <1>2, GatheringExists
<1> HIDE DEF A
<1> DEFINE Good(k) == Gathers(A[k], segments, {captures[i] : i \in 1..k})
           S == {k \in Nat : k \in 0..n => Good(k)}
<1>4. 0 \in S
  <2>1. A[0] = Nothing
    BY <1>2, <1>3 DEF IsGathering
  <2>2. DOMAIN Nothing = {} /\ {captures[i] : i \in 1..0} = {}
    BY DEF Nothing
  <2>3. Good(0)
    BY <2>1, <2>2 DEF Gathers
  <2> QED BY <2>3
<1>5. ASSUME NEW k \in S PROVE k + 1 \in S
  <2> SUFFICES ASSUME k + 1 \in 0..n PROVE Good(k + 1)
    OBVIOUS
  <2>1. k \in Nat /\ k + 1 # 0 /\ (k + 1) - 1 = k
    OBVIOUS
  <2>2. k \in 0..n
    BY <1>2, <2>1
  <2>3. Good(k)
    BY <2>2
  <2>4. A[k + 1] = Gather(A[k], segments, captures[k + 1])
    BY <1>3, <2>1 DEF IsGathering
  <2>5. {captures[i] : i \in 1..(k + 1)} = {captures[i] : i \in 1..k} \cup {captures[k + 1]}
    <3>1. 1..(k + 1) = 1..k \cup {k + 1}
      BY <2>1
    <3> QED BY <3>1
  <2> QED BY <2>3, <2>4, <2>5, GatherOne
<1> HIDE DEF S
<1>6. S = Nat
  <2>1. S \in SUBSET Nat
    BY DEF S
  <2> QED BY <1>4, <1>5, <2>1, Induction
<1>7. Good(n)
  <2>1. n \in S /\ n \in 0..n
    BY <1>2, <1>6
  <2> HIDE DEF n, Good
  <2> QED BY <2>1 DEF S
<1>8. {captures[i] : i \in 1..n} = ToSet(captures)
  BY <1>2 DEF ToSet
<1> QED BY <1>1, <1>7, <1>8

-----------------------------------------------------------------------------
(* No error was thrown, and the crawl is over.                             *)
Working == phase \in {"rules", "done"}

RuleNumbers == 1..Len(manifest.rules)

(* The manifest, as the constants have it.                                 *)
ManifestInv ==
  /\ Len(manifest.source_patterns) \in Nat
  /\ DOMAIN manifest.source_patterns = 1..Len(manifest.source_patterns)
  /\ Len(manifest.rules) \in Nat /\ DOMAIN manifest.rules = RuleNumbers
  /\ \A r \in RuleNumbers :
       /\ manifest.rules[r].inputs \in Seq(Input)
       /\ manifest.rules[r].dependencies \in Seq(Input)
       /\ manifest.rules[r].order_only_dependencies \in Seq(Input)
       /\ \A input \in InputsIn(manifest.rules[r]) :
            input.type = "source" => input.ix \in DOMAIN manifest.source_patterns

(* What the crawl leaves of it all: files in some order.                   *)
CrawlInv ==
  /\ DOMAIN matches = DOMAIN manifest.source_patterns
  /\ \A i \in DOMAIN matches : IsSequence(matches[i])
  /\ Working => /\ DOMAIN sources = DOMAIN manifest.source_patterns
                /\ \A i \in DOMAIN sources : IsSequence(sources[i])

(* Each output of a rule is a file, and a file of that rule.               *)
CapturedInv ==
  /\ DOMAIN captured_paths = RuleNumbers
  /\ \A r \in RuleNumbers :
       /\ IsSequence(captured_paths[r])
       /\ \A out \in ToSet(captured_paths[r]) :
            out.value \in DOMAIN output_files /\ output_files[out.value].rule = r

(* Only earlier rules are referred to by those the loop has come to.       *)
Earlier(r) == \A input \in InputsIn(manifest.rules[r]) : ~RefersToLater(input, r)

(* What a rule says: all that its inputs resolve to.                       *)
Outcome(r) == Gathered(SegmentsOf(r), CapturesOf(manifest.rules[r].inputs))

(* A file is what its rule, one of those the loop has come to, says.       *)
IsFile(p, f) ==
  LET d == manifest.rules[f.rule]
  IN  /\ f.rule \in 1..rule /\ f.inputs = Outcome(f.rule)[p].inputs
      /\ f.dependencies = [k \in DOMAIN d.dependencies |-> Values(Captures(d.dependencies[k]))]
      /\ f.order_only_dependencies = ToSet(Values(CapturesOf(d.order_only_dependencies)))

(* What a rule says is in the map, but for what is not stored yet.         *)
Stored(r) ==
  DOMAIN Outcome(r) = {p \in DOMAIN output_files : output_files[p].rule = r}
                      \cup (IF r = rule THEN DOMAIN data ELSE {})

FilesInv ==
  /\ rule \in 0..Len(manifest.rules)
  /\ phase = "crawl" => rule = 0
  /\ rule = 0 => data = Nothing /\ output_files = Nothing
  /\ phase = "done" => rule = Len(manifest.rules) /\ DOMAIN data = {}
  /\ Working => /\ \A r \in 1..rule : Earlier(r) /\ Stored(r)
                /\ \A p \in DOMAIN data : data[p] = Outcome(rule)[p]
                /\ \A p \in DOMAIN output_files : IsFile(p, output_files[p])

(* The inductive invariant.                                                *)
IInv == ManifestInv /\ CrawlInv /\ CapturedInv /\ FilesInv

-----------------------------------------------------------------------------
(* All captured strings there are: of source files, and of outputs.        *)
SourceCaptures == UNION {ToSet(sources[i]) : i \in DOMAIN sources}
RuleCaptures   == UNION {ToSet(captured_paths[r]) : r \in RuleNumbers}
AllCaptures    == SourceCaptures \cup RuleCaptures

(* What an input of a rule names are sequences of captured strings.        *)
LEMMA InputCaptures ==
  ASSUME ManifestInv, CrawlInv, CapturedInv, Working,
         NEW r \in RuleNumbers, Earlier(r), NEW input \in InputsIn(manifest.rules[r])
  PROVE  /\ Captures(input) \in Seq(AllCaptures) /\ IsSequence(Captures(input))
         /\ \/ input.ix \in DOMAIN sources /\ Captures(input) = sources[input.ix]
            \/ input.ix \in 1..(r - 1) /\ Captures(input) = captured_paths[input.ix]
<1>1. input \in Input
  <2>1. \A s \in Seq(Input) : ToSet(s) \subseteq Input
    BY SequenceOf
  <2> QED BY <2>1 DEF InputsIn, ManifestInv
<1>2. input.type \in {"source", "rule"} /\ input.ix \in Nat \ {0}
  BY <1>1 DEF Input
<1>3. CASE input.type = "source"
  <2>1. input.ix \in DOMAIN sources
    BY <1>3 DEF ManifestInv, CrawlInv
  <2>2. Captures(input) = sources[input.ix]
    BY <1>3 DEF Captures
  <2>3. IsSequence(Captures(input)) /\ ToSet(Captures(input)) \subseteq AllCaptures
    BY <2>1, <2>2, Zenon DEF CrawlInv, AllCaptures, SourceCaptures
  <2> QED BY <2>1, <2>2, <2>3, SequenceIn
<1>4. CASE input.type = "rule"
  <2>1. ~ (input.ix >= r)
    BY <1>4 DEF Earlier, RefersToLater
  <2>2. input.ix \in 1..(r - 1) /\ input.ix \in RuleNumbers
    BY <1>2, <2>1 DEF RuleNumbers, ManifestInv
  <2>3. Captures(input) = captured_paths[input.ix]
    BY <1>4 DEF Captures
  <2>4. IsSequence(captured_paths[input.ix]) /\ ToSet(captured_paths[input.ix]) \subseteq AllCaptures
    <3> DEFINE i == input.ix
    <3>1. i \in RuleNumbers
      BY <2>2
    <3> HIDE DEF i
    <3>2. IsSequence(captured_paths[i])
      BY <3>1 DEF CapturedInv
    <3>3. ToSet(captured_paths[i]) \subseteq RuleCaptures
      BY <3>1, Zenon DEF RuleCaptures
    <3>4. ToSet(captured_paths[i]) \subseteq AllCaptures
      BY <3>3 DEF AllCaptures
    <3> QED BY <3>2, <3>4 DEF i
  <2> QED BY <2>2, <2>3, <2>4, SequenceIn
<1> QED BY <1>2, <1>3, <1>4

(* All inputs together name what each of them names.                       *)
LEMMA AllCapturesOf ==
  ASSUME ManifestInv, CrawlInv, CapturedInv, Working,
         NEW r \in RuleNumbers, Earlier(r),
         NEW inputs \in Seq(Input), ToSet(inputs) \subseteq InputsIn(manifest.rules[r])
  PROVE  /\ CapturesOf(inputs) \in Seq(AllCaptures)
         /\ ToSet(CapturesOf(inputs)) = UNION {ToSet(Captures(inputs[k])) : k \in DOMAIN inputs}
<1> DEFINE seqs == [k \in DOMAIN inputs |-> Captures(inputs[k])]
           n == Len(inputs)
<1>1. n \in Nat /\ DOMAIN inputs = 1..n
  OBVIOUS
<1>2. \A k \in DOMAIN inputs : inputs[k] \in InputsIn(manifest.rules[r])
  BY DEF ToSet
<1>3. \A k \in DOMAIN inputs : Captures(inputs[k]) \in Seq(AllCaptures)
  BY <1>2, InputCaptures
<1>4. seqs \in [1..n -> Seq(AllCaptures)]
  BY <1>1, <1>3
<1>5. seqs \in Seq(Seq(AllCaptures))
  BY <1>1, <1>4, SeqDef
<1>6. Len(seqs) \in Nat /\ DOMAIN seqs = 1..Len(seqs) /\ (seqs = <<>> \/ Len(seqs) # 0)
      /\ \A k \in DOMAIN seqs : seqs[k] \in Seq(AllCaptures)
  <2> HIDE DEF seqs
  <2> QED BY <1>5
<1>7. /\ FlattenSeq(seqs) \in Seq(AllCaptures)
      /\ ToSet(FlattenSeq(seqs)) = UNION {ToSet(seqs[k]) : k \in DOMAIN seqs}
  <2> HIDE DEF seqs
  <2> QED BY <1>6, Flattened
<1> QED BY <1>7 DEF CapturesOf

(* A rule's inputs are not disturbed by what is stored for a later rule,   *)
(* or for the rule itself.                                                 *)
LEMMA Stable ==
  ASSUME ManifestInv, CrawlInv, CapturedInv, Working,
         NEW r \in RuleNumbers, Earlier(r), rule \in Nat, r <= rule,
         manifest' = manifest, sources' = sources,
         \A i \in 1..(rule - 1) : captured_paths'[i] = captured_paths[i]
  PROVE  /\ Outcome(r)' = Outcome(r)
         /\ \A p, f : f.rule = r /\ rule <= rule' /\ rule' \in Nat /\ IsFile(p, f) => IsFile(p, f)'
<1> DEFINE d == manifest.rules[r]
<1>1. ASSUME NEW input \in InputsIn(d) PROVE Captures(input)' = Captures(input)
  <2>1. CASE input.type = "source"
    BY <2>1 DEF Captures
  <2>2. CASE input.type # "source"
    <3>1. Captures(input) = captured_paths[input.ix] /\ Captures(input)' = captured_paths'[input.ix]
      BY <2>2 DEF Captures
    <3>2. input.type = "rule" /\ input.ix \in Nat \ {0}
      <4>1. \A s \in Seq(Input) : ToSet(s) \subseteq Input
        BY SequenceOf
      <4>2. input \in Input
        BY <4>1 DEF InputsIn, ManifestInv
      <4> QED BY <2>2, <4>2 DEF Input
    <3>3. ~ (input.ix >= r)
      BY <3>2 DEF Earlier, RefersToLater
    <3>4. r \in Nat
      BY DEF RuleNumbers
    <3>5. input.ix \in 1..(rule - 1)
      BY <3>2, <3>3, <3>4
    <3> QED BY <3>1, <3>5
  <2> QED BY <2>1, <2>2
<1>2. ASSUME NEW inputs, ToSet(inputs) \subseteq InputsIn(d)
      PROVE  CapturesOf(inputs)' = CapturesOf(inputs)
  <2>1. \A k \in DOMAIN inputs : Captures(inputs[k])' = Captures(inputs[k])
    BY <1>1, <1>2 DEF ToSet
  <2>2. [k \in DOMAIN inputs |-> Captures(inputs[k])]' = [k \in DOMAIN inputs |-> Captures(inputs[k])]
    BY <2>1
  <2> QED BY <2>2 DEF CapturesOf
<1>3. /\ ToSet(d.inputs) \subseteq InputsIn(d) /\ ToSet(d.dependencies) \subseteq InputsIn(d)
      /\ ToSet(d.order_only_dependencies) \subseteq InputsIn(d)
  BY DEF InputsIn
<1>4. Outcome(r)' = Outcome(r)
  <2>1. CapturesOf(d.inputs)' = CapturesOf(d.inputs)
    BY <1>2, <1>3
  <2> QED BY <2>1 DEF Outcome, SegmentsOf
<1>5. ToSet(Values(CapturesOf(d.order_only_dependencies)))'
        = ToSet(Values(CapturesOf(d.order_only_dependencies)))
  <2>1. CapturesOf(d.order_only_dependencies)' = CapturesOf(d.order_only_dependencies)
    BY <1>2, <1>3
  <2> QED BY <2>1
<1>6. [k \in DOMAIN d.dependencies |-> Values(Captures(d.dependencies[k]))]'
        = [k \in DOMAIN d.dependencies |-> Values(Captures(d.dependencies[k]))]
  <2>1. \A k \in DOMAIN d.dependencies : Captures(d.dependencies[k])' = Captures(d.dependencies[k])
    BY <1>1, <1>3 DEF ToSet
  <2>2. \A k \in DOMAIN d.dependencies : Values(Captures(d.dependencies[k]))' = Values(Captures(d.dependencies[k]))
    BY <2>1
  <2> QED BY <2>2
<1>7. ASSUME NEW p, NEW f, f.rule = r, rule <= rule', rule' \in Nat, IsFile(p, f)
      PROVE  IsFile(p, f)'
  <2>1. /\ f.rule \in 1..rule /\ f.inputs = Outcome(r)[p].inputs
        /\ f.dependencies = [k \in DOMAIN d.dependencies |-> Values(Captures(d.dependencies[k]))]
        /\ f.order_only_dependencies = ToSet(Values(CapturesOf(d.order_only_dependencies)))
    BY <1>7 DEF IsFile
  <2>2. f.rule \in 1..rule'
    BY <1>7, <2>1
  <2>3. /\ f.inputs = Outcome(r)'[p].inputs
        /\ f.dependencies = [k \in DOMAIN d.dependencies |-> Values(Captures(d.dependencies[k]))]'
        /\ f.order_only_dependencies = ToSet(Values(CapturesOf(d.order_only_dependencies)))'
    BY <1>4, <1>5, <1>6, <2>1
  <2> QED BY <1>7, <2>2, <2>3 DEF IsFile
<1> QED BY <1>4, <1>7

-----------------------------------------------------------------------------
(* A rule the loop accepts refers to earlier ones only.                    *)
LEMMA AcceptedRule ==
  ASSUME ManifestInv, NEW r \in RuleNumbers
  PROVE  /\ RuleError(r) \in {"none", "cannot_refer_to_later_rule", "no_such_captured_group"}
         /\ RuleError(r) = "none" => Earlier(r)
<1> DEFINE d == manifest.rules[r]
           InputError(input) ==
             IF RefersToLater(input, r) THEN "cannot_refer_to_later_rule"
             ELSE IF \E c \in ToSet(Captures(input)) : ~Resolvable(d.output.segments, c)
             THEN "no_such_captured_group" ELSE "none"
           DependencyError(dep) ==
             IF RefersToLater(dep, r) THEN "cannot_refer_to_later_rule" ELSE "none"
           deps == d.dependencies \o d.order_only_dependencies
           a == [k \in DOMAIN d.inputs |-> InputError(d.inputs[k])]
           b == [k \in DOMAIN deps |-> DependencyError(deps[k])]
           errors == a \o b
           wrong == {k \in DOMAIN errors : errors[k] # "none"}
<1>1. RuleError(r) = IF wrong = {} THEN "none" ELSE errors[Min(wrong)]
  BY DEF RuleError
<1>2. /\ d.inputs \in Seq(Input) /\ d.dependencies \in Seq(Input)
      /\ d.order_only_dependencies \in Seq(Input) /\ deps \in Seq(Input)
      /\ ToSet(deps) = ToSet(d.dependencies) \cup ToSet(d.order_only_dependencies)
  BY SequenceConcat DEF ManifestInv
<1> DEFINE m == Len(d.inputs)
           n == Len(deps)
<1>3. m \in Nat /\ DOMAIN d.inputs = 1..m
  BY <1>2
<1>4. n \in Nat /\ DOMAIN deps = 1..n
  <2> HIDE DEF deps
  <2> QED BY <1>2
<1>5. /\ DOMAIN errors = 1..(m + n)
      /\ \A k \in 1..m : errors[k] = a[k]
      /\ \A k \in 1..n : errors[m + k] = b[k]
  <2>1. a = [k \in 1..m |-> a[k]] /\ b = [k \in 1..n |-> b[k]]
    BY <1>3, <1>4
  <2> HIDE DEF a, b, m, n, deps
  <2>2. IsSequence(a) /\ Len(a) = m /\ IsSequence(b) /\ Len(b) = n
    BY <1>3, <1>4, <2>1, SequenceOfLength
  <2> DEFINE U == ToSet(a) \cup ToSet(b)
  <2>3. a \in Seq(U) /\ b \in Seq(U)
    BY <2>2, SequenceIn
  <2> HIDE DEF U
  <2>4. DOMAIN errors = 1..(m + n)
    BY <1>3, <1>4, <2>2, <2>3
  <2>5. \A k \in 1..m : errors[k] = a[k]
    BY <1>3, <1>4, <2>2, <2>3
  <2>6. \A k \in 1..n : errors[m + k] = b[k]
    BY <1>3, <1>4, <2>2, <2>3
  <2> QED BY <2>4, <2>5, <2>6
<1>6. ASSUME wrong # {} PROVE Min(wrong) \in DOMAIN errors /\ errors[Min(wrong)] # "none"
  <2>1. wrong \in SUBSET Nat
    <3> HIDE DEF errors, deps, m, n
    <3> QED BY <1>3, <1>4, <1>5
  <2>2. Min(wrong) \in wrong
    <3> HIDE DEF wrong
    <3>1. \E x \in wrong : \A y \in wrong : x <= y
      BY <1>6, <2>1, Least
    <3> QED BY <3>1 DEF Min
  <2> HIDE DEF errors
  <2> QED BY <2>2
<1>7. \A k \in 1..m : errors[k] = InputError(d.inputs[k])
  <2>1. \A k \in 1..m : a[k] = InputError(d.inputs[k])
    BY <1>3
  <2> HIDE DEF errors, a, InputError, m
  <2> QED BY <1>5, <2>1
<1>8. \A k \in 1..n : errors[m + k] = DependencyError(deps[k])
  <2>1. \A k \in 1..n : b[k] = DependencyError(deps[k])
    BY <1>4
  <2> HIDE DEF errors, b, DependencyError, m, n, deps
  <2> QED BY <1>5, <2>1
<1>9. RuleError(r) \in {"none", "cannot_refer_to_later_rule", "no_such_captured_group"}
  <2>1. CASE wrong = {}
    <3> HIDE DEF wrong, errors
    <3> QED BY <1>1, <2>1
  <2>2. CASE wrong # {}
    <3> DEFINE k == Min(wrong)
    <3>1. k \in DOMAIN errors /\ RuleError(r) = errors[k]
      <4> HIDE DEF wrong, errors
      <4> QED BY <1>1, <1>6, <2>2
    <3> HIDE DEF k
    <3>2. k \in 1..m \/ (k - m \in 1..n /\ k = m + (k - m))
      <4> HIDE DEF errors, m, n, deps
      <4> QED BY <1>3, <1>4, <1>5, <3>1
    <3>3. CASE k \in 1..m
      <4>1. errors[k] = InputError(d.inputs[k])
        BY <1>7, <3>3
      <4>2. InputError(d.inputs[k]) \in {"none", "cannot_refer_to_later_rule", "no_such_captured_group"}
        OBVIOUS
      <4> HIDE DEF errors, InputError
      <4> QED BY <3>1, <4>1, <4>2
    <3>4. CASE k - m \in 1..n /\ k = m + (k - m)
      <4>1. errors[k] = DependencyError(deps[k - m])
        <5> HIDE DEF errors, DependencyError, m, n, deps
        <5> QED BY <1>8, <3>4
      <4>2. DependencyError(deps[k - m]) \in {"none", "cannot_refer_to_later_rule"}
        OBVIOUS
      <4> HIDE DEF errors, DependencyError
      <4> QED BY <3>1, <4>1, <4>2
    <3> QED BY <3>2, <3>3, <3>4
  <2> QED BY <2>1, <2>2
<1>10. ASSUME RuleError(r) = "none" PROVE Earlier(r)
  <2>1. \A k \in DOMAIN errors : errors[k] = "none"
    <3>1. wrong = {}
      <4> HIDE DEF wrong, errors
      <4> QED BY <1>1, <1>6, <1>10
    <3> HIDE DEF errors
    <3> QED BY <3>1
  <2>2. ASSUME NEW k \in 1..m PROVE ~RefersToLater(d.inputs[k], r)
    <3>1. InputError(d.inputs[k]) = "none"
      <4> HIDE DEF errors, InputError, m, n, deps
      <4> QED BY <1>3, <1>4, <1>5, <1>7, <2>1
    <3> QED BY <3>1
  <2>3. ASSUME NEW k \in 1..n PROVE ~RefersToLater(deps[k], r)
    <3>1. DependencyError(deps[k]) = "none"
      <4> HIDE DEF errors, DependencyError, m, n, deps
      <4> QED BY <1>3, <1>4, <1>5, <1>8, <2>1
    <3> QED BY <3>1
  <2>4. ASSUME NEW input \in InputsIn(d) PROVE ~RefersToLater(input, r)
    <3>1. input \in ToSet(d.inputs) \/ input \in ToSet(deps)
      BY <1>2 DEF InputsIn
    <3> HIDE DEF deps, m, n
    <3> QED BY <1>3, <1>4, <2>2, <2>3, <3>1 DEF ToSet
  <2> QED BY <2>4 DEF Earlier
<1> QED BY <1>9, <1>10

-----------------------------------------------------------------------------
(* The manifest that is read has the shape the constants have.             *)
LEMMA InitInv == Init => IInv
<1> SUFFICES ASSUME Init PROVE IInv
  OBVIOUS
<1>1. PICK m \in Manifests : manifest = ReadManifest(m)
  BY DEF Init
<1>2. /\ m.source_patterns \in Seq(Seq(STRING)) /\ m.rules \in Seq(RulesWith(Seq(STRING)))
      /\ \A r \in DOMAIN m.rules : \A input \in InputsIn(m.rules[r]) :
           input.type = "source" => input.ix \in DOMAIN m.source_patterns
  BY ManifestsAssumption
<1>3. /\ DOMAIN manifest.source_patterns = DOMAIN m.source_patterns
      /\ DOMAIN manifest.rules = DOMAIN m.rules
  BY <1>1 DEF ReadManifest
<1>4. ASSUME NEW r \in DOMAIN m.rules
      PROVE  /\ m.rules[r] \in RulesWith(Seq(STRING))
             /\ manifest.rules[r].inputs = m.rules[r].inputs
             /\ manifest.rules[r].dependencies = m.rules[r].dependencies
             /\ manifest.rules[r].order_only_dependencies = m.rules[r].order_only_dependencies
  <2>1. m.rules[r] \in RulesWith(Seq(STRING))
    BY <1>2, ElementOfSeq
  <2>2. manifest.rules[r] = [m.rules[r] EXCEPT !.output = ParsedOutput(@)]
    BY <1>1 DEF ReadManifest
  <2> QED BY <2>1, <2>2 DEF RulesWith
<1>5. ManifestInv
  <2>1. Len(m.rules) \in Nat /\ DOMAIN m.rules = 1..Len(m.rules)
        /\ Len(m.source_patterns) \in Nat /\ DOMAIN m.source_patterns = 1..Len(m.source_patterns)
    BY <1>2
  <2>2. /\ manifest.rules = [r \in 1..Len(m.rules) |-> manifest.rules[r]]
        /\ manifest.source_patterns = [i \in 1..Len(m.source_patterns) |-> manifest.source_patterns[i]]
    BY <1>1, <2>1 DEF ReadManifest
  <2>3. Len(manifest.rules) = Len(m.rules) /\ Len(manifest.source_patterns) = Len(m.source_patterns)
    BY <2>1, <2>2
  <2>4. \A r \in DOMAIN m.rules : InputsIn(manifest.rules[r]) = InputsIn(m.rules[r])
    BY <1>4 DEF InputsIn
  <2>5. ASSUME NEW r \in RuleNumbers
        PROVE  /\ manifest.rules[r].inputs \in Seq(Input)
               /\ manifest.rules[r].dependencies \in Seq(Input)
               /\ manifest.rules[r].order_only_dependencies \in Seq(Input)
               /\ \A input \in InputsIn(manifest.rules[r]) :
                    input.type = "source" => input.ix \in DOMAIN manifest.source_patterns
    <3>1. r \in DOMAIN m.rules
      BY <2>1, <2>3 DEF RuleNumbers
    <3> QED BY <1>2, <1>3, <1>4, <2>4, <3>1 DEF RulesWith
  <2> QED BY <1>3, <2>1, <2>3, <2>5 DEF ManifestInv, RuleNumbers
<1>6. CrawlInv
  <2>1. matches = [i \in DOMAIN manifest.source_patterns |-> <<>>] /\ phase = "crawl"
    BY DEF Init, CrawlInit
  <2>2. IsSequence(<<>>)
    BY DEF IsSequence
  <2> QED BY <2>1, <2>2 DEF CrawlInv, Working
<1>7. CapturedInv
  <2>1. captured_paths = [r \in RuleNumbers |-> <<>>]
    BY <1>5 DEF Init, ManifestInv
  <2>2. IsSequence(<<>>) /\ ToSet(<<>>) = {}
    BY DEF IsSequence, ToSet
  <2> QED BY <2>1, <2>2 DEF CapturedInv
<1>8. FilesInv
  <2>1. phase = "crawl" /\ rule = 0 /\ data = Nothing /\ output_files = Nothing
    BY DEF Init
  <2>2. Len(manifest.rules) \in Nat
    BY <1>5 DEF ManifestInv
  <2> QED BY <2>1, <2>2 DEF FilesInv, Working
<1> QED BY <1>5, <1>6, <1>7, <1>8 DEF IInv

(* The crawl changes the matches alone, and appends to them.               *)
LEMMA CrawlStepInv == IInv /\ Crawl => IInv'
<1> SUFFICES ASSUME IInv, Crawl PROVE IInv'
  OBVIOUS
<1>1. phase = "crawl" /\ phase' = "crawl" /\ CrawlNext /\ UNCHANGED mapping
  BY DEF Crawl
<1>2. ManifestInv' /\ CapturedInv' /\ FilesInv'
  BY <1>1 DEF IInv, mapping, ManifestInv, CapturedInv, FilesInv, Working, RuleNumbers
<1>3. DOMAIN matches' = DOMAIN matches /\ \A i \in DOMAIN matches : IsSequence(matches'[i])
  <2>1. CASE NextDir \/ NextEnt
    BY <2>1 DEF NextDir, NextEnt, IInv, CrawlInv
  <2>2. CASE TryBookmark
    <3>1. \/ matches' = matches
          \/ \E i, x : matches' = [matches EXCEPT ![i] = Append(@, x)]
      BY <2>2 DEF TryBookmark
    <3>2. CASE matches' = matches
      BY <3>2 DEF IInv, CrawlInv
    <3>3. ASSUME NEW j, NEW x, matches' = [matches EXCEPT ![j] = Append(@, x)]
          PROVE  DOMAIN matches' = DOMAIN matches /\ \A i \in DOMAIN matches : IsSequence(matches'[i])
      <4>1. \A i \in DOMAIN matches : IsSequence(matches[i])
        BY DEF IInv, CrawlInv
      <4>2. \A i \in DOMAIN matches : IsSequence(Append(matches[i], x))
        BY <4>1, SequenceAppend
      <4>3. DOMAIN matches' = DOMAIN matches
        BY <3>3
      <4>4. \A i \in DOMAIN matches : matches'[i] = IF i = j THEN Append(matches[i], x) ELSE matches[i]
        BY <3>3
      <4> QED BY <4>1, <4>2, <4>3, <4>4
    <3> QED BY <3>1, <3>2, <3>3
  <2> QED BY <1>1, <2>1, <2>2 DEF CrawlNext
<1>4. CrawlInv'
  BY <1>1, <1>3 DEF IInv, CrawlInv, mapping, Working
<1> QED BY <1>2, <1>4 DEF IInv

(* The files of each pattern are put in some order.                        *)
LEMMA SortedMatches ==
  ASSUME NEW s, IsSequence(s)
  PROVE  IsSequence(SetToSeq({[value |-> Text(m.value), groups |-> m.groups] : m \in ToSet(s)}))
<1> DEFINE S == {[value |-> Text(m.value), groups |-> m.groups] : m \in ToSet(s)}
           f == SetToSeq(S)
<1>1. IsFiniteSet(S)
  <2>1. Len(s) \in Nat /\ DOMAIN s = 1..Len(s)
    BY DEF IsSequence
  <2>2. S = {[value |-> Text(s[k].value), groups |-> s[k].groups] : k \in 1..Len(s)}
    BY <2>1 DEF ToSet
  <2>3. IsFiniteSet(1..Len(s))
    BY <2>1, FS_Interval
  <2> HIDE DEF S
  <2> DEFINE g == [k \in 1..Len(s) |-> [value |-> Text(s[k].value), groups |-> s[k].groups]]
  <2>4. g \in Surjection(1..Len(s), S)
    BY <2>2 DEF Surjection
  <2> QED BY <2>3, <2>4, FS_Surjection
<1> HIDE DEF S
<1>2. Cardinality(S) \in Nat
  BY <1>1, FS_CardinalityType
<1>3. \E h \in [1..Cardinality(S) -> S] : IsInjective(h)
  <2>1. ExistsBijection(1..Cardinality(S), S)
    BY <1>1, FS_CardinalityType, FS_NatBijection, FS_CountingElements
  <2>2. PICK h \in Bijection(1..Cardinality(S), S) : TRUE
    BY <2>1 DEF ExistsBijection
  <2> QED BY <2>2 DEF Bijection, Injection, IsInjective
<1>4. f \in [1..Cardinality(S) -> S]
  BY <1>3 DEF SetToSeq
<1> HIDE DEF f
<1>5. f \in Seq(S)
  BY <1>2, <1>4, SeqDef
<1> QED BY <1>5, SequenceOf DEF f, S

(* The end of the crawl puts the files of each pattern in some order.      *)
LEMMA EndCrawlInv == IInv /\ EndCrawl => IInv'
<1> SUFFICES ASSUME IInv, EndCrawl PROVE IInv'
  OBVIOUS
<1>1. /\ phase = "crawl" /\ UNCHANGED <<crawl, manifest, rule, data, output_files, captured_paths>>
      /\ rule = 0 /\ data = Nothing /\ output_files = Nothing
  BY DEF EndCrawl, IInv, FilesInv
<1>2. ManifestInv' /\ CapturedInv'
  BY <1>1 DEF IInv, ManifestInv, CapturedInv, RuleNumbers
<1>3. matches' = matches
  BY <1>1 DEF crawl
<1>4. CASE phase' = "no_source_matches"
  BY <1>1, <1>2, <1>3, <1>4 DEF IInv, CrawlInv, FilesInv, Working
<1>5. CASE phase' # "no_source_matches"
  <2>1. /\ phase' = "rules"
        /\ sources' = [i \in DOMAIN matches |->
             SetToSeq({[value |-> Text(m.value), groups |-> m.groups] : m \in ToSet(matches[i])})]
    BY <1>5 DEF EndCrawl
  <2>2. \A i \in DOMAIN matches : IsSequence(sources'[i])
    BY <2>1, SortedMatches DEF IInv, CrawlInv
  <2>3. CrawlInv'
    BY <1>1, <1>3, <2>1, <2>2 DEF IInv, CrawlInv
  <2>4. FilesInv'
    <3>1. DOMAIN output_files' = {} /\ DOMAIN data' = {} /\ 1..rule' = {}
      BY <1>1 DEF Nothing
    <3> QED BY <1>1, <2>1, <3>1 DEF IInv, FilesInv
  <2> QED BY <1>2, <2>3, <2>4 DEF IInv
<1> QED BY <1>4, <1>5

(* The loop comes to a rule: it refers to earlier ones only, or is an      *)
(* error; nothing of it is stored, and nothing of the rules before is left *)
(* to store.                                                               *)
LEMMA GatherRuleInv == IInv /\ GatherRule => IInv'
<1> SUFFICES ASSUME IInv, GatherRule PROVE IInv'
  OBVIOUS
<1>0. PICK r : r = rule + 1
  OBVIOUS
<1>1. /\ phase = "rules" /\ Working /\ DOMAIN data = {} /\ rule < Len(manifest.rules) /\ rule' = r
      /\ UNCHANGED <<crawl, manifest, sources, output_files, captured_paths>>
  BY <1>0 DEF GatherRule, Working
<1>2. rule \in Nat /\ r \in RuleNumbers /\ r \in 0..Len(manifest.rules) /\ r # 0 /\ rule <= r
      /\ \A q \in 1..r : q \in 1..rule \/ q = r
  BY <1>0, <1>1 DEF IInv, FilesInv, ManifestInv, RuleNumbers
<1>3. ManifestInv' /\ CapturedInv'
  BY <1>1 DEF IInv, ManifestInv, CapturedInv, RuleNumbers
<1>4. CrawlInv'
  BY <1>1 DEF IInv, CrawlInv, Working, crawl
<1>5. CASE RuleError(r) # "none"
  <2>1. phase' \in {"cannot_refer_to_later_rule", "no_such_captured_group"}
    BY <1>0, <1>2, <1>5, AcceptedRule DEF GatherRule, IInv
  <2>2. FilesInv'
    BY <1>1, <1>2, <2>1 DEF FilesInv, Working
  <2> QED BY <1>3, <1>4, <2>2 DEF IInv
<1>6. CASE RuleError(r) = "none"
  <2>1. phase' = phase /\ data' = Outcome(r)
    BY <1>0, <1>6 DEF GatherRule, Outcome, SegmentsOf
  <2>2. \A q : Outcome(q)' = Outcome(q)
    BY <1>1 DEF Outcome, SegmentsOf, CapturesOf, Captures
  <2>3. Earlier(r)
    BY <1>2, <1>6, AcceptedRule DEF IInv
  <2>4. \A p \in DOMAIN output_files : IsFile(p, output_files[p])
    BY <1>1 DEF IInv, FilesInv
  <2>5. ASSUME NEW q \in 1..r PROVE Earlier(q)' /\ Stored(q)'
    <3>1. CASE q = r
      <4>1. ASSUME NEW p \in DOMAIN output_files PROVE output_files[p].rule # r
        <5>1. output_files[p].rule \in 1..rule
          BY <2>4, Zenon DEF IsFile
        <5> QED BY <1>0, <1>2, <5>1
      <4>2. Stored(r)'
        BY <1>1, <2>1, <2>2, <4>1 DEF Stored
      <4> QED BY <1>1, <2>3, <3>1, <4>2 DEF Earlier
    <3>2. CASE q # r
      <4>1. q \in 1..rule
        BY <1>2, <3>2
      <4>2. Earlier(q) /\ Stored(q)
        BY <1>1, <4>1 DEF IInv, FilesInv
      <4>3. DOMAIN Outcome(q) = {p \in DOMAIN output_files : output_files[p].rule = q}
        BY <1>1, <4>2 DEF Stored
      <4>4. Stored(q)'
        BY <1>1, <2>2, <3>2, <4>3 DEF Stored
      <4> QED BY <1>1, <4>2, <4>4 DEF Earlier
    <3> QED BY <3>1, <3>2
  <2>6. ASSUME NEW p \in DOMAIN output_files PROVE IsFile(p, output_files[p])'
    <3> PICK f : f = output_files[p]
      OBVIOUS
    <3>1. IsFile(p, f)
      BY <2>4
    <3>2. f.rule \in 1..rule /\ f.rule \in RuleNumbers /\ f.rule <= rule
      BY <1>1, <1>2, <3>1 DEF IsFile, RuleNumbers, IInv, ManifestInv
    <3>3. Earlier(f.rule)
      BY <1>1, <3>2 DEF IInv, FilesInv
    <3>4. rule <= rule' /\ rule' \in Nat
      BY <1>1, <1>2
    <3>5. IsFile(p, f)'
      BY <1>1, <1>2, <3>1, <3>2, <3>3, <3>4, Stable DEF IInv
    <3> QED BY <1>1, <3>5
  <2>7. \A p \in DOMAIN data' : data'[p] = Outcome(rule)'[p]
    BY <1>1, <2>1, <2>2
  <2>8. FilesInv'
    BY <1>1, <1>2, <2>1, <2>5, <2>6, <2>7 DEF FilesInv, Working
  <2> QED BY <1>3, <1>4, <2>8 DEF IInv
<1> QED BY <1>5, <1>6

(* What is not stored is what the rule says of it, and storing it makes it *)
(* a file of the rule.                                                     *)
LEMMA StoreOutputInv == IInv /\ StoreOutput => IInv'
<1> SUFFICES ASSUME IInv, StoreOutput PROVE IInv'
  OBVIOUS
<1>1. /\ phase = "rules" /\ Working
      /\ UNCHANGED <<crawl, manifest, sources, rule>>
  BY DEF StoreOutput, Working
<1>2. PICK path \in DOMAIN data :
        IF path \in DOMAIN output_files
        THEN phase' = "duplicate_output" /\ UNCHANGED <<data, output_files, captured_paths>>
        ELSE /\ data' = Restrict(data, DOMAIN data \ {path})
             /\ output_files' = [p \in DOMAIN output_files \cup {path} |->
                  IF p = path THEN OutputFile(path) ELSE output_files[p]]
             /\ captured_paths' = [captured_paths EXCEPT ![rule] = Append(@,
                  Capture(manifest.rules[rule].output.capture_groups, path, data[path].starts))]
             /\ UNCHANGED phase
  BY DEF StoreOutput
<1>3. /\ rule \in RuleNumbers /\ rule \in 1..rule /\ rule \in Nat /\ rule # 0
      /\ rule \in 0..Len(manifest.rules)
  <2>1. rule # 0
    BY <1>2 DEF IInv, FilesInv, Nothing
  <2> QED BY <2>1 DEF IInv, FilesInv, ManifestInv, RuleNumbers
<1>4. ManifestInv'
  BY <1>1 DEF IInv, ManifestInv, RuleNumbers
<1>5. CASE path \in DOMAIN output_files
  <2>1. phase' = "duplicate_output" /\ UNCHANGED <<data, output_files, captured_paths>>
    BY <1>2, <1>5
  <2>2. CrawlInv'
    BY <1>1, <2>1 DEF IInv, CrawlInv, Working, crawl
  <2>3. CapturedInv'
    BY <1>1, <2>1 DEF IInv, CapturedInv, RuleNumbers
  <2>4. FilesInv'
    BY <1>1, <1>3, <2>1 DEF FilesInv, Working
  <2> QED BY <1>4, <2>2, <2>3, <2>4 DEF IInv
<1>6. CASE path \notin DOMAIN output_files
  <2> PICK file : file = OutputFile(path)
    OBVIOUS
  <2> PICK out : out = Capture(manifest.rules[rule].output.capture_groups, path, data[path].starts)
    OBVIOUS
  <2>1. /\ data' = Restrict(data, DOMAIN data \ {path})
        /\ output_files' = [p \in DOMAIN output_files \cup {path} |->
             IF p = path THEN file ELSE output_files[p]]
        /\ captured_paths' = [captured_paths EXCEPT ![rule] = Append(@, out)]
        /\ phase' = phase
    BY <1>2, <1>6
  <2>2. CrawlInv'
    BY <1>1, <2>1 DEF IInv, CrawlInv, Working, crawl
  <2>3. /\ DOMAIN output_files' = DOMAIN output_files \cup {path}
        /\ output_files'[path] = file
        /\ \A p \in DOMAIN output_files : output_files'[p] = output_files[p]
    BY <1>6, <2>1
  <2>4. DOMAIN data' = DOMAIN data \ {path} /\ \A p \in DOMAIN data' : data'[p] = data[p]
    BY <2>1 DEF Restrict
  <2>5. /\ DOMAIN captured_paths' = DOMAIN captured_paths
        /\ \A r \in RuleNumbers : r # rule => captured_paths'[r] = captured_paths[r]
        /\ captured_paths'[rule] = Append(captured_paths[rule], out)
    BY <1>3, <2>1 DEF IInv, CapturedInv
  <2>6. /\ \A p \in DOMAIN data : data[p] = Outcome(rule)[p]
        /\ \A p \in DOMAIN output_files : IsFile(p, output_files[p])
        /\ \A r \in 1..rule : Earlier(r) /\ Stored(r)
    BY <1>1 DEF IInv, FilesInv
  <2>7. file.rule = rule /\ IsFile(path, file)
    BY <1>3, <2>6 DEF OutputFile, IsFile
  <2>8. CapturedInv'
    <3>1. RuleNumbers' = RuleNumbers
      BY <1>1 DEF RuleNumbers
    <3>2. ASSUME NEW r \in RuleNumbers
          PROVE  /\ IsSequence(captured_paths[r])
                 /\ \A o \in ToSet(captured_paths[r]) :
                      o.value \in DOMAIN output_files' /\ output_files'[o.value].rule = r
      BY <2>3 DEF IInv, CapturedInv
    <3>3. out.value = path
      BY DEF Capture
    <3>4. IsSequence(captured_paths'[rule])
          /\ ToSet(captured_paths'[rule]) = ToSet(captured_paths[rule]) \cup {out}
      BY <1>3, <2>5, <3>2, SequenceAppend
    <3>5. \A r \in RuleNumbers : IsSequence(captured_paths'[r])
      BY <2>5, <3>2, <3>4
    <3>6. ASSUME NEW r \in RuleNumbers, NEW o \in ToSet(captured_paths'[r])
          PROVE  o.value \in DOMAIN output_files' /\ output_files'[o.value].rule = r
      <4>1. CASE r # rule
        BY <2>5, <3>2, <4>1
      <4>2. CASE r = rule
        BY <2>3, <2>7, <3>2, <3>3, <3>4, <4>2
      <4> QED BY <4>1, <4>2
    <3>7. DOMAIN captured_paths' = RuleNumbers
      BY <2>5 DEF IInv, CapturedInv
    <3> QED BY <3>1, <3>5, <3>6, <3>7 DEF CapturedInv
  <2>9. ASSUME NEW r \in 1..rule
        PROVE  /\ Outcome(r)' = Outcome(r)
               /\ \A p, f : f.rule = r /\ IsFile(p, f) => IsFile(p, f)'
    <3>1. r \in RuleNumbers /\ r <= rule
      BY <1>3 DEF RuleNumbers, IInv, ManifestInv
    <3>2. \A i \in 1..(rule - 1) : captured_paths'[i] = captured_paths[i]
      <4>1. \A i \in 1..(rule - 1) : i \in RuleNumbers /\ i # rule
        BY <1>3 DEF RuleNumbers, IInv, ManifestInv
      <4> QED BY <2>5, <4>1
    <3>3. rule <= rule' /\ rule' \in Nat
      BY <1>1, <1>3
    <3> QED BY <1>1, <1>3, <2>6, <3>1, <3>2, <3>3, Stable DEF IInv
  <2>10. ASSUME NEW r \in 1..rule PROVE Earlier(r)' /\ Stored(r)'
    <3>1. Earlier(r)'
      BY <1>1, <2>6 DEF Earlier
    <3>2. Outcome(r)' = Outcome(r) /\ Stored(r) /\ rule' = rule
      BY <1>1, <2>6, <2>9
    <3>3. DOMAIN Outcome(r) = {p \in DOMAIN output_files : output_files[p].rule = r}
                              \cup (IF r = rule THEN DOMAIN data ELSE {})
      BY <3>2 DEF Stored
    <3>4. CASE r = rule
      <4>1. {p \in DOMAIN output_files' : output_files'[p].rule = r}
              = {p \in DOMAIN output_files : output_files[p].rule = r} \cup {path}
        BY <1>6, <2>3, <2>7, <3>4
      <4> QED BY <2>4, <3>1, <3>2, <3>3, <3>4, <4>1 DEF Stored
    <3>5. CASE r # rule
      <4>1. {p \in DOMAIN output_files' : output_files'[p].rule = r}
              = {p \in DOMAIN output_files : output_files[p].rule = r}
        BY <1>6, <2>3, <2>7, <3>5
      <4> QED BY <3>1, <3>2, <3>3, <3>5, <4>1 DEF Stored
    <3> QED BY <3>4, <3>5
  <2>11. ASSUME NEW p \in DOMAIN output_files' PROVE IsFile(p, output_files[p])'
    <3> PICK f : f = output_files'[p]
      OBVIOUS
    <3>1. IsFile(p, f)
      BY <2>3, <2>6, <2>7
    <3>2. f.rule \in 1..rule
      BY <3>1, Zenon DEF IsFile
    <3>3. IsFile(p, f)'
      BY <2>9, <3>1, <3>2
    <3> QED BY <3>3
  <2>12. \A p \in DOMAIN data' : (data[p] = Outcome(rule)[p])'
    <3> PICK r : r = rule
      OBVIOUS
    <3>1. r \in 1..rule /\ rule' = r /\ \A p \in DOMAIN data : data[p] = Outcome(r)[p]
      BY <1>1, <1>3, <2>6
    <3>2. Outcome(r)' = Outcome(r)
      BY <2>9, <3>1
    <3>3. \A p \in DOMAIN data' : data'[p] = Outcome(r)'[p]
      BY <2>4, <3>1, <3>2
    <3> QED BY <3>1, <3>3
  <2>13. FilesInv'
    BY <1>1, <1>3, <2>1, <2>10, <2>11, <2>12 DEF FilesInv, Working
  <2> QED BY <1>4, <2>2, <2>8, <2>13 DEF IInv
<1> QED BY <1>5, <1>6

(* A run that returns has come to the last rule and stored all of it.      *)
LEMMA ReturnInv == IInv /\ Return => IInv'
<1> SUFFICES ASSUME IInv, Return PROVE IInv'
  OBVIOUS
<1>1. /\ phase = "rules" /\ Working /\ Working' /\ phase' = "done"
      /\ DOMAIN data = {} /\ rule = Len(manifest.rules)
      /\ UNCHANGED <<crawl, mapping>>
  BY DEF Return, Working
<1>2. ManifestInv' /\ CapturedInv'
  BY <1>1 DEF IInv, ManifestInv, CapturedInv, RuleNumbers, mapping
<1>3. CrawlInv'
  BY <1>1 DEF IInv, CrawlInv, crawl, mapping
<1>4. FilesInv'
  <2>1. \A r : /\ Earlier(r) => Earlier(r)'
               /\ Stored(r) => Stored(r)'
    BY <1>1 DEF Earlier, Stored, Outcome, SegmentsOf, CapturesOf, Captures, RefersToLater, mapping
  <2>2. \A p, f : IsFile(p, f) => IsFile(p, f)'
    BY <1>1 DEF IsFile, Outcome, SegmentsOf, CapturesOf, Captures, mapping
  <2>3. /\ \A r \in 1..rule : Earlier(r) /\ Stored(r)
        /\ \A p \in DOMAIN output_files : IsFile(p, output_files[p])
    BY <1>1 DEF IInv, FilesInv
  <2>4. rule' = rule /\ data' = data /\ manifest' = manifest /\ output_files' = output_files
    BY <1>1 DEF mapping
  <2>5. ASSUME NEW p \in DOMAIN output_files' PROVE IsFile(p, output_files[p])'
    <3> PICK f : f = output_files'[p]
      OBVIOUS
    <3>1. IsFile(p, f)
      BY <2>3, <2>4
    <3>2. IsFile(p, f)'
      BY <2>2, <3>1
    <3> QED BY <3>2
  <2>6. \A r \in 1..rule' : Earlier(r)' /\ Stored(r)'
    BY <2>1, <2>3, <2>4
  <2>7. \A p \in DOMAIN data' : (data[p] = Outcome(rule)[p])'
    BY <1>1, <2>4
  <2>8. /\ (rule \in 0..Len(manifest.rules))' /\ (DOMAIN data = {})'
        /\ (rule = 0 => data = Nothing /\ output_files = Nothing)'
        /\ (rule = Len(manifest.rules))'
    BY <1>1, <2>4 DEF IInv, FilesInv
  <2> QED BY <1>1, <2>5, <2>6, <2>7, <2>8 DEF FilesInv
<1> QED BY <1>2, <1>3, <1>4 DEF IInv

(* A step that changes nothing.                                            *)
LEMMA StutterInv == IInv /\ UNCHANGED vars => IInv'
<1> SUFFICES ASSUME IInv, UNCHANGED vars PROVE IInv'
  OBVIOUS
<1>1. ManifestInv' /\ CrawlInv' /\ CapturedInv'
  BY DEF IInv, ManifestInv, CrawlInv, CapturedInv, RuleNumbers, Working, vars, crawl, mapping
<1>2. FilesInv'
  <2>1. UNCHANGED <<phase, manifest, sources, rule, data, output_files, captured_paths>>
    BY DEF vars, mapping
  <2>2. \A r : Earlier(r) /\ Stored(r) => (Earlier(r) /\ Stored(r))'
    BY <2>1 DEF Earlier, Stored, Outcome, SegmentsOf, CapturesOf, Captures, RefersToLater
  <2>3. \A p, f : IsFile(p, f) => IsFile(p, f)'
    BY <2>1 DEF IsFile, Outcome, SegmentsOf, CapturesOf, Captures
  <2>4. ASSUME Working PROVE \A p \in DOMAIN output_files' : IsFile(p, output_files[p])'
    <3> SUFFICES ASSUME NEW p \in DOMAIN output_files' PROVE IsFile(p, output_files[p])'
      OBVIOUS
    <3> PICK f : f = output_files'[p]
      OBVIOUS
    <3>1. IsFile(p, f)
      BY <2>1, <2>4 DEF IInv, FilesInv
    <3>2. IsFile(p, f)'
      BY <2>3, <3>1
    <3> QED BY <3>2
  <2>5. ASSUME Working PROVE \A p \in DOMAIN data' : (data[p] = Outcome(rule)[p])'
    <3>1. \A p \in DOMAIN data : data[p] = Outcome(rule)[p]
      BY <2>5 DEF IInv, FilesInv
    <3> QED BY <2>1, <3>1 DEF Outcome, SegmentsOf, CapturesOf, Captures
  <2>6. ASSUME Working PROVE \A r \in 1..rule' : Earlier(r)' /\ Stored(r)'
    BY <2>1, <2>2, <2>6 DEF IInv, FilesInv
  <2>7. Working' = Working
    BY <2>1 DEF Working
  <2>8. /\ (rule \in 0..Len(manifest.rules))'
        /\ (phase = "crawl" => rule = 0)'
        /\ (rule = 0 => data = Nothing /\ output_files = Nothing)'
        /\ (phase = "done" => rule = Len(manifest.rules) /\ DOMAIN data = {})'
    BY <2>1 DEF IInv, FilesInv
  <2> QED BY <2>4, <2>5, <2>6, <2>7, <2>8 DEF FilesInv
<1> QED BY <1>1, <1>2 DEF IInv

(* The invariant holds throughout every run.                               *)
THEOREM InductiveInvariant == Spec => []IInv
<1>1. Init => IInv
  BY InitInv
<1>2. IInv /\ [Next]_vars => IInv'
  <2> SUFFICES ASSUME IInv, [Next]_vars PROVE IInv'
    OBVIOUS
  <2>1. CASE Done
    BY <2>1, StutterInv DEF Done
  <2>2. CASE UNCHANGED vars
    BY <2>2, StutterInv
  <2> QED BY <2>1, <2>2, CrawlStepInv, EndCrawlInv, GatherRuleInv, StoreOutputInv, ReturnInv
       DEF Next
<1> QED BY <1>1, <1>2, PTL DEF Spec

-----------------------------------------------------------------------------
(* What a rule says, from the inputs it has: Gathered() gathers them all.  *)
LEMMA OutcomeOf ==
  ASSUME IInv, Working, NEW r \in 1..rule
  PROVE  /\ r \in RuleNumbers /\ Earlier(r)
         /\ Gathers(Outcome(r), SegmentsOf(r), InputsOf(r))
         /\ InputsOf(r) = UNION {ToSet(Captures(manifest.rules[r].inputs[k])) :
                                   k \in DOMAIN manifest.rules[r].inputs}
<1> DEFINE inputs == manifest.rules[r].inputs
<1>1. r \in RuleNumbers
  BY DEF IInv, FilesInv, ManifestInv, RuleNumbers
<1>2. Earlier(r)
  BY DEF IInv, FilesInv
<1>3. inputs \in Seq(Input) /\ ToSet(inputs) \subseteq InputsIn(manifest.rules[r])
  BY <1>1 DEF IInv, ManifestInv, InputsIn
<1>4. /\ CapturesOf(inputs) \in Seq(AllCaptures)
      /\ ToSet(CapturesOf(inputs)) = UNION {ToSet(Captures(inputs[k])) : k \in DOMAIN inputs}
  BY <1>1, <1>2, <1>3, AllCapturesOf DEF IInv
<1>5. Gathers(Outcome(r), SegmentsOf(r), InputsOf(r))
  BY <1>4, GatheredMeaning DEF Outcome, InputsOf
<1> QED BY <1>1, <1>2, <1>4, <1>5 DEF InputsOf

(* At the end, the files of a rule are what the rule says.                 *)
LEMMA FilesOfRule ==
  ASSUME IInv, phase = "done"
  PROVE  /\ Working /\ DOMAIN manifest.rules = 1..rule
         /\ \A r \in 1..rule :
              DOMAIN Outcome(r) = {p \in DOMAIN output_files : output_files[p].rule = r}
         /\ \A p \in DOMAIN output_files :
              LET r == output_files[p].rule
              IN  r \in 1..rule /\ output_files[p].inputs = Outcome(r)[p].inputs
                  /\ p \in DOMAIN Outcome(r)
<1>1. Working /\ DOMAIN data = {} /\ DOMAIN manifest.rules = 1..rule
  BY DEF IInv, FilesInv, ManifestInv, RuleNumbers, Working
<1>2. ASSUME NEW r \in 1..rule
      PROVE  DOMAIN Outcome(r) = {p \in DOMAIN output_files : output_files[p].rule = r}
  <2>1. Stored(r)
    BY <1>1 DEF IInv, FilesInv
  <2> QED BY <1>1, <2>1 DEF Stored
<1>3. ASSUME NEW p \in DOMAIN output_files
      PROVE  /\ output_files[p].rule \in 1..rule
             /\ output_files[p].inputs = Outcome(output_files[p].rule)[p].inputs
  <2>1. IsFile(p, output_files[p])
    BY <1>1 DEF IInv, FilesInv
  <2> QED BY <2>1, Zenon DEF IsFile
<1> QED BY <1>1, <1>2, <1>3

(* The map holds what the rules say and nothing else                       *)
(* (gen_update_map.cpp:81-127).                                            *)
THEOREM MapIsWhatTheRulesSay == Spec => []OutputsAreTheRules
<1>1. IInv => OutputsAreTheRules
  <2> SUFFICES ASSUME IInv, phase = "done"
               PROVE  /\ \A r \in 1..rule : \A c \in InputsOf(r) :
                           /\ OutputOf(r, c) \in DOMAIN output_files
                           /\ output_files[OutputOf(r, c)].rule = r
                           /\ Contains(output_files[OutputOf(r, c)].inputs, c.value)
                      /\ \A path \in DOMAIN output_files :
                           \A v \in ToSet(output_files[path].inputs) :
                             \E c \in InputsOf(output_files[path].rule) :
                               c.value = v /\ OutputOf(output_files[path].rule, c) = path
    BY FilesOfRule DEF OutputsAreTheRules
  <2>1. ASSUME NEW r \in 1..rule, NEW c \in InputsOf(r)
        PROVE  /\ OutputOf(r, c) \in DOMAIN output_files
               /\ output_files[OutputOf(r, c)].rule = r
               /\ Contains(output_files[OutputOf(r, c)].inputs, c.value)
    <3> DEFINE path == OutputOf(r, c)
    <3>1. Gathers(Outcome(r), SegmentsOf(r), InputsOf(r))
      BY FilesOfRule, OutcomeOf
    <3>2. path \in DOMAIN Outcome(r)
      BY <3>1 DEF Gathers, OutputOf
    <3>3. path \in DOMAIN output_files /\ output_files[path].rule = r
      BY <3>2, FilesOfRule
    <3>4. output_files[path].inputs = Outcome(r)[path].inputs
      BY <3>3, FilesOfRule
    <3>5. IsSequence(Outcome(r)[path].inputs) /\ c.value \in ToSet(Outcome(r)[path].inputs)
      BY <3>1, <3>2 DEF Gathers, OutputOf
    <3> QED BY <3>3, <3>4, <3>5, SequenceContains
  <2>2. ASSUME NEW path \in DOMAIN output_files, NEW v \in ToSet(output_files[path].inputs)
        PROVE  \E c \in InputsOf(output_files[path].rule) :
                 c.value = v /\ OutputOf(output_files[path].rule, c) = path
    <3> PICK r : r = output_files[path].rule
      OBVIOUS
    <3>1. r \in 1..rule /\ path \in DOMAIN Outcome(r) /\ v \in ToSet(Outcome(r)[path].inputs)
      BY FilesOfRule
    <3>2. Gathers(Outcome(r), SegmentsOf(r), InputsOf(r))
      BY <3>1, FilesOfRule, OutcomeOf
    <3>3. v \in {c.value : c \in {d \in InputsOf(r) : Resolve(SegmentsOf(r), d).value = path}}
      BY <3>1, <3>2 DEF Gathers
    <3> QED BY <3>3 DEF OutputOf
  <2> QED BY <2>1, <2>2
<1> QED BY <1>1, InductiveInvariant, PTL

-----------------------------------------------------------------------------
(* The texts of a sequence of captured strings.                            *)
LEMMA ValuesOf ==
  ASSUME NEW s, IsSequence(s)
  PROVE  IsSequence(Values(s)) /\ ToSet(Values(s)) = {c.value : c \in ToSet(s)}
<1>1. Len(s) \in Nat /\ DOMAIN s = 1..Len(s)
  BY DEF IsSequence
<1>2. Values(s) = [k \in 1..Len(s) |-> s[k].value]
  BY <1>1 DEF Values
<1>3. Values(s) = [k \in 1..Len(s) |-> Values(s)[k]]
  BY <1>2
<1>4. IsSequence(Values(s))
  BY <1>1, <1>3, SequenceOfLength
<1>5. ToSet(Values(s)) = {c.value : c \in ToSet(s)}
  BY <1>1, <1>2 DEF ToSet
<1> QED BY <1>4, <1>5

(* A file that a rule names is an output of an earlier rule, or a source.  *)
LEMMA NamedIsEarlier ==
  ASSUME IInv, Working, NEW r \in RuleNumbers, Earlier(r),
         NEW input \in InputsIn(manifest.rules[r]), NEW c \in ToSet(Captures(input)),
         c.value \notin SourceTexts
  PROVE  output_files[c.value].rule \in 1..(r - 1)
<1>1. \/ input.ix \in DOMAIN sources /\ Captures(input) = sources[input.ix]
      \/ input.ix \in 1..(r - 1) /\ Captures(input) = captured_paths[input.ix]
  BY InputCaptures DEF IInv
<1>2. CASE input.ix \in DOMAIN sources /\ Captures(input) = sources[input.ix]
  <2> PICK i : i = input.ix
    OBVIOUS
  <2>1. i \in DOMAIN sources /\ c \in ToSet(sources[i])
    BY <1>2
  <2>2. IsSequence(sources[i])
    BY <2>1 DEF IInv, CrawlInv
  <2>3. c.value \in ToSet(Values(sources[i]))
    BY <2>1, <2>2, ValuesOf
  <2> QED BY <2>1, <2>3, Zenon DEF SourceTexts
<1>3. CASE input.ix \in 1..(r - 1) /\ Captures(input) = captured_paths[input.ix]
  <2> PICK i : i = input.ix
    OBVIOUS
  <2>1. i \in 1..(r - 1) /\ i \in RuleNumbers /\ c \in ToSet(captured_paths[i])
    BY <1>3 DEF RuleNumbers, IInv, ManifestInv
  <2>2. output_files[c.value].rule = i
    BY <2>1 DEF IInv, CapturedInv
  <2> QED BY <2>1, <2>2
<1> QED BY <1>1, <1>2, <1>3

(* A generated file that is no source file is needed by files of later     *)
(* rules only.                                                             *)
LEMMA NeedsEarlier ==
  ASSUME IInv, phase = "done", NEW p \in DOMAIN output_files, NEW q, q \notin SourceTexts,
         Needs(p, q)
  PROVE  output_files[q].rule < output_files[p].rule
<1> PICK r : r = output_files[p].rule
  OBVIOUS
<1> DEFINE d == manifest.rules[r]
<1>1. Working /\ r \in 1..rule /\ p \in DOMAIN Outcome(r) /\ output_files[p].inputs = Outcome(r)[p].inputs
  BY FilesOfRule
<1>2. /\ r \in RuleNumbers /\ r \in Nat /\ Earlier(r)
      /\ Gathers(Outcome(r), SegmentsOf(r), InputsOf(r))
      /\ InputsOf(r) = UNION {ToSet(Captures(d.inputs[k])) : k \in DOMAIN d.inputs}
  BY <1>1, OutcomeOf
<1>3. /\ ToSet(d.inputs) \subseteq InputsIn(d) /\ ToSet(d.dependencies) \subseteq InputsIn(d)
      /\ ToSet(d.order_only_dependencies) \subseteq InputsIn(d)
  BY DEF InputsIn
<1>4. /\ output_files[p].dependencies =
           [k \in DOMAIN d.dependencies |-> Values(Captures(d.dependencies[k]))]
      /\ output_files[p].order_only_dependencies = ToSet(Values(CapturesOf(d.order_only_dependencies)))
  <2>1. IsFile(p, output_files[p])
    BY <1>1 DEF IInv, FilesInv
  <2> QED BY <2>1, Zenon DEF IsFile
<1>5. \E input \in InputsIn(d) : \E c \in ToSet(Captures(input)) : c.value = q
  <2>1. CASE Contains(output_files[p].inputs, q)
    <3>1. q \in ToSet(Outcome(r)[p].inputs)
      BY <1>1, <1>2, <2>1, SequenceContains DEF Gathers
    <3>2. PICK c \in InputsOf(r) : c.value = q
      <4>1. q \in {c.value : c \in {e \in InputsOf(r) : Resolve(SegmentsOf(r), e).value = p}}
        BY <1>1, <1>2, <3>1 DEF Gathers
      <4> QED BY <4>1
    <3>3. PICK k \in DOMAIN d.inputs : c \in ToSet(Captures(d.inputs[k]))
      BY <1>2, <3>2
    <3>4. d.inputs[k] \in InputsIn(d)
      BY <1>3 DEF ToSet
    <3> QED BY <3>2, <3>3, <3>4
  <2>2. CASE \E e \in ToSet(output_files[p].dependencies) : Contains(e, q)
    <3>1. PICK k \in DOMAIN d.dependencies : Contains(Values(Captures(d.dependencies[k])), q)
      BY <1>4, <2>2 DEF ToSet
    <3>2. d.dependencies[k] \in InputsIn(d)
      BY <1>3 DEF ToSet
    <3>3. IsSequence(Captures(d.dependencies[k]))
      BY <1>1, <1>2, <3>2, InputCaptures DEF IInv
    <3>4. q \in ToSet(Values(Captures(d.dependencies[k])))
      BY <3>1, <3>3, ValuesOf, SequenceContains
    <3>5. \E c \in ToSet(Captures(d.dependencies[k])) : c.value = q
      BY <3>3, <3>4, ValuesOf
    <3> QED BY <3>2, <3>5
  <2>3. CASE q \in output_files[p].order_only_dependencies
    <3> DEFINE inputs == d.order_only_dependencies
    <3>1. inputs \in Seq(Input)
      BY <1>2 DEF IInv, ManifestInv
    <3>2. /\ CapturesOf(inputs) \in Seq(AllCaptures)
          /\ ToSet(CapturesOf(inputs)) = UNION {ToSet(Captures(inputs[k])) : k \in DOMAIN inputs}
      BY <1>1, <1>2, <1>3, <3>1, AllCapturesOf DEF IInv
    <3>3. PICK c \in ToSet(CapturesOf(inputs)) : c.value = q
      BY <1>4, <2>3, <3>2, SequenceOf, ValuesOf
    <3>4. PICK k \in DOMAIN inputs : c \in ToSet(Captures(inputs[k]))
      BY <3>2, <3>3
    <3>5. inputs[k] \in InputsIn(d)
      BY <1>3 DEF ToSet
    <3> QED BY <3>3, <3>4, <3>5
  <2> QED BY <2>1, <2>2, <2>3 DEF Needs
<1>6. output_files[q].rule \in 1..(r - 1)
  BY <1>1, <1>2, <1>5, NamedIsEarlier
<1> QED BY <1>2, <1>6

(* Generated files do not need each other in a circle, unless one of them  *)
(* is at the same time a source file                                       *)
(* (gen_update_map.cpp:88-90, 41, 62, 111-116).                            *)
THEOREM NoCycleOfOutputs == Spec => []CyclesNeedSharedPath
<1>1. IInv => CyclesNeedSharedPath
  <2> SUFFICES ASSUME IInv, phase = "done", DOMAIN output_files \cap SourceTexts = {},
                      NEW S \in SUBSET DOMAIN output_files, S # {}
               PROVE  \E p \in S : \A q \in S : ~Needs(p, q)
    BY DEF CyclesNeedSharedPath
  <2> DEFINE T == {output_files[p].rule : p \in S}
  <2>1. T \in SUBSET Nat /\ T # {}
    BY FilesOfRule
  <2>2. PICK x \in T : \A y \in T : x <= y
    <3> HIDE DEF T
    <3> QED BY <2>1, Least
  <2>3. PICK p \in S : output_files[p].rule = x
    OBVIOUS
  <2>4. ASSUME NEW q \in S, Needs(p, q) PROVE FALSE
    <3>1. output_files[q].rule < output_files[p].rule
      BY <2>4, NeedsEarlier
    <3>2. output_files[p].rule \in Nat /\ output_files[q].rule \in Nat
      BY FilesOfRule
    <3>3. x <= output_files[q].rule
      BY <2>2
    <3> QED BY <2>3, <3>1, <3>2, <3>3
  <2> QED BY <2>4
<1> QED BY <1>1, InductiveInvariant, PTL

-----------------------------------------------------------------------------
(* The crawler. What it has found and what lies ahead of it are the files  *)
(* that the segments of the patterns fit, each once.                       *)

(* What a name in a file tree may be.                                      *)
PathNames == Seq(STRING) \ {<<>>}

(* q is p or above it.                                                     *)
Above(q, p) == Len(q) <= Len(p) /\ \A n \in 1..Len(q) : p[n] = q[n]

(* The path of the entry, and how a path p is known to lie ahead: it is an *)
(* unread entry or below one, a directory of the plan or below one, or the *)
(* current entry or below it.                                              *)
EntPath      == Append(path_prefix, ent)
Unread(p)  == \E name \in unread : Above(Append(path_prefix, name), p)
InPlan(p)  == \E d \in DOMAIN pending : Above(d, p)
AtEnt(p)   == ent # <<>> /\ Above(EntPath, p)
Reading    == unread # {} \/ ent # <<>>

(* The first segments up to s - 1 of a pattern stand for names of dir, and *)
(* segment s is the next to be found in it or, with a wildcard, below.     *)
Leads(segments, dir, s) ==
  \E at \in [0..(s - 1) -> 0..Len(dir)] :
    /\ at[0] = 0
    /\ \A j, k \in DOMAIN at : j < k => at[j] < at[k]
    /\ \A k \in 1..(s - 1) :
         /\ Matches(segments[k].ent_name, dir[at[k]])
         /\ at[k] # at[k - 1] + 1 => segments[k].has_wildcard
    /\ at[s - 1] # Len(dir) => segments[s].has_wildcard

(* A pattern's segments, and the bookmarks that point to them.             *)
Segments(i) == patterns[i].segments
Steps(i)    == 1..Len(Segments(i))

IsBookmark(b) ==
  /\ b = [pattern |-> b.pattern, segment |-> b.segment, from |-> b.from, to |-> b.to]
  /\ b.pattern \in DOMAIN patterns /\ b.segment \in Steps(b.pattern)

Ordered(marks) ==
  /\ IsSequence(marks)
  /\ \A k \in DOMAIN marks : IsBookmark(marks[k])
  /\ \A j, k \in DOMAIN marks : j <= k => marks[j].pattern <= marks[k].pattern

(* Among the bookmarks there is one for segment s of pattern i. They are   *)
(* complete if there is one exactly where the pattern leads.               *)
Marked(marks, i, s) == \E k \in DOMAIN marks : marks[k].pattern = i /\ marks[k].segment = s

Complete(marks, dir) ==
  Ordered(marks) /\ \A i \in DOMAIN patterns : \A s \in Steps(i) : Marked(marks, i, s) <=> Leads(Segments(i), dir, s)

(* A directory that the crawler may read.                                  *)
Directory(d) == d \in DOMAIN tree /\ tree[d] = "directory" /\ Visible(d)

(* What a bookmark makes of the entry: its segment matches the name, it    *)
(* gives a bookmark for the entry as a directory, or a match.              *)
FoundBy(b) == Matches(Segments(b.pattern)[b.segment].ent_name, ent)

Gives(b, i, s) ==
  /\ b.pattern = i
  /\ \/ s = b.segment /\ Segments(i)[s].has_wildcard
     \/ s = b.segment + 1 /\ s \in Steps(i) /\ FoundBy(b)

Finds(b) == FoundBy(b) /\ b.segment = Len(Segments(b.pattern)) /\ tree[EntPath] = "regular"

(* Types: what is to be read is a directory, and what was read is in the   *)
(* tree.                                                                   *)
WalkTyped ==
  /\ tree \in Trees
  /\ Len(patterns) \in Nat /\ DOMAIN patterns = 1..Len(patterns)
  /\ \A i \in DOMAIN patterns : IsSequence(Segments(i)) /\ Segments(i) # <<>>
  /\ \A d \in DOMAIN pending : Directory(d) /\ pending[d] # <<>>
  /\ Reading => Directory(path_prefix) /\ bookmarks # <<>>
  /\ \A name \in unread : name \in PathNames /\ Append(path_prefix, name) \in DOMAIN tree
  /\ ent # <<>> => /\ ent \in PathNames /\ EntPath \in DOMAIN tree /\ Visible(EntPath)
                   /\ bookmark_ix \in DOMAIN bookmarks

(* Nothing is to be read twice: no directory of the plan is above another, *)
(* above the one being read, or below what is unread of it.                *)
Apart ==
  /\ \A d, e \in DOMAIN pending : Above(d, e) => d = e
  /\ \A d \in DOMAIN pending :
       /\ Reading => ~Above(d, path_prefix)
       /\ ~Unread(d)
       /\ AtEnt(d) => d = EntPath
  /\ ent # <<>> => ent \notin unread

(* The bookmarks of a directory are where the patterns lead, save for an   *)
(* entry whose bookmarks are still tried.                                  *)
BookmarksInv ==
  /\ \A d \in DOMAIN pending : (ent # <<>> => d # EntPath) => Complete(pending[d], d)
  /\ Reading => Complete(bookmarks, path_prefix)

(* The first n bookmarks have been tried with the entry.                   *)
Tried(plan, n) ==
  /\ EntPath \in DOMAIN plan =>
       /\ tree[EntPath] = "directory" /\ Ordered(plan[EntPath])
       /\ \A i \in DOMAIN patterns : \A s \in Steps(i) :
            Marked(plan[EntPath], i, s) => \E k \in 1..n : Gives(bookmarks[k], i, s)
  /\ \A i \in DOMAIN patterns : \A s \in Steps(i) : \A k \in 1..n :
       tree[EntPath] = "directory" /\ Gives(bookmarks[k], i, s) =>
         EntPath \in DOMAIN plan /\ Marked(plan[EntPath], i, s)

(* What the bookmarks tried so far have made of the entry.                 *)
EntInv ==
  ent # <<>> =>
    /\ Tried(pending, bookmark_ix - 1)
    /\ ent_had_final_match <=> \E k \in 1..(bookmark_ix - 1) : Finds(bookmarks[k])

(* The files to be found for pattern i, and those found.                   *)
FirstFor(i, p) ==
  /\ p \in DOMAIN tree /\ tree[p] = "regular" /\ FitsParsed(i, p)
  /\ \A j \in 1..(i - 1) : ~FitsParsed(j, p)

FoundIn(s) == {m.value : m \in ToSet(s)}
OnceIn(s)  == \A j, k \in DOMAIN s : s[j].value = s[k].value => j = k

(* What was found was to be found, once, and does not lie ahead.           *)
MatchesInv ==
  /\ DOMAIN matches = DOMAIN patterns
  /\ \A i \in DOMAIN patterns : IsSequence(matches[i]) /\ OnceIn(matches[i])
  /\ \A i \in DOMAIN patterns : \A p \in FoundIn(matches[i]) :
       /\ FirstFor(i, p) /\ ~Unread(p) /\ ~InPlan(p)
       /\ AtEnt(p) => p = EntPath /\ ent_had_final_match

(* What is to be found was found or lies ahead.                            *)
NothingMissed ==
  \A i \in DOMAIN patterns : \A p \in DOMAIN tree :
    FirstFor(i, p) => \/ p \in FoundIn(matches[i]) \/ Unread(p) \/ InPlan(p)
                      \/ AtEnt(p) /\ (p = EntPath => ~ent_had_final_match)

(* The inductive invariant of the crawl.                                   *)
WalkInv == WalkTyped /\ Apart /\ BookmarksInv /\ EntInv /\ MatchesInv /\ NothingMissed

-----------------------------------------------------------------------------
(* Paths.                                                                  *)
LEMMA TreePaths ==
  ASSUME NEW t \in Trees
  PROVE  /\ DOMAIN t \subseteq Seq(PathNames)
         /\ <<>> \in DOMAIN t /\ t[<<>>] = "directory"
         /\ \A p \in DOMAIN t : \A k \in 0..(Len(p) - 1) :
              SubSeq(p, 1, k) \in DOMAIN t /\ t[SubSeq(p, 1, k)] = "directory"
BY TreesAssumption DEF PathNames

(* What Append does to a path.                                             *)
LEMMA Appended ==
  ASSUME NEW S, NEW d \in Seq(S), NEW n \in S
  PROVE  /\ Append(d, n) \in Seq(S) /\ Len(Append(d, n)) = Len(d) + 1 /\ Len(d) \in Nat
         /\ DOMAIN d = 1..Len(d) /\ DOMAIN Append(d, n) = 1..(Len(d) + 1)
         /\ \A k \in 1..Len(d) : Append(d, n)[k] = d[k]
         /\ Append(d, n)[Len(d) + 1] = n
  OBVIOUS

(* Facts about paths above others, first that each is above itself.        *)
LEMMA AboveSelf ==
  ASSUME NEW p, Len(p) \in Nat
  PROVE  Above(p, p)
BY DEF Above

(* An entry of d is above p if p goes on with that name after d.           *)
LEMMA AboveAppend ==
  ASSUME NEW S, NEW d \in Seq(S), NEW n \in S, NEW p \in Seq(S)
  PROVE  Above(Append(d, n), p) <=> Above(d, p) /\ Len(d) < Len(p) /\ p[Len(d) + 1] = n
<1> DEFINE q == Append(d, n)
<1>1. Len(q) = Len(d) + 1 /\ (\A k \in 1..Len(d) : q[k] = d[k]) /\ q[Len(d) + 1] = n
      /\ Len(d) \in Nat /\ Len(p) \in Nat
  BY Appended
<1> HIDE DEF q
<1>2. ASSUME Above(q, p) PROVE Above(d, p) /\ Len(d) < Len(p) /\ p[Len(d) + 1] = n
  BY <1>1, <1>2 DEF Above
<1>3. ASSUME Above(d, p), Len(d) < Len(p), p[Len(d) + 1] = n PROVE Above(q, p)
  <2>1. ASSUME NEW k \in 1..Len(q) PROVE p[k] = q[k]
    <3>1. k \in 1..Len(d) \/ k = Len(d) + 1
      BY <1>1
    <3> QED BY <1>1, <1>3, <3>1 DEF Above
  <2> QED BY <1>1, <1>3, <2>1 DEF Above
<1> QED BY <1>2, <1>3 DEF q

(* Of paths of one length only equal ones are above each other.            *)
LEMMA AboveEqual ==
  ASSUME NEW S, NEW p \in Seq(S), NEW q \in Seq(S), Above(q, p), Len(p) <= Len(q)
  PROVE  q = p
<1>1. Len(p) = Len(q) /\ Len(p) \in Nat /\ \A n \in 1..Len(q) : p[n] = q[n]
  BY DEF Above
<1>2. q = [n \in 1..Len(q) |-> q[n]] /\ p = [n \in 1..Len(p) |-> p[n]]
  OBVIOUS
<1> QED BY <1>1, <1>2

(* What is above a path is the start of it.                                *)
LEMMA AbovePrefix ==
  ASSUME NEW S, NEW p \in Seq(S), NEW q \in Seq(S), Above(q, p)
  PROVE  q = SubSeq(p, 1, Len(q)) /\ (q # p => Len(q) \in 0..(Len(p) - 1))
<1>1. Len(q) \in Nat /\ Len(p) \in Nat /\ Len(q) <= Len(p) /\ \A n \in 1..Len(q) : p[n] = q[n]
  BY DEF Above
<1>2. SubSeq(p, 1, Len(q)) = [n \in 1..Len(q) |-> p[n]]
  <2>1. SubSeq(p, 1, Len(q)) = [n \in 1..(1 + Len(q) - 1) |-> p[1 + n - 1]]
    BY DEF SubSeq
  <2>2. 1 + Len(q) - 1 = Len(q) /\ \A n \in 1..Len(q) : 1 + n - 1 = n
    BY <1>1
  <2> QED BY <2>1, <2>2
<1>3. q = [n \in 1..Len(q) |-> q[n]]
  OBVIOUS
<1>4. q # p => Len(q) # Len(p)
  BY <1>1, AboveEqual
<1> QED BY <1>1, <1>2, <1>3, <1>4

(* What is above a path of the tree is a directory of it.                  *)
LEMMA AboveInTree ==
  ASSUME NEW t \in Trees, NEW p \in DOMAIN t, NEW q \in Seq(PathNames), Above(q, p), q # p
  PROVE  q \in DOMAIN t /\ t[q] = "directory"
<1>1. p \in Seq(PathNames)
  BY TreePaths
<1>2. q = SubSeq(p, 1, Len(q)) /\ Len(q) \in 0..(Len(p) - 1)
  BY <1>1, AbovePrefix
<1> QED BY <1>2, TreePaths

(* What is above an entry is the entry or above its directory.             *)
LEMMA AboveOfAppend ==
  ASSUME NEW S, NEW d \in Seq(S), NEW n \in S, NEW q \in Seq(S)
  PROVE  Above(q, Append(d, n)) <=> q = Append(d, n) \/ Above(q, d)
<1> DEFINE p == Append(d, n)
<1>1. p \in Seq(S) /\ Len(p) = Len(d) + 1 /\ (\A k \in 1..Len(d) : p[k] = d[k])
      /\ Len(d) \in Nat /\ Len(q) \in Nat
  BY Appended
<1> HIDE DEF p
<1>2. ASSUME Above(q, p), q # p PROVE Above(q, d)
  <2>1. Len(q) <= Len(d)
    <3>1. Len(q) \in 0..(Len(p) - 1)
      BY <1>1, <1>2, AbovePrefix
    <3> QED BY <1>1, <3>1
  <2>2. \A k \in 1..Len(q) : d[k] = q[k]
    BY <1>1, <1>2, <2>1 DEF Above
  <2> QED BY <2>1, <2>2 DEF Above
<1>3. ASSUME Above(q, d) PROVE Above(q, p)
  <2>1. Len(q) <= Len(d) /\ \A k \in 1..Len(q) : d[k] = q[k]
    BY <1>3 DEF Above
  <2>2. \A k \in 1..Len(q) : k \in 1..Len(d)
    BY <1>1, <2>1
  <2>3. Len(q) <= Len(p)
    BY <1>1, <2>1
  <2> QED BY <1>1, <2>1, <2>2, <2>3 DEF Above
<1>4. Above(p, p)
  BY <1>1, AboveSelf
<1> QED BY <1>2, <1>3, <1>4 DEF p

(* Two paths above the same one are above one another.                     *)
LEMMA AboveBoth ==
  ASSUME NEW S, NEW p \in Seq(S), NEW q \in Seq(S), NEW r \in Seq(S), Above(q, p), Above(r, p)
  PROVE  Above(q, r) \/ Above(r, q)
<1>1. Len(q) \in Nat /\ Len(r) \in Nat
  OBVIOUS
<1> QED BY <1>1 DEF Above

(* Being above is transitive.                                              *)
LEMMA AboveTrans ==
  ASSUME NEW S, NEW p \in Seq(S), NEW q \in Seq(S), NEW r \in Seq(S), Above(q, p), Above(p, r)
  PROVE  Above(q, r)
<1>1. Len(p) \in Nat /\ Len(q) \in Nat /\ Len(r) \in Nat
  OBVIOUS
<1> QED BY <1>1 DEF Above

(* What is below a path is below one name in it.                           *)
LEMMA AboveNext ==
  ASSUME NEW t \in Trees, NEW p \in DOMAIN t, NEW d \in Seq(PathNames), Above(d, p), d # p
  PROVE  /\ p[Len(d) + 1] \in PathNames
         /\ Append(d, p[Len(d) + 1]) \in DOMAIN t
         /\ Above(Append(d, p[Len(d) + 1]), p)
<1>1. p \in Seq(PathNames)
  BY TreePaths
<1>2. Len(d) \in 0..(Len(p) - 1) /\ Len(p) \in Nat
  BY <1>1, AbovePrefix
<1>3. p[Len(d) + 1] \in PathNames
  <2>1. Len(d) + 1 \in 1..Len(p)
    BY <1>2
  <2> QED BY <1>1, <2>1
<1>4. Above(Append(d, p[Len(d) + 1]), p)
  BY <1>1, <1>2, <1>3, AboveAppend
<1>5. Append(d, p[Len(d) + 1]) \in Seq(PathNames)
  BY <1>3, Appended
<1>6. Append(d, p[Len(d) + 1]) \in DOMAIN t
  BY <1>4, <1>5, AboveInTree
<1> QED BY <1>3, <1>4, <1>6

(* What Names() lists.                                                     *)
LEMMA NamesOf ==
  ASSUME tree \in Trees, NEW d \in Seq(PathNames)
  PROVE  \A n : n \in Names(d) <=> n \in PathNames /\ Append(d, n) \in DOMAIN tree
<1>1. ASSUME NEW n \in Names(d) PROVE n \in PathNames /\ Append(d, n) \in DOMAIN tree
  <2>1. PICK q \in DOMAIN tree : q # <<>> /\ Front(q) = d /\ n = Last(q)
    BY DEF Names
  <2>2. q \in Seq(PathNames)
    BY TreePaths
  <2>3. Last(q) \in PathNames /\ Append(Front(q), Last(q)) = q
    BY <2>1, <2>2 DEF Last, Front
  <2> QED BY <2>1, <2>3
<1>2. ASSUME NEW n \in PathNames, Append(d, n) \in DOMAIN tree PROVE n \in Names(d)
  <2> DEFINE q == Append(d, n)
  <2>1. q # <<>> /\ Front(q) = d /\ Last(q) = n
    BY DEF Last, Front
  <2> HIDE DEF q
  <2>2. q \in DOMAIN tree
    BY <1>2 DEF q
  <2> QED BY <2>1, <2>2 DEF Names
<1> QED BY <1>1, <1>2

(* An entry is visible if its directory and its name are.                  *)
LEMMA VisibleAppend ==
  ASSUME NEW S, NEW d \in Seq(S), NEW n \in S
  PROVE  Visible(Append(d, n)) <=> Visible(d) /\ Head(n) # Period
<1> DEFINE q == Append(d, n)
<1>1. /\ Len(d) \in Nat /\ DOMAIN d = 1..Len(d) /\ DOMAIN q = 1..(Len(d) + 1)
      /\ (\A k \in 1..Len(d) : q[k] = d[k]) /\ q[Len(d) + 1] = n
  BY Appended
<1> HIDE DEF q
<1>2. Visible(q) <=> Visible(d) /\ Head(n) # Period
  <2>1. ASSUME Visible(q) PROVE Visible(d) /\ Head(n) # Period
    <3>1. \A k \in 1..Len(d) : k \in 1..(Len(d) + 1)
      BY <1>1
    <3>2. Len(d) + 1 \in 1..(Len(d) + 1)
      BY <1>1
    <3> QED BY <1>1, <2>1, <3>1, <3>2 DEF Visible
  <2>2. ASSUME Visible(d), Head(n) # Period PROVE Visible(q)
    <3>1. \A k \in 1..(Len(d) + 1) : k \in 1..Len(d) \/ k = Len(d) + 1
      BY <1>1
    <3> QED BY <1>1, <2>2, <3>1 DEF Visible
  <2> QED BY <2>1, <2>2
<1> QED BY <1>2 DEF q

(* What is above a visible path is visible.                                *)
LEMMA VisibleAbove ==
  ASSUME NEW S, NEW p \in Seq(S), NEW q \in Seq(S), Above(q, p), Visible(p)
  PROVE  Visible(q)
<1>1. DOMAIN p = 1..Len(p) /\ DOMAIN q = 1..Len(q) /\ Len(p) \in Nat /\ Len(q) \in Nat
  OBVIOUS
<1> QED BY <1>1 DEF Above, Visible
-----------------------------------------------------------------------------
(* Where the segments of a pattern lead.                                   *)

(* What Leads and SegmentsFit have in common.                              *)
Placed(segments, path, at, s) ==
  /\ at[0] = 0
  /\ \A j, k \in 0..s : j < k => at[j] < at[k]
  /\ \A k \in 1..s : /\ Matches(segments[k].ent_name, path[at[k]])
                     /\ at[k] # at[k - 1] + 1 => segments[k].has_wildcard

(* Where a pattern leads, by places of segments.                           *)
LEMMA LeadsBy ==
  ASSUME NEW segments, NEW dir, NEW s \in Nat \ {0}
  PROVE  Leads(segments, dir, s) <=>
           \E at \in [0..(s - 1) -> 0..Len(dir)] :
             Placed(segments, dir, at, s - 1) /\ (at[s - 1] # Len(dir) => segments[s].has_wildcard)
<1>1. \A at \in [0..(s - 1) -> 0..Len(dir)] : DOMAIN at = 0..(s - 1)
  OBVIOUS
<1> QED BY <1>1 DEF Leads, Placed

(* What a pattern fits, by places of segments.                             *)
LEMMA FitBy ==
  ASSUME NEW segments, NEW path, Len(segments) \in Nat
  PROVE  SegmentsFit(segments, path) <=>
           \E at \in [0..Len(segments) -> 0..Len(path)] :
             Placed(segments, path, at, Len(segments)) /\ at[Len(segments)] = Len(path)
<1>1. \A at \in [0..Len(segments) -> 0..Len(path)] : DOMAIN at = 0..Len(segments)
  OBVIOUS
<1> QED BY <1>1 DEF SegmentsFit, Placed

(* In the root the first segment is to be found, and no other.             *)
LEMMA LeadsAtRoot ==
  ASSUME NEW segments, NEW s \in Nat \ {0}
  PROVE  Leads(segments, <<>>, s) <=> s = 1
<1>1. ASSUME s = 1 PROVE Leads(segments, <<>>, s)
  <2> DEFINE at == [k \in 0..0 |-> 0]
  <2>1. at \in [0..(s - 1) -> 0..Len(<<>>)] /\ at[s - 1] = Len(<<>>)
    BY <1>1
  <2>2. Placed(segments, <<>>, at, s - 1)
    BY <1>1 DEF Placed
  <2> HIDE DEF at
  <2> QED BY <2>1, <2>2, LeadsBy
<1>2. ASSUME s # 1, Leads(segments, <<>>, s) PROVE FALSE
  <2>1. PICK at \in [0..(s - 1) -> 0..Len(<<>>)] : Placed(segments, <<>>, at, s - 1)
    BY <1>2, LeadsBy
  <2>2. 0 \in 0..(s - 1) /\ 1 \in 0..(s - 1)
    BY <1>2
  <2>3. at[0] < at[1]
    BY <2>1, <2>2 DEF Placed
  <2>4. at[0] \in 0..0 /\ at[1] \in 0..0
    BY <2>1, <2>2
  <2> QED BY <2>3, <2>4
<1> QED BY <1>1, <1>2

(* Places in a path are places in what is below it.                        *)
LEMMA PlacedBelow ==
  ASSUME NEW S, NEW d \in Seq(S), NEW n \in S, NEW segments, NEW s \in Nat,
         NEW at \in [0..s -> 0..Len(d)]
  PROVE  Placed(segments, d, at, s) <=> Placed(segments, Append(d, n), at, s)
<1>1. /\ Len(d) \in Nat /\ \A k \in 1..Len(d) : Append(d, n)[k] = d[k]
  BY Appended
<1>2. ASSUME at[0] = 0, \A j, k \in 0..s : j < k => at[j] < at[k], NEW k \in 1..s
      PROVE  at[k] \in 1..Len(d)
  <2>1. k \in 0..s /\ 0 \in 0..s /\ 0 < k
    OBVIOUS
  <2>2. at[0] < at[k] /\ at[k] \in 0..Len(d)
    BY <1>2, <2>1
  <2> QED BY <1>1, <1>2, <2>2
<1>3. ASSUME at[0] = 0, \A j, k \in 0..s : j < k => at[j] < at[k], NEW k \in 1..s
      PROVE  Append(d, n)[at[k]] = d[at[k]]
  BY <1>1, <1>2, <1>3
<1> QED BY <1>3 DEF Placed

(* The last segment that has been placed, taken away.                      *)
LEMMA PlacedBefore ==
  ASSUME NEW S, NEW d \in Seq(S), NEW n \in S, NEW segments, NEW s \in Nat \ {0},
         NEW at \in [0..s -> 0..(Len(d) + 1)],
         Placed(segments, Append(d, n), at, s), at[s] = Len(d) + 1
  PROVE  Leads(segments, d, s) /\ Matches(segments[s].ent_name, n)
<1>1. Len(d) \in Nat /\ Append(d, n)[Len(d) + 1] = n
  BY Appended
<1> DEFINE b == [k \in 0..(s - 1) |-> at[k]]
<1>2. ASSUME NEW k \in 0..(s - 1) PROVE k \in 0..s /\ k < s /\ at[k] \in 0..Len(d)
  <2>1. k \in 0..s /\ s \in 0..s /\ k < s
    OBVIOUS
  <2>2. at[k] < at[s]
    BY <2>1 DEF Placed
  <2>3. at[k] \in 0..(Len(d) + 1)
    BY <2>1
  <2> QED BY <1>1, <2>1, <2>2, <2>3
<1>3. b \in [0..(s - 1) -> 0..Len(d)]
  BY <1>2
<1>4. s - 1 \in Nat /\ (s - 1) + 1 = s /\ s - 1 \in 0..(s - 1) /\ 0 \in 0..(s - 1)
  OBVIOUS
<1>5. Placed(segments, Append(d, n), b, s - 1)
  <2>1. b[0] = 0
    BY <1>4 DEF Placed
  <2>2. \A j, k \in 0..(s - 1) : j < k => b[j] < b[k]
    BY <1>2 DEF Placed
  <2>3. ASSUME NEW k \in 1..(s - 1)
        PROVE  /\ Matches(segments[k].ent_name, Append(d, n)[b[k]])
               /\ b[k] # b[k - 1] + 1 => segments[k].has_wildcard
    <3>1. k \in 0..(s - 1) /\ k - 1 \in 0..(s - 1) /\ k \in 1..s
      OBVIOUS
    <3>2. b[k] = at[k] /\ b[k - 1] = at[k - 1]
      BY <3>1
    <3> QED BY <3>1, <3>2 DEF Placed
  <2> HIDE DEF b
  <2> QED BY <2>1, <2>2, <2>3 DEF Placed
<1>6. Placed(segments, d, b, s - 1)
  <2> HIDE DEF b
  <2> QED BY <1>3, <1>4, <1>5, PlacedBelow
<1>7. Matches(segments[s].ent_name, n) /\ (at[s - 1] # Len(d) => segments[s].has_wildcard)
  <2>1. s \in 1..s
    OBVIOUS
  <2>2. at[s - 1] \in 0..Len(d)
    BY <1>2, <1>4
  <2>3. at[s - 1] # Len(d) => at[s] # at[s - 1] + 1
    BY <1>1, <2>2
  <2> QED BY <1>1, <2>1, <2>3 DEF Placed
<1>8. b[s - 1] = at[s - 1]
  BY <1>4
<1> HIDE DEF b
<1>9. Leads(segments, d, s)
  BY <1>3, <1>6, <1>7, <1>8, LeadsBy
<1> QED BY <1>7, <1>9

(* And another one placed.                                                 *)
LEMMA PlacedNext ==
  ASSUME NEW S, NEW d \in Seq(S), NEW n \in S, NEW segments, NEW s \in Nat \ {0},
         Leads(segments, d, s), Matches(segments[s].ent_name, n)
  PROVE  \E at \in [0..s -> 0..(Len(d) + 1)] :
           Placed(segments, Append(d, n), at, s) /\ at[s] = Len(d) + 1
<1>1. Len(d) \in Nat /\ Append(d, n)[Len(d) + 1] = n
  BY Appended
<1>2. PICK b \in [0..(s - 1) -> 0..Len(d)] :
        Placed(segments, d, b, s - 1) /\ (b[s - 1] # Len(d) => segments[s].has_wildcard)
  BY LeadsBy
<1>3. Placed(segments, Append(d, n), b, s - 1)
  <2>1. s - 1 \in Nat
    OBVIOUS
  <2> QED BY <1>2, <2>1, PlacedBelow
<1> DEFINE at == [k \in 0..s |-> IF k = s THEN Len(d) + 1 ELSE b[k]]
<1>4. ASSUME NEW k \in 0..s, k # s PROVE k \in 0..(s - 1) /\ at[k] = b[k] /\ b[k] \in 0..Len(d)
  BY <1>2, <1>4
<1>5. at[s] = Len(d) + 1 /\ s \in 0..s /\ 0 \in 0..s
  OBVIOUS
<1>6. at \in [0..s -> 0..(Len(d) + 1)]
  <2>1. ASSUME NEW k \in 0..s PROVE at[k] \in 0..(Len(d) + 1)
    <3> HIDE DEF at
    <3> QED BY <1>1, <1>4, <1>5
  <2> QED BY <2>1
<1> HIDE DEF at
<1>7. at[0] = 0
  BY <1>3, <1>4, <1>5 DEF Placed
<1>8. ASSUME NEW j \in 0..s, NEW k \in 0..s, j < k PROVE at[j] < at[k]
  <2>1. j # s
    BY <1>8
  <2>2. at[j] = b[j] /\ b[j] \in 0..Len(d) /\ j \in 0..(s - 1)
    BY <1>4, <2>1
  <2>3. CASE k = s
    BY <1>1, <1>5, <2>2, <2>3
  <2>4. CASE k # s
    <3>1. at[k] = b[k] /\ k \in 0..(s - 1)
      BY <1>4, <2>4
    <3> QED BY <1>3, <1>8, <2>2, <3>1 DEF Placed
  <2> QED BY <2>3, <2>4
<1>9. ASSUME NEW k \in 1..s
      PROVE  /\ Matches(segments[k].ent_name, Append(d, n)[at[k]])
             /\ at[k] # at[k - 1] + 1 => segments[k].has_wildcard
  <2>1. k \in 0..s /\ k - 1 \in 0..s /\ k - 1 # s
    OBVIOUS
  <2>2. at[k - 1] = b[k - 1]
    BY <1>4, <2>1
  <2>3. CASE k = s
    <3>1. Append(d, n)[at[k]] = n
      BY <1>1, <1>5, <2>3
    <3>2. b[s - 1] \in 0..Len(d)
      BY <1>4, <2>1, <2>3
    <3>3. at[k] # at[k - 1] + 1 => b[s - 1] # Len(d)
      BY <1>5, <2>2, <2>3
    <3> QED BY <1>2, <2>3, <3>1, <3>3
  <2>4. CASE k # s
    <3>1. at[k] = b[k] /\ k \in 1..(s - 1)
      BY <1>4, <2>1, <2>4
    <3> QED BY <1>3, <2>2, <3>1 DEF Placed
  <2> QED BY <2>3, <2>4
<1>10. Placed(segments, Append(d, n), at, s)
  BY <1>7, <1>8, <1>9 DEF Placed
<1> QED BY <1>5, <1>6, <1>10

(* A pattern fits an entry if its last segment is to be found in the       *)
(* directory and matches the name.                                         *)
LEMMA FitsEntry ==
  ASSUME NEW S, NEW d \in Seq(S), NEW n \in S, NEW segments, Len(segments) \in Nat \ {0}
  PROVE  SegmentsFit(segments, Append(d, n)) <=>
           /\ Leads(segments, d, Len(segments))
           /\ Matches(segments[Len(segments)].ent_name, n)
<1>1. Len(Append(d, n)) = Len(d) + 1
  BY Appended
<1> DEFINE s == Len(segments)
<1>2. SegmentsFit(segments, Append(d, n)) <=>
           \E at \in [0..s -> 0..(Len(d) + 1)] :
             Placed(segments, Append(d, n), at, s) /\ at[s] = Len(d) + 1
  BY <1>1, FitBy
<1>3. s \in Nat \ {0}
  OBVIOUS
<1> HIDE DEF s
<1>4. (\E at \in [0..s -> 0..(Len(d) + 1)] :
        Placed(segments, Append(d, n), at, s) /\ at[s] = Len(d) + 1)
      <=> Leads(segments, d, s) /\ Matches(segments[s].ent_name, n)
  BY <1>3, PlacedBefore, PlacedNext
<1> QED BY <1>2, <1>4 DEF s

(* Where a pattern leads in a directory, from its parent: what push_       *)
(* wildcard_match_() and push_ent_name_match_() are for.                   *)
LEMMA LeadsOn ==
  ASSUME NEW S, NEW d \in Seq(S), NEW n \in S, NEW segments, NEW s \in Nat \ {0}
  PROVE  Leads(segments, Append(d, n), s) <=>
           \/ Leads(segments, d, s) /\ segments[s].has_wildcard
           \/ s # 1 /\ Leads(segments, d, s - 1) /\ Matches(segments[s - 1].ent_name, n)
<1> DEFINE p == Append(d, n)
<1>1. Len(p) = Len(d) + 1 /\ Len(d) \in Nat
  BY Appended
<1>2. s - 1 \in Nat /\ s - 1 \in 0..(s - 1) /\ 0 \in 0..(s - 1)
  OBVIOUS
<1>3. ASSUME Leads(segments, d, s), segments[s].has_wildcard PROVE Leads(segments, p, s)
  <2>1. PICK at \in [0..(s - 1) -> 0..Len(d)] : Placed(segments, d, at, s - 1)
    BY <1>3, LeadsBy
  <2>2. Placed(segments, p, at, s - 1)
    BY <1>2, <2>1, PlacedBelow
  <2> HIDE DEF p
  <2>3. at \in [0..(s - 1) -> 0..Len(p)]
    BY <1>1
  <2> QED BY <1>3, <2>2, <2>3, LeadsBy
<1>4. ASSUME s # 1, Leads(segments, d, s - 1), Matches(segments[s - 1].ent_name, n)
      PROVE  Leads(segments, p, s)
  <2>1. s - 1 \in Nat \ {0}
    BY <1>4
  <2>2. PICK at \in [0..(s - 1) -> 0..(Len(d) + 1)] :
          Placed(segments, p, at, s - 1) /\ at[s - 1] = Len(d) + 1
    BY <1>4, <2>1, PlacedNext
  <2> HIDE DEF p
  <2>3. at \in [0..(s - 1) -> 0..Len(p)] /\ at[s - 1] = Len(p)
    BY <1>1, <2>2
  <2> QED BY <2>2, <2>3, LeadsBy
<1>5. ASSUME Leads(segments, p, s)
      PROVE  \/ Leads(segments, d, s) /\ segments[s].has_wildcard
             \/ s # 1 /\ Leads(segments, d, s - 1) /\ Matches(segments[s - 1].ent_name, n)
  <2>1. PICK at \in [0..(s - 1) -> 0..(Len(d) + 1)] :
          Placed(segments, p, at, s - 1) /\ (at[s - 1] # Len(d) + 1 => segments[s].has_wildcard)
    <3> HIDE DEF p
    <3> QED BY <1>1, <1>5, LeadsBy
  <2>2. CASE at[s - 1] = Len(d) + 1
    <3>1. s # 1
      <4>1. at[0] = 0
        BY <2>1 DEF Placed
      <4> QED BY <1>1, <2>2, <4>1
    <3>2. s - 1 \in Nat \ {0}
      BY <3>1
    <3> QED BY <2>1, <2>2, <3>1, <3>2, PlacedBefore
  <2>3. CASE at[s - 1] # Len(d) + 1
    <3>1. at[s - 1] \in 0..Len(d)
      BY <1>1, <1>2, <2>3
    <3>2. ASSUME NEW k \in 0..(s - 1) PROVE at[k] \in 0..Len(d)
      <4>1. CASE k = s - 1
        BY <3>1, <4>1
      <4>2. CASE k # s - 1
        <5>1. k < s - 1
          BY <4>2
        <5>2. at[k] < at[s - 1]
          BY <1>2, <2>1, <5>1 DEF Placed
        <5>3. at[k] \in 0..(Len(d) + 1)
          OBVIOUS
        <5> QED BY <1>1, <3>1, <5>2, <5>3
      <4> QED BY <4>1, <4>2
    <3>3. at \in [0..(s - 1) -> 0..Len(d)]
      BY <3>2
    <3>4. Placed(segments, d, at, s - 1)
      BY <1>2, <2>1, <3>3, PlacedBelow
    <3> QED BY <2>1, <2>3, <3>3, <3>4, LeadsBy
  <2> QED BY <2>2, <2>3
<1> HIDE DEF p
<1>6. Leads(segments, p, s) <=>
           \/ Leads(segments, d, s) /\ segments[s].has_wildcard
           \/ s # 1 /\ Leads(segments, d, s - 1) /\ Matches(segments[s - 1].ent_name, n)
  BY <1>3, <1>4, <1>5
<1> QED BY <1>6 DEF p

(* A pattern that fits a path leads somewhere in each directory above it.  *)
LEMMA LeadsAbove ==
  ASSUME NEW S, NEW p \in Seq(S), NEW d \in Seq(S), Above(d, p), d # p,
         NEW segments, Len(segments) \in Nat, SegmentsFit(segments, p)
  PROVE  \E s \in 1..Len(segments) : Leads(segments, d, s)
<1>1. Len(d) \in 0..(Len(p) - 1) /\ Len(p) \in Nat /\ Len(d) \in Nat
      /\ \A k \in 1..Len(d) : p[k] = d[k]
  BY AbovePrefix DEF Above
<1> DEFINE n == Len(segments)
<1>2. PICK at \in [0..n -> 0..Len(p)] : Placed(segments, p, at, n) /\ at[n] = Len(p)
  BY FitBy
<1>3. n \in Nat
  OBVIOUS
<1> HIDE DEF n
<1>4. PICK s \in 0..n : at[s] > Len(d) /\ \A k \in 0..n : at[k] > Len(d) => s <= k
  <2> DEFINE T == {k \in 0..n : at[k] > Len(d)}
  <2>1. n \in T
    BY <1>1, <1>2, <1>3
  <2>2. T \in SUBSET Nat
    OBVIOUS
  <2>3. PICK x \in T : \A y \in T : x <= y
    <3> HIDE DEF T
    <3>1. T # {}
      BY <2>1
    <3> QED BY <2>2, <3>1, Least
  <2> QED BY <2>3
<1>5. s \in 1..n /\ s - 1 \in 0..n /\ s - 1 \in Nat
  <2>1. at[0] = 0 /\ 0 \in 0..n
    BY <1>2, <1>3 DEF Placed
  <2>2. s # 0
    BY <1>1, <1>4, <2>1
  <2> QED BY <1>3, <2>2
<1> DEFINE b == [k \in 0..(s - 1) |-> at[k]]
<1>6. ASSUME NEW k \in 0..(s - 1) PROVE k \in 0..n /\ at[k] \in 0..Len(d) /\ b[k] = at[k]
  <2>1. k \in 0..n /\ k < s
    BY <1>3, <1>5
  <2>2. ~(at[k] > Len(d)) /\ at[k] \in 0..Len(p)
    BY <1>4, <1>5, <2>1
  <2> QED BY <1>1, <2>1, <2>2
<1>7. b \in [0..(s - 1) -> 0..Len(d)]
  BY <1>6
<1> HIDE DEF b
<1>8. Placed(segments, d, b, s - 1)
  <2>1. b[0] = 0
    <3>1. 0 \in 0..(s - 1)
      BY <1>5
    <3> QED BY <1>2, <1>6, <3>1 DEF Placed
  <2>2. ASSUME NEW j \in 0..(s - 1), NEW k \in 0..(s - 1), j < k PROVE b[j] < b[k]
    BY <1>2, <1>6, <2>2 DEF Placed
  <2>3. ASSUME NEW k \in 1..(s - 1)
        PROVE  /\ Matches(segments[k].ent_name, d[b[k]])
               /\ b[k] # b[k - 1] + 1 => segments[k].has_wildcard
    <3>1. k \in 0..(s - 1) /\ k - 1 \in 0..(s - 1) /\ k \in 1..n /\ 0 \in 0..(s - 1) /\ 0 < k
      BY <1>3, <1>5
    <3>2. b[k] = at[k] /\ b[k - 1] = at[k - 1] /\ at[k] \in 0..Len(d)
      BY <1>6, <3>1
    <3>3. b[k] \in 1..Len(d)
      <4>1. b[0] < b[k]
        BY <2>2, <3>1
      <4> QED BY <1>1, <2>1, <3>2, <4>1
    <3>4. p[b[k]] = d[b[k]]
      BY <1>1, <3>3
    <3>5. /\ Matches(segments[k].ent_name, p[at[k]])
          /\ at[k] # at[k - 1] + 1 => segments[k].has_wildcard
      BY <1>2, <3>1 DEF Placed
    <3> QED BY <3>2, <3>4, <3>5
  <2> QED BY <2>1, <2>2, <2>3 DEF Placed
<1>9. b[s - 1] # Len(d) => segments[s].has_wildcard
  <2>1. s - 1 \in 0..(s - 1)
    BY <1>5
  <2>2. b[s - 1] = at[s - 1] /\ at[s - 1] \in 0..Len(d)
    BY <1>6, <2>1
  <2>3. at[s] \in 0..Len(p)
    BY <1>4
  <2>4. b[s - 1] # Len(d) => at[s] # at[s - 1] + 1
    BY <1>1, <1>4, <2>2, <2>3
  <2>5. at[s] # at[s - 1] + 1 => segments[s].has_wildcard
    BY <1>2, <1>5 DEF Placed
  <2> QED BY <2>4, <2>5
<1>10. s \in Nat \ {0}
  BY <1>5
<1>11. Leads(segments, d, s)
  BY <1>7, <1>8, <1>9, <1>10, LeadsBy
<1> QED BY <1>5, <1>11 DEF n
-----------------------------------------------------------------------------
(* The parser adds segments one by one.                                    *)
Keeps(p, q) == DOMAIN q = DOMAIN p /\ ("segments" \in DOMAIN p => q.segments = p.segments)

(* Setting any other field keeps the segments.                             *)
LEMMA KeepsOneField ==
  ASSUME NEW p, NEW f, NEW v, f # "segments"
  PROVE  Keeps(p, [p EXCEPT ![f] = v])
BY DEF Keeps

(* And so do two steps that keep them.                                     *)
LEMMA KeepsTrans ==
  ASSUME NEW p, NEW q, NEW r, Keeps(p, q), Keeps(q, r)
  PROVE  Keeps(p, r)
BY DEF Keeps

(* What the steps of the parser other than EndSegment do to them: nothing. *)
LEMMA FailsKeeps == \A p, reason : Keeps(p, Fails(p, reason))
BY KeepsOneField DEF Fails

(* finish_glob_segment() keeps the segments.                               *)
LEMMA FinishGlobKeeps == \A p : Keeps(p, FinishGlob(p))
BY DEF Keeps, FinishGlob

(* The start of a glob segment keeps the segments.                         *)
LEMMA StartGlobKeeps == \A p, prefix : Keeps(p, StartGlob(p, prefix))
<1> TAKE p, prefix
<1>1. Keeps(FinishGlob(p), StartGlob(p, prefix))
  BY DEF Keeps, StartGlob
<1> QED BY <1>1, FinishGlobKeeps, KeepsTrans

(* open_capture_group() keeps the segments.                                *)
LEMMA OpenGroupKeeps == \A p, from : Keeps(p, OpenGroup(p, from))
BY DEF Keeps, OpenGroup

(* close_capture_group() keeps the segments.                               *)
LEMMA CloseGroupKeeps == \A p : Keeps(p, CloseGroup(p))
<1> TAKE p
<1>1. CASE p.open = <<>>
  BY <1>1, FailsKeeps DEF CloseGroup
<1>2. CASE p.open # <<>>
  BY <1>2 DEF CloseGroup, Keeps
<1> QED BY <1>1, <1>2

(* process_input_char() keeps the segments.                                *)
LEMMA ReadCharKeeps == \A input, p : Keeps(p, ReadChar(input, p))
<1> TAKE input, p
<1> DEFINE c == input[p.ix]
           q == [p EXCEPT !.ix = @ + 1]
           f == FinishGlob(q)
<1>1. Keeps(p, q)
  BY DEF Keeps
<1> HIDE DEF q
<1>2. Keeps(q, f)
  BY FinishGlobKeeps
<1> HIDE DEF f
<1>3. Keeps(p, f)
  BY <1>1, <1>2, KeepsTrans
<1>4. Keeps(p, Fails(p, "duplicate_wildcard")) /\ Keeps(p, Fails(p, "escape_char_at_end"))
  BY FailsKeeps
<1>5. Keeps(p, StartGlob(q, "wildcard")) /\ Keeps(p, StartGlob(q, "single_wildcard"))
  BY <1>1, StartGlobKeeps, KeepsTrans
<1>6. Keeps(p, OpenGroup(f, Here(f))) /\ Keeps(p, CloseGroup(f))
  BY <1>3, OpenGroupKeeps, CloseGroupKeeps, KeepsTrans
<1>7. /\ Keeps(q, [q EXCEPT !.ix = @ + 1, !.glob.literal = Append(@, input[q.ix])])
      /\ Keeps(q, [q EXCEPT !.glob.literal = Append(@, c)])
  BY DEF Keeps
<1>8. /\ Keeps(p, [q EXCEPT !.ix = @ + 1, !.glob.literal = Append(@, input[q.ix])])
      /\ Keeps(p, [q EXCEPT !.glob.literal = Append(@, c)])
  BY <1>1, <1>7, KeepsTrans
<1> DEFINE step == ReadChar(input, p)
<1>9. \/ step = Fails(p, "duplicate_wildcard") \/ step = Fails(p, "escape_char_at_end")
      \/ step = StartGlob(q, "wildcard") \/ step = StartGlob(q, "single_wildcard")
      \/ step = OpenGroup(f, Here(f)) \/ step = CloseGroup(f)
      \/ step = [q EXCEPT !.ix = @ + 1, !.glob.literal = Append(@, input[q.ix])]
      \/ step = [q EXCEPT !.glob.literal = Append(@, c)]
  BY Zenon DEF ReadChar, q, f
<1> HIDE DEF step
<1> QED BY <1>4, <1>5, <1>6, <1>8, <1>9 DEF step

(* The start of read_path_segment() keeps the segments.                    *)
LEMMA BeginSegmentKeeps == \A input, p : Keeps(p, BeginSegment(input, p))
<1> TAKE input, p
<1> DEFINE w == WildcardAt(input, p)
           q == [p EXCEPT !.ix = @ + w.size, !.phase = "segment", !.names = <<>>, !.wild = w.size > 0]
           step == BeginSegment(input, p)
           group == OpenGroup(q, WildcardPoint(Len(p.segments) + 1))
<1>1. Keeps(p, q)
  BY DEF Keeps
<1>2. \/ step = q \/ step = group
      \/ step = Fails(p, "not_implemented") \/ step = Fails(p, "duplicate_directory_wildcard")
  BY Zenon DEF BeginSegment
<1> HIDE DEF q, step
<1>3. Keeps(p, group)
  BY <1>1, OpenGroupKeeps, KeepsTrans
<1> QED BY <1>1, <1>2, <1>3, FailsKeeps DEF step

(* A parser's state has a sequence of segments.                            *)
HasSegments(p) == "segments" \in DOMAIN p /\ IsSequence(p.segments)

(* The end of a segment appends it.                                        *)
LEMMA EndSegmentAdds ==
  ASSUME NEW p, HasSegments(p)
  PROVE  HasSegments(EndSegment(p))
<1> DEFINE q == FinishGlob(p)
           s == [ent_name |-> q.names, has_wildcard |-> q.wild]
<1>1. HasSegments(q)
  BY FinishGlobKeeps DEF Keeps, HasSegments
<1>2. IsSequence(Append(q.segments, s))
  BY <1>1, SequenceAppend DEF HasSegments
<1> HIDE DEF q
<1>3. HasSegments([q EXCEPT !.phase = "parsed"])
  BY <1>1 DEF HasSegments
<1>4. HasSegments([q EXCEPT !.ix = @ + 1, !.phase = "between", !.segments = Append(@, s)])
  BY <1>1, <1>2 DEF HasSegments
<1> QED BY <1>3, <1>4 DEF EndSegment, q

(* Each step leaves a sequence of segments.                                *)
LEMMA ParseStepAdds ==
  ASSUME NEW input, NEW p, HasSegments(p)
  PROVE  HasSegments(ParseStep(input, p))
<1>1. HasSegments(BeginSegment(input, p)) /\ HasSegments(ReadChar(input, p))
  BY BeginSegmentKeeps, ReadCharKeeps DEF Keeps, HasSegments
<1>2. \/ ParseStep(input, p) = BeginSegment(input, p) \/ ParseStep(input, p) = ReadChar(input, p)
      \/ ParseStep(input, p) = EndSegment(p) \/ ParseStep(input, p) = p
  BY Zenon DEF ParseStep
<1> QED BY <1>1, <1>2, EndSegmentAdds

(* A is the first n steps of the parser.                                   *)
IsParsing(input, A, n) ==
  A = [k \in 0..n |-> IF k = 0 THEN Parser ELSE ParseStep(input, A[k - 1])]

(* There is a function with the equation of the parser's steps.            *)
LEMMA ParsingExists ==
  ASSUME NEW input
  PROVE  \A n \in Nat : \E A : IsParsing(input, A, n)
<1> DEFINE S == {n \in Nat : \E A : IsParsing(input, A, n)}
<1>1. 0 \in S
  <2>1. IsParsing(input, [k \in 0..0 |-> Parser], 0)
    BY DEF IsParsing
  <2> QED BY <2>1
<1>2. ASSUME NEW n \in S PROVE n + 1 \in S
  <2>1. n \in Nat
    OBVIOUS
  <2>2. PICK A : IsParsing(input, A, n)
    OBVIOUS
  <2> DEFINE B == [k \in 0..(n + 1) |-> IF k = n + 1 THEN ParseStep(input, A[n]) ELSE A[k]]
  <2>3. ASSUME NEW k \in 0..(n + 1)
        PROVE  B[k] = IF k = 0 THEN Parser ELSE ParseStep(input, B[k - 1])
    <3>1. CASE k = n + 1
      BY <2>1, <3>1
    <3>2. CASE k # n + 1
      <4>1. k \in 0..n /\ B[k] = A[k] /\ (k # 0 => B[k - 1] = A[k - 1])
        BY <2>1, <3>2
      <4>2. A[k] = IF k = 0 THEN Parser ELSE ParseStep(input, A[k - 1])
        BY <2>2, <4>1 DEF IsParsing
      <4> HIDE DEF B
      <4> QED BY <4>1, <4>2
    <3> QED BY <3>1, <3>2
  <2>4. B = [k \in 0..(n + 1) |-> B[k]]
    OBVIOUS
  <2> HIDE DEF B
  <2>5. IsParsing(input, B, n + 1)
    BY <2>3, <2>4 DEF IsParsing
  <2> QED BY <2>1, <2>5
<1> HIDE DEF S
<1>3. S = Nat
  <2>1. S \in SUBSET Nat
    BY DEF S
  <2> QED BY <1>1, <1>2, <2>1, Induction
<1> QED BY <1>3 DEF S

(* So the segments of what is parsed are a sequence.                       *)
LEMMA ParsedSegments ==
  ASSUME NEW input, Len(input) \in Nat
  PROVE  IsSequence(Parse(input).segments)
<1> DEFINE n == 3 * Len(input) + 4
           A == CHOOSE B : IsParsing(input, B, n)
<1>1. Parse(input) = A[n]
  BY Zenon DEF Parse, IsParsing
<1>2. n \in Nat
  OBVIOUS
<1>3. IsParsing(input, A, n)
  BY <1>2, ParsingExists
<1> HIDE DEF A, n
<1> DEFINE S == {k \in Nat : k \in 0..n => HasSegments(A[k])}
<1>4. 0 \in S
  <2>1. A[0] = Parser
    BY <1>2, <1>3 DEF IsParsing
  <2>2. HasSegments(Parser)
    BY DEF Parser, HasSegments, IsSequence
  <2> QED BY <2>1, <2>2
<1>5. ASSUME NEW k \in S PROVE k + 1 \in S
  <2> SUFFICES ASSUME k + 1 \in 0..n PROVE HasSegments(A[k + 1])
    OBVIOUS
  <2>1. k \in Nat /\ k + 1 # 0 /\ (k + 1) - 1 = k /\ k \in 0..n
    BY <1>2
  <2>2. HasSegments(A[k])
    BY <2>1
  <2>3. A[k + 1] = ParseStep(input, A[k])
    BY <1>3, <2>1 DEF IsParsing
  <2> QED BY <2>2, <2>3, ParseStepAdds
<1> HIDE DEF S
<1>6. S = Nat
  <2>1. S \in SUBSET Nat
    BY DEF S
  <2> QED BY <1>4, <1>5, <2>1, Induction
<1>7. HasSegments(A[n])
  <2>1. n \in S /\ n \in 0..n
    BY <1>2, <1>6
  <2> QED BY <2>1 DEF S
<1> QED BY <1>1, <1>7 DEF HasSegments
-----------------------------------------------------------------------------
(* The crawl, step by step.                                                *)
LEMMA MarksSame ==
  ASSUME UNCHANGED patterns
  PROVE  /\ \A i : Segments(i)' = Segments(i) /\ Steps(i)' = Steps(i)
         /\ \A marks, d : Complete(marks, d)' <=> Complete(marks, d)
         /\ \A marks : Ordered(marks)' <=> Ordered(marks)
<1>1. \A i : Segments(i)' = Segments(i) /\ Steps(i)' = Steps(i)
  BY DEF Segments, Steps
<1>2. \A b : IsBookmark(b)' <=> IsBookmark(b)
  BY <1>1 DEF IsBookmark
<1>3. \A marks : Ordered(marks)' <=> Ordered(marks)
  BY <1>2 DEF Ordered
<1> QED BY <1>1, <1>3 DEF Complete

(* The files to be found stay the same.                                    *)
LEMMA FirstSame ==
  ASSUME UNCHANGED <<tree, patterns>>
  PROVE  \A i, p : FirstFor(i, p)' <=> FirstFor(i, p)
<1>1. \A i, p : FitsParsed(i, p)' <=> FitsParsed(i, p)
  BY DEF FitsParsed
<1> QED BY <1>1 DEF FirstFor

(* The types that are needed most.                                         *)
LEMMA WalkTypes ==
  ASSUME WalkTyped
  PROVE  /\ tree \in Trees /\ DOMAIN tree \subseteq Seq(PathNames)
         /\ \A d \in DOMAIN pending : d \in Seq(PathNames) /\ d \in DOMAIN tree
                                      /\ tree[d] = "directory" /\ Visible(d)
         /\ Reading => /\ path_prefix \in Seq(PathNames) /\ path_prefix \in DOMAIN tree
                       /\ tree[path_prefix] = "directory" /\ Visible(path_prefix)
         /\ \A name \in unread : /\ name \in PathNames
                                 /\ Append(path_prefix, name) \in DOMAIN tree
                                 /\ Append(path_prefix, name) \in Seq(PathNames)
         /\ ent # <<>> => /\ ent \in PathNames /\ EntPath \in DOMAIN tree /\ EntPath \in Seq(PathNames)
BY TreePaths DEF WalkTyped, Directory

(* They are regular files of the tree.                                     *)
LEMMA FirstIsRegular ==
  ASSUME WalkTyped, NEW i, NEW p, FirstFor(i, p)
  PROVE  p \in DOMAIN tree /\ p \in Seq(PathNames) /\ tree[p] = "regular" /\ Visible(p)
BY WalkTypes DEF FirstFor, FitsParsed

(* Reading a directory.                                                    *)
LEMMA NextDirWalks == WalkInv /\ NextDir => WalkInv'
<1> SUFFICES ASSUME WalkInv, NextDir PROVE WalkInv'
  OBVIOUS
<1>1. PICK dir \in DOMAIN pending :
        /\ path_prefix' = dir /\ unread' = Names(dir) /\ bookmarks' = pending[dir]
        /\ pending' = [d \in DOMAIN pending \ {dir} |-> pending[d]]
  BY DEF NextDir
<1>2. /\ ent = <<>> /\ ent' = <<>> /\ unread = {}
      /\ UNCHANGED <<tree, patterns, bookmark_ix, ent_had_final_match, matches>>
  BY DEF NextDir
<1>3. DOMAIN pending' = DOMAIN pending \ {dir} /\ \A d \in DOMAIN pending' : pending'[d] = pending[d]
  BY <1>1
<1>4. WalkTyped /\ Apart /\ BookmarksInv /\ MatchesInv /\ NothingMissed
  BY DEF WalkInv
<1>5. dir \in Seq(PathNames) /\ dir \in DOMAIN tree /\ tree[dir] = "directory" /\ tree \in Trees
      /\ Directory(dir) /\ pending[dir] # <<>>
  BY <1>4, WalkTypes DEF WalkTyped
<1>6. \A d \in DOMAIN pending : d \in Seq(PathNames)
  BY <1>4, WalkTypes
<1>7. \A n \in unread' : n \in PathNames /\ Append(dir, n) \in DOMAIN tree
  BY <1>1, <1>5, NamesOf
<1>8. \A p \in Seq(PathNames) : Unread(p)' => Above(dir, p)
  <2>1. ASSUME NEW p \in Seq(PathNames), NEW n \in unread', Above(Append(dir, n), p)
        PROVE  Above(dir, p)
    BY <1>5, <1>7, <2>1, AboveAppend
  <2> QED BY <1>1, <2>1 DEF Unread
<1>9. WalkTyped'
  <2>1. \A d : Directory(d)' <=> Directory(d)
    BY <1>2 DEF Directory
  <2>2. \A i : Segments(i)' = Segments(i)
    BY <1>2, MarksSame
  <2> QED BY <1>1, <1>2, <1>3, <1>4, <1>5, <1>7, <2>1, <2>2 DEF WalkTyped
<1>10. Apart'
  <2>1. ASSUME NEW d \in DOMAIN pending' PROVE ~Above(d, dir) /\ ~Unread(d)' /\ ~AtEnt(d)'
    <3>1. d \in DOMAIN pending /\ d # dir /\ d \in Seq(PathNames)
      BY <1>3, <1>6
    <3>2. ~Above(d, dir) /\ ~Above(dir, d)
      BY <1>4, <3>1 DEF Apart
    <3> QED BY <1>2, <1>8, <3>1, <3>2 DEF AtEnt
  <2>2. \A d, e \in DOMAIN pending' : Above(d, e) => d = e
    BY <1>3, <1>4 DEF Apart
  <2> QED BY <1>1, <1>2, <2>1, <2>2 DEF Apart
<1>11. BookmarksInv'
  <2>1. \A d \in DOMAIN pending : Complete(pending[d], d)
    BY <1>2, <1>4 DEF BookmarksInv
  <2>2. \A d \in DOMAIN pending : Complete(pending[d], d)'
                                 <=> Complete(pending'[d], d)
    BY <1>2, MarksSame
  <2> QED BY <1>1, <1>2, <1>3, <2>1, MarksSame DEF BookmarksInv
<1>12. EntInv'
  BY <1>2 DEF EntInv
<1>13. MatchesInv'
  <2>1. ASSUME NEW i \in DOMAIN patterns, NEW p \in FoundIn(matches[i])
        PROVE  FirstFor(i, p)' /\ ~Unread(p)' /\ ~InPlan(p)' /\ ~AtEnt(p)'
    <3>1. FirstFor(i, p) /\ ~InPlan(p)
      BY <1>4 DEF MatchesInv
    <3>2. FirstFor(i, p)' /\ p \in Seq(PathNames)
      BY <1>2, <1>4, <3>1, FirstSame, FirstIsRegular
    <3>3. ~InPlan(p)'
      BY <1>3, <3>1 DEF InPlan
    <3>4. ~Unread(p)'
      BY <1>8, <3>1, <3>2 DEF InPlan
    <3> QED BY <1>2, <3>2, <3>3, <3>4 DEF AtEnt
  <2> QED BY <1>2, <1>4, <2>1 DEF MatchesInv
<1>14. NothingMissed'
  <2>1. ASSUME NEW i \in DOMAIN patterns, NEW p \in DOMAIN tree, FirstFor(i, p), p \notin FoundIn(matches[i])
        PROVE  Unread(p)' \/ InPlan(p)'
    <3>1. InPlan(p)
      BY <1>2, <1>4, <2>1 DEF NothingMissed, Unread, AtEnt
    <3>2. PICK d \in DOMAIN pending : Above(d, p)
      BY <3>1 DEF InPlan
    <3>3. CASE d # dir
      BY <1>3, <3>2, <3>3 DEF InPlan
    <3>4. CASE d = dir
      <4>1. p # dir
        BY <1>4, <1>5, <2>1, FirstIsRegular
      <4> DEFINE n == p[Len(dir) + 1]
      <4>2. n \in PathNames /\ Append(dir, n) \in DOMAIN tree /\ Above(Append(dir, n), p)
        BY <1>5, <3>2, <3>4, <4>1, AboveNext
      <4>3. n \in unread'
        BY <1>1, <1>5, <4>2, NamesOf
      <4> HIDE DEF n
      <4> QED BY <1>1, <4>2, <4>3 DEF Unread
    <3> QED BY <3>3, <3>4
  <2> QED BY <1>2, <2>1, FirstSame DEF NothingMissed
<1> QED BY <1>9, <1>10, <1>11, <1>12, <1>13, <1>14 DEF WalkInv

(* Reading an entry, or skipping a hidden one.                             *)
LEMMA NextEntWalks == WalkInv /\ NextEnt => WalkInv'
<1> SUFFICES ASSUME WalkInv, NextEnt PROVE WalkInv'
  OBVIOUS
<1>1. PICK name \in unread : unread' = unread \ {name} /\ ent' = IF Head(name) = Period THEN <<>> ELSE name
  BY DEF NextEnt
<1>2. /\ ent = <<>> /\ bookmark_ix' = 1 /\ ent_had_final_match' = FALSE
      /\ UNCHANGED <<tree, patterns, pending, path_prefix, bookmarks, matches>>
  BY DEF NextEnt
<1>3. WalkTyped /\ Apart /\ BookmarksInv /\ MatchesInv /\ NothingMissed /\ Reading
  BY <1>1 DEF WalkInv, Reading
<1> DEFINE q == Append(path_prefix, name)
<1>4. /\ name \in PathNames /\ q \in DOMAIN tree /\ q \in Seq(PathNames) /\ tree \in Trees
      /\ path_prefix \in Seq(PathNames) /\ Visible(path_prefix)
  BY <1>3, WalkTypes
<1>5. ent' # <<>> => ent' = name /\ EntPath' = q /\ Visible(q)
  BY <1>1, <1>2, <1>4, VisibleAppend DEF EntPath
<1>6. \A p : Unread(p)' => Unread(p)
  BY <1>1, <1>2 DEF Unread
<1>7. \A p : AtEnt(p)' => Unread(p)
  BY <1>1, <1>2, <1>5 DEF Unread, AtEnt
<1>8. \A p : InPlan(p)' <=> InPlan(p)
  BY <1>2 DEF InPlan
<1>9. WalkTyped'
  <2>1. \A d : Directory(d)' <=> Directory(d)
    BY <1>2 DEF Directory
  <2>2. \A i : Segments(i)' = Segments(i)
    BY <1>2, MarksSame
  <2>3. 1 \in DOMAIN bookmarks
    <3>1. IsSequence(bookmarks) /\ bookmarks # <<>>
      BY <1>3 DEF BookmarksInv, Complete, Ordered, WalkTyped
    <3> QED BY <3>1 DEF IsSequence
  <2>4. ent' # <<>> => ent' \in PathNames /\ EntPath' \in DOMAIN tree /\ Visible(EntPath')
    BY <1>4, <1>5
  <2>5. \A p : Visible(p)' <=> Visible(p)
    BY DEF Visible
  <2> HIDE DEF q
  <2> QED BY <1>1, <1>2, <1>3, <2>1, <2>2, <2>3, <2>4 DEF WalkTyped
<1>10. Apart'
  BY <1>1, <1>2, <1>3, <1>5, <1>6, <1>7 DEF Apart
<1>11. BookmarksInv'
  BY <1>2, <1>3, MarksSame DEF BookmarksInv
<1>12. EntInv'
  <2>1. ASSUME ent' # <<>> PROVE EntPath' \notin DOMAIN pending
    <3>1. Unread(q)
      <4>1. Above(q, q)
        <5> HIDE DEF q
        <5> QED BY <1>4, AboveSelf
      <4> QED BY <4>1 DEF Unread
    <3> QED BY <1>3, <1>5, <2>1, <3>1 DEF Apart
  <2>2. 1..(bookmark_ix' - 1) = {}
    BY <1>2
  <2> QED BY <1>2, <2>1, <2>2 DEF EntInv, Tried
<1>13. MatchesInv'
  BY <1>2, <1>3, <1>6, <1>7, <1>8, FirstSame DEF MatchesInv
<1>14. NothingMissed'
  <2>1. ASSUME NEW i \in DOMAIN patterns, NEW p \in DOMAIN tree, FirstFor(i, p), Unread(p)
        PROVE  Unread(p)' \/ AtEnt(p)'
    <3>1. PICK n \in unread : Above(Append(path_prefix, n), p)
      BY <2>1 DEF Unread
    <3>2. CASE n # name
      BY <1>1, <1>2, <3>1, <3>2 DEF Unread
    <3>3. CASE n = name
      <4>1. p \in Seq(PathNames) /\ Visible(p)
        BY <1>3, <2>1, FirstIsRegular
      <4>2. Visible(q)
        BY <1>4, <3>1, <3>3, <4>1, VisibleAbove
      <4>3. Head(name) # Period
        BY <1>4, <4>2, VisibleAppend
      <4>4. ent' = name /\ name # <<>>
        BY <1>1, <1>4, <4>3 DEF PathNames
      <4> QED BY <1>5, <3>1, <3>3, <4>4 DEF AtEnt
    <3> QED BY <3>2, <3>3
  <2>2. \A p : ~AtEnt(p)
    BY <1>2 DEF AtEnt
  <2> QED BY <1>2, <1>3, <1>8, <2>1, <2>2, FirstSame DEF NothingMissed
<1> QED BY <1>9, <1>10, <1>11, <1>12, <1>13, <1>14 DEF WalkInv
-----------------------------------------------------------------------------
(* One turn of the loop of next().                                         *)

(* What update_captures_for_ent_name_() leaves alone.                      *)
LEMMA CapturesUpdated ==
  ASSUME NEW b, IsBookmark(b), NEW name, NEW indices
  PROVE  LET u == UpdateCaptures(b, name, indices)
         IN  /\ IsBookmark(u) /\ u.pattern = b.pattern /\ u.segment = b.segment
             /\ b.segment + 1 \in Steps(b.pattern) =>
                  /\ IsBookmark([u EXCEPT !.segment = @ + 1])
                  /\ [u EXCEPT !.segment = @ + 1].pattern = b.pattern
                  /\ [u EXCEPT !.segment = @ + 1].segment = b.segment + 1
<1> DEFINE u == UpdateCaptures(b, name, indices)
<1>1. b = [pattern |-> b.pattern, segment |-> b.segment, from |-> b.from, to |-> b.to]
      /\ b.pattern \in DOMAIN patterns /\ b.segment \in Steps(b.pattern)
  BY DEF IsBookmark
<1>2. \E f, t : u = [b EXCEPT !.from = f, !.to = t]
  BY Zenon DEF UpdateCaptures
<1> HIDE DEF u
<1>3. PICK f, t : u = [b EXCEPT !.from = f, !.to = t]
  BY <1>2
<1>4. u = [pattern |-> b.pattern, segment |-> b.segment, from |-> f, to |-> t]
  BY <1>1, <1>3
<1>5. [u EXCEPT !.segment = @ + 1] = [pattern |-> b.pattern, segment |-> b.segment + 1, from |-> f, to |-> t]
  BY <1>4
<1>6. IsBookmark(u) /\ u.pattern = b.pattern /\ u.segment = b.segment
  BY <1>1, <1>4 DEF IsBookmark
<1>7. ASSUME b.segment + 1 \in Steps(b.pattern)
      PROVE  /\ IsBookmark([u EXCEPT !.segment = @ + 1])
             /\ [u EXCEPT !.segment = @ + 1].pattern = b.pattern
             /\ [u EXCEPT !.segment = @ + 1].segment = b.segment + 1
  BY <1>1, <1>5, <1>7 DEF IsBookmark
<1> QED BY <1>6, <1>7 DEF u

(* The bookmarks that are pushed for a directory.                          *)
NewMarks(b) ==
  LET segment == patterns[b.pattern].segments[b.segment]
      found   == Matches(segment.ent_name, ent)
      updated == UpdateCaptures(b, ent, FirstSplit(segment.ent_name, ent))
      wild    == IF segment.has_wildcard THEN <<b>> ELSE <<>>
      named   == IF found /\ ~(b.segment = Len(patterns[b.pattern].segments))
                 THEN <<[updated EXCEPT !.segment = @ + 1]>> ELSE <<>>
  IN  wild \o named

(* They are where the bookmark leads.                                      *)
LEMMA NewMarksAre ==
  ASSUME WalkTyped, NEW b, IsBookmark(b)
  PROVE  /\ Ordered(NewMarks(b)) /\ \A k \in DOMAIN NewMarks(b) : NewMarks(b)[k].pattern = b.pattern
         /\ \A i \in DOMAIN patterns : \A s \in Steps(i) : Marked(NewMarks(b), i, s) <=> Gives(b, i, s)
<1> DEFINE segment == Segments(b.pattern)[b.segment]
           u       == UpdateCaptures(b, ent, FirstSplit(segment.ent_name, ent))
           next    == [u EXCEPT !.segment = @ + 1]
           more    == b.segment + 1 \in Steps(b.pattern)
           wild    == IF segment.has_wildcard THEN <<b>> ELSE <<>>
           named   == IF FoundBy(b) /\ more THEN <<next>> ELSE <<>>
<1>1. b.pattern \in DOMAIN patterns /\ b.segment \in Steps(b.pattern) /\ b.segment \in Nat
      /\ Len(Segments(b.pattern)) \in Nat
  BY DEF IsBookmark, Steps, WalkTyped, IsSequence
<1>2. more <=> b.segment # Len(Segments(b.pattern))
  BY <1>1 DEF Steps
<1>3. NewMarks(b) = wild \o named
  BY <1>2 DEF NewMarks, Segments, FoundBy
<1>4. more => IsBookmark(next) /\ next.pattern = b.pattern /\ next.segment = b.segment + 1
  BY CapturesUpdated
<1> HIDE DEF next, more, segment, u
<1> DEFINE M == NewMarks(b)
<1>5. /\ segment.has_wildcard /\ FoundBy(b) /\ more => M = <<b, next>>
      /\ segment.has_wildcard /\ ~(FoundBy(b) /\ more) => M = <<b>>
      /\ ~segment.has_wildcard /\ FoundBy(b) /\ more => M = <<next>>
      /\ ~segment.has_wildcard /\ ~(FoundBy(b) /\ more) => M = <<>>
  <2>1. /\ segment.has_wildcard => wild = <<b>>
        /\ ~segment.has_wildcard => wild = <<>>
        /\ FoundBy(b) /\ more => named = <<next>>
        /\ ~(FoundBy(b) /\ more) => named = <<>>
    OBVIOUS
  <2>2. M = wild \o named
    BY <1>3
  <2>3. \A x, y : /\ <<x>> \o <<y>> = <<x, y>> /\ <<x>> \o <<>> = <<x>>
                  /\ <<>> \o <<y>> = <<y>> /\ <<>> \o <<>> = <<>>
    <3>1. ASSUME NEW x, NEW y PROVE <<x>> \o <<y>> = <<x, y>>
      <4> DEFINE z == <<x>> \o <<y>>
      <4>1. <<x>> \in Seq({x, y}) /\ <<y>> \in Seq({x, y}) /\ Len(<<x>>) = 1 /\ Len(<<y>>) = 1
        OBVIOUS
      <4>2. z \in Seq({x, y}) /\ Len(z) = 2 /\ z[1] = x /\ z[2] = y
        BY <4>1
      <4> HIDE DEF z
      <4>3. z = <<x, y>>
        BY <4>2
      <4> QED BY <4>3 DEF z
    <3>2. ASSUME NEW S, NEW s \in Seq(S) PROVE s \o <<>> = s /\ <<>> \o s = s
      OBVIOUS
    <3>3. \A x : <<x>> \in Seq({x})
      OBVIOUS
    <3>4. <<>> \in Seq({})
      OBVIOUS
    <3> QED BY <3>1, <3>2, <3>3, <3>4
  <2> HIDE DEF M, wild, named
  <2> QED BY <2>1, <2>2, <2>3
<1> HIDE DEF M
<1>6. Ordered(M) /\ \A k \in DOMAIN M : M[k].pattern = b.pattern
  <2>1. ASSUME NEW x, NEW y, M = <<x, y>>, IsBookmark(x), IsBookmark(y), x.pattern = b.pattern, y.pattern = b.pattern
        PROVE  Ordered(M) /\ \A k \in DOMAIN M : M[k].pattern = b.pattern
    <3>1. DOMAIN M = {1, 2} /\ M[1] = x /\ M[2] = y /\ IsSequence(M)
      BY <2>1 DEF IsSequence, ToSet
    <3>2. b.pattern <= b.pattern
      BY <1>1 DEF WalkTyped
    <3> QED BY <2>1, <3>1, <3>2 DEF Ordered
  <2>2. ASSUME NEW x, M = <<x>>, IsBookmark(x), x.pattern = b.pattern
        PROVE  Ordered(M) /\ \A k \in DOMAIN M : M[k].pattern = b.pattern
    <3>1. DOMAIN M = {1} /\ M[1] = x /\ IsSequence(M)
      BY <2>2 DEF IsSequence, ToSet
    <3>2. b.pattern <= b.pattern
      BY <1>1 DEF WalkTyped
    <3> QED BY <2>2, <3>1, <3>2 DEF Ordered
  <2>3. ASSUME M = <<>> PROVE Ordered(M) /\ \A k \in DOMAIN M : M[k].pattern = b.pattern
    BY <2>3 DEF Ordered, IsSequence, ToSet
  <2> QED BY <1>4, <1>5, <2>1, <2>2, <2>3
<1>7. ASSUME NEW i \in DOMAIN patterns, NEW s \in Steps(i)
      PROVE  Marked(M, i, s) <=> Gives(b, i, s)
  <2>1. Gives(b, i, s) <=> \/ b.pattern = i /\ s = b.segment /\ segment.has_wildcard
                           \/ b.pattern = i /\ s = b.segment + 1 /\ FoundBy(b) /\ more
    BY DEF Gives, segment, more
  <2>2. CASE segment.has_wildcard /\ FoundBy(b) /\ more
    <3>1. M = <<b, next>>
      BY <1>5, <2>2
    <3>2. DOMAIN M = {1, 2} /\ M[1] = b /\ M[2] = next
      BY <3>1
    <3>3. Marked(M, i, s) <=> \/ b.pattern = i /\ b.segment = s
                              \/ next.pattern = i /\ next.segment = s
      BY <3>2 DEF Marked
    <3> QED BY <1>4, <2>1, <2>2, <3>3
  <2>3. CASE segment.has_wildcard /\ ~(FoundBy(b) /\ more)
    <3>1. M = <<b>>
      BY <1>5, <2>3
    <3>2. DOMAIN M = {1} /\ M[1] = b
      BY <3>1
    <3>3. Marked(M, i, s) <=> b.pattern = i /\ b.segment = s
      BY <3>2 DEF Marked
    <3> QED BY <2>1, <2>3, <3>3
  <2>4. CASE ~segment.has_wildcard /\ FoundBy(b) /\ more
    <3>1. M = <<next>>
      BY <1>5, <2>4
    <3>2. DOMAIN M = {1} /\ M[1] = next
      BY <3>1
    <3>3. Marked(M, i, s) <=> next.pattern = i /\ next.segment = s
      BY <3>2 DEF Marked
    <3> QED BY <1>4, <2>1, <2>4, <3>3
  <2>5. CASE ~segment.has_wildcard /\ ~(FoundBy(b) /\ more)
    <3>1. M = <<>>
      BY <1>5, <2>5
    <3>2. ~Marked(M, i, s)
      BY <3>1 DEF Marked
    <3> QED BY <2>1, <2>5, <3>2
  <2> QED BY <2>2, <2>3, <2>4, <2>5
<1> QED BY <1>6, <1>7 DEF M

(* push_back().                                                            *)
LEMMA Pushed ==
  ASSUME NEW dir, NEW new, \A d \in DOMAIN pending : IsSequence(pending[d]), IsSequence(new)
  PROVE  /\ DOMAIN Push(dir, new) = IF new = <<>> THEN DOMAIN pending ELSE DOMAIN pending \cup {dir}
         /\ \A d \in DOMAIN pending : d # dir => Push(dir, new)[d] = pending[d]
         /\ dir \in DOMAIN Push(dir, new) =>
              Push(dir, new)[dir] = (IF dir \in DOMAIN pending THEN pending[dir] ELSE <<>>) \o new
<1>1. CASE new = <<>>
  <2>1. Push(dir, new) = pending
    BY <1>1 DEF Push
  <2>2. ASSUME dir \in DOMAIN pending PROVE pending[dir] \o <<>> = pending[dir]
    <3>1. IsSequence(pending[dir])
      BY <2>2
    <3> QED BY <3>1 DEF IsSequence
  <2> QED BY <1>1, <2>1, <2>2
<1>2. CASE new # <<>>
  <2>1. Push(dir, new) = [d \in DOMAIN pending \cup {dir} |->
          (IF d \in DOMAIN pending THEN pending[d] ELSE <<>>) \o (IF d = dir THEN new ELSE <<>>)]
    BY <1>2 DEF Push
  <2>2. ASSUME NEW d \in DOMAIN pending, d # dir PROVE Push(dir, new)[d] = pending[d]
    <3>1. IsSequence(pending[d]) /\ Push(dir, new)[d] = pending[d] \o <<>>
      BY <2>1, <2>2
    <3> QED BY <3>1 DEF IsSequence
  <2> QED BY <1>2, <2>1, <2>2
<1> QED BY <1>1, <1>2

(* Bookmarks put behind others that are of no later pattern.               *)
LEMMA OrderedConcat ==
  ASSUME NEW s, NEW t, Ordered(s), Ordered(t), DOMAIN patterns \subseteq Nat,
         \A j \in DOMAIN s : \A k \in DOMAIN t : s[j].pattern <= t[k].pattern
  PROVE  /\ Ordered(s \o t)
         /\ \A i, n : Marked(s \o t, i, n) <=> Marked(s, i, n) \/ Marked(t, i, n)
         /\ t # <<>> => s \o t # <<>>
<1> DEFINE U == ToSet(s) \cup ToSet(t)
<1>1. s \in Seq(U) /\ t \in Seq(U)
  BY SequenceIn DEF Ordered
<1> HIDE DEF U
<1>2. /\ s \o t \in Seq(U) /\ IsSequence(s \o t) /\ Len(s) \in Nat /\ Len(t) \in Nat
      /\ DOMAIN s = 1..Len(s) /\ DOMAIN t = 1..Len(t) /\ DOMAIN (s \o t) = 1..(Len(s) + Len(t))
  <2>1. s \o t \in Seq(U) /\ Len(s \o t) = Len(s) + Len(t)
    BY <1>1
  <2>2. IsSequence(s \o t) /\ DOMAIN (s \o t) = 1..Len(s \o t)
    BY <2>1, SequenceOf
  <2>3. Len(s) \in Nat /\ Len(t) \in Nat /\ DOMAIN s = 1..Len(s) /\ DOMAIN t = 1..Len(t)
    BY <1>1, SequenceOf
  <2> QED BY <2>1, <2>2, <2>3
<1>3. /\ \A k \in 1..Len(s) : (s \o t)[k] = s[k]
      /\ \A k \in 1..Len(t) : (s \o t)[Len(s) + k] = t[k]
  BY <1>1
<1>4. ASSUME NEW k \in DOMAIN (s \o t)
      PROVE  \/ k \in DOMAIN s /\ (s \o t)[k] = s[k]
             \/ k \notin DOMAIN s /\ k - Len(s) \in DOMAIN t /\ (s \o t)[k] = t[k - Len(s)]
  <2>1. CASE k \in 1..Len(s)
    BY <1>2, <1>3, <2>1
  <2>2. CASE k \notin 1..Len(s)
    <3>1. k - Len(s) \in 1..Len(t) /\ Len(s) + (k - Len(s)) = k
      BY <1>2, <2>2
    <3> QED BY <1>2, <1>3, <2>2, <3>1
  <2> QED BY <2>1, <2>2
<1>5. \A k \in DOMAIN (s \o t) : IsBookmark((s \o t)[k])
  BY <1>4 DEF Ordered
<1>6. ASSUME NEW j \in DOMAIN (s \o t), NEW k \in DOMAIN (s \o t), j <= k
      PROVE  (s \o t)[j].pattern <= (s \o t)[k].pattern
  <2>1. CASE k \in DOMAIN s
    <3>1. j \in DOMAIN s
      BY <1>2, <1>6, <2>1
    <3> QED BY <1>4, <1>6, <2>1, <3>1 DEF Ordered
  <2>2. CASE k \notin DOMAIN s /\ j \in DOMAIN s
    BY <1>4, <2>2
  <2>3. CASE k \notin DOMAIN s /\ j \notin DOMAIN s
    <3>1. j - Len(s) <= k - Len(s)
      BY <1>2, <1>6
    <3> QED BY <1>4, <2>3, <3>1 DEF Ordered
  <2> QED BY <2>1, <2>2, <2>3
<1>7. ASSUME NEW i, NEW n
      PROVE  Marked(s \o t, i, n) <=> Marked(s, i, n) \/ Marked(t, i, n)
  <2>1. Marked(s \o t, i, n) => Marked(s, i, n) \/ Marked(t, i, n)
    BY <1>4 DEF Marked
  <2>2. Marked(s, i, n) => Marked(s \o t, i, n)
    <3>1. \A k \in DOMAIN s : k \in DOMAIN (s \o t)
      BY <1>2
    <3> QED BY <1>2, <1>3, <3>1 DEF Marked
  <2>3. Marked(t, i, n) => Marked(s \o t, i, n)
    <3>1. \A k \in DOMAIN t : Len(s) + k \in DOMAIN (s \o t)
      BY <1>2
    <3> QED BY <1>2, <1>3, <3>1 DEF Marked
  <2> QED BY <2>1, <2>2, <2>3
<1>8. t # <<>> => s \o t # <<>>
  <2>1. t # <<>> => Len(t) # 0
    BY <1>1
  <2>2. Len(s \o t) = Len(s) + Len(t)
    BY <1>1
  <2>3. Len(<<>>) = 0
    OBVIOUS
  <2> QED BY <1>2, <2>1, <2>2, <2>3
<1> QED BY <1>2, <1>5, <1>6, <1>7, <1>8 DEF Ordered
-----------------------------------------------------------------------------
(* What is known of the entry that is tried.                               *)
LEMMA EntTypes ==
  ASSUME WalkTyped, BookmarksInv, ent # <<>>
  PROVE  /\ tree \in Trees /\ path_prefix \in Seq(PathNames) /\ ent \in PathNames
         /\ EntPath \in Seq(PathNames) /\ EntPath \in DOMAIN tree /\ Visible(EntPath)
         /\ EntPath = Append(path_prefix, ent)
         /\ Complete(bookmarks, path_prefix) /\ Ordered(bookmarks)
         /\ bookmark_ix \in DOMAIN bookmarks /\ bookmark_ix \in Nat \ {0}
         /\ DOMAIN bookmarks = 1..Len(bookmarks) /\ Len(bookmarks) \in Nat
         /\ \A k \in DOMAIN bookmarks : IsBookmark(bookmarks[k])
<1>1. Reading
  BY DEF Reading
<1>2. Complete(bookmarks, path_prefix) /\ Ordered(bookmarks)
  BY <1>1 DEF BookmarksInv, Complete
<1>3. IsSequence(bookmarks) /\ \A k \in DOMAIN bookmarks : IsBookmark(bookmarks[k])
  BY <1>2 DEF Ordered
<1>4. DOMAIN bookmarks = 1..Len(bookmarks) /\ Len(bookmarks) \in Nat
  BY <1>3, SequenceOf DEF IsSequence
<1>5. bookmark_ix \in DOMAIN bookmarks /\ Visible(EntPath)
  BY DEF WalkTyped
<1>6. bookmark_ix \in Nat \ {0}
  BY <1>4, <1>5
<1> QED BY <1>1, <1>2, <1>3, <1>4, <1>5, <1>6, WalkTypes DEF EntPath

(* The segments of a pattern are numbered from 1.                          *)
LEMMA StepsOf ==
  ASSUME WalkTyped, NEW i \in DOMAIN patterns
  PROVE  /\ i \in Nat \ {0} /\ Len(Segments(i)) \in Nat \ {0}
         /\ \A s \in Steps(i) : s \in Nat \ {0}
         /\ Len(Segments(i)) \in Steps(i)
<1>1. IsSequence(Segments(i)) /\ Segments(i) # <<>>
  BY DEF WalkTyped
<1>2. Len(Segments(i)) \in Nat
  BY <1>1, SequenceOf DEF IsSequence
<1>3. Len(Segments(i)) # 0
  BY <1>1 DEF IsSequence
<1>4. i \in Nat \ {0}
  BY DEF WalkTyped
<1> QED BY <1>2, <1>3, <1>4 DEF Steps

(* The bookmarks of a directory give those of a directory in it.           *)
LEMMA GivesLeads ==
  ASSUME WalkTyped, BookmarksInv, ent # <<>>, NEW i \in DOMAIN patterns, NEW s \in Steps(i)
  PROVE  (\E k \in DOMAIN bookmarks : Gives(bookmarks[k], i, s)) <=> Leads(Segments(i), EntPath, s)
<1>1. /\ path_prefix \in Seq(PathNames) /\ ent \in PathNames /\ EntPath = Append(path_prefix, ent)
      /\ Complete(bookmarks, path_prefix)
  BY EntTypes
<1>2. s \in Nat \ {0}
  BY StepsOf
<1>3. Leads(Segments(i), EntPath, s) <=>
        \/ Leads(Segments(i), path_prefix, s) /\ Segments(i)[s].has_wildcard
        \/ s # 1 /\ Leads(Segments(i), path_prefix, s - 1) /\ Matches(Segments(i)[s - 1].ent_name, ent)
  BY <1>1, <1>2, LeadsOn
<1>4. \A n \in Steps(i) : Marked(bookmarks, i, n) <=> Leads(Segments(i), path_prefix, n)
  BY <1>1 DEF Complete
<1>5. s # 1 => s - 1 \in Steps(i)
  BY <1>2, StepsOf DEF Steps
<1>6. \A b : IsBookmark(b) => (Gives(b, i, s) <=>
               \/ b.pattern = i /\ b.segment = s /\ Segments(i)[s].has_wildcard
               \/ s # 1 /\ b.pattern = i /\ b.segment = s - 1 /\ Matches(Segments(i)[s - 1].ent_name, ent))
  <2> SUFFICES ASSUME NEW b, IsBookmark(b)
               PROVE  Gives(b, i, s) <=>
                        \/ b.pattern = i /\ b.segment = s /\ Segments(i)[s].has_wildcard
                        \/ s # 1 /\ b.pattern = i /\ b.segment = s - 1 /\ Matches(Segments(i)[s - 1].ent_name, ent)
    OBVIOUS
  <2>1. b.pattern = i => b.segment \in Nat \ {0}
    BY StepsOf DEF IsBookmark
  <2>2. b.pattern = i => (s = b.segment + 1 <=> s # 1 /\ b.segment = s - 1)
    BY <1>2, <2>1
  <2> QED BY <2>2 DEF Gives, FoundBy
<1>7. \A k \in DOMAIN bookmarks : IsBookmark(bookmarks[k])
  BY EntTypes
<1> QED BY <1>3, <1>4, <1>5, <1>6, <1>7 DEF Marked

(* A file is found by a bookmark of its directory for the pattern it fits. *)
LEMMA FindsFits ==
  ASSUME WalkTyped, BookmarksInv, ent # <<>>, NEW i \in DOMAIN patterns
  PROVE  (\E k \in DOMAIN bookmarks : bookmarks[k].pattern = i /\ Finds(bookmarks[k]))
           <=> tree[EntPath] = "regular" /\ FitsParsed(i, EntPath)
<1>1. /\ path_prefix \in Seq(PathNames) /\ ent \in PathNames /\ EntPath = Append(path_prefix, ent)
      /\ Complete(bookmarks, path_prefix) /\ Visible(EntPath)
  BY EntTypes
<1> DEFINE n == Len(Segments(i))
<1>2. n \in Nat \ {0} /\ n \in Steps(i)
  BY StepsOf
<1>3. SegmentsFit(Segments(i), EntPath) <=>
        Leads(Segments(i), path_prefix, n) /\ Matches(Segments(i)[n].ent_name, ent)
  BY <1>1, <1>2, FitsEntry
<1>4. Leads(Segments(i), path_prefix, n) <=> Marked(bookmarks, i, n)
  BY <1>1, <1>2 DEF Complete
<1>5. FitsParsed(i, EntPath) <=> SegmentsFit(Segments(i), EntPath)
  BY <1>1 DEF FitsParsed, Segments
<1> QED BY <1>3, <1>4, <1>5 DEF Marked, Finds, FoundBy

(* What the turn does.                                                     *)
LEMMA TryActs ==
  ASSUME WalkTyped, BookmarksInv, TryBookmark
  PROVE  LET b == bookmarks[bookmark_ix]
         IN  /\ ent # <<>>
             /\ pending' = IF tree[EntPath] = "directory" THEN Push(EntPath, NewMarks(b)) ELSE pending
             /\ ent_had_final_match' = (ent_had_final_match \/ Finds(b))
             /\ Finds(b) /\ ~ent_had_final_match =>
                  \E m : /\ m.value = EntPath
                         /\ matches' = [matches EXCEPT ![b.pattern] = Append(@, m)]
             /\ ~Finds(b) \/ ent_had_final_match => matches' = matches
             /\ \/ bookmark_ix < Len(bookmarks) /\ bookmark_ix' = bookmark_ix + 1 /\ ent' = ent
                \/ ~(bookmark_ix < Len(bookmarks)) /\ bookmark_ix' = 1 /\ ent' = <<>>
             /\ UNCHANGED <<tree, patterns, path_prefix, unread, bookmarks>>
<1> DEFINE b == bookmarks[bookmark_ix]
           segment == patterns[b.pattern].segments[b.segment]
           is_last == b.segment = Len(patterns[b.pattern].segments)
           path    == Append(path_prefix, ent)
           found   == Matches(segment.ent_name, ent)
           updated == UpdateCaptures(b, ent, FirstSplit(segment.ent_name, ent))
           final   == found /\ is_last /\ tree[path] = "regular" /\ ~ent_had_final_match
           m       == [value |-> path, groups |-> [g \in DOMAIN b.from |->
                              <<updated.from[g] - 1, updated.to[g] - 1>>]]
<1>1. final <=> Finds(b) /\ ~ent_had_final_match
  BY DEF Finds, FoundBy, Segments, EntPath
<1>2. /\ ent # <<>>
      /\ ent_had_final_match' = (ent_had_final_match \/ final)
      /\ matches' = IF ~final THEN matches ELSE [matches EXCEPT ![b.pattern] = Append(@, m)]
      /\ UNCHANGED <<tree, patterns, path_prefix, unread, bookmarks>>
  BY Zenon DEF TryBookmark
<1>3. pending' = IF tree[EntPath] = "directory" THEN Push(EntPath, NewMarks(b)) ELSE pending
  BY Zenon DEF TryBookmark, NewMarks, EntPath
<1>4. \/ bookmark_ix < Len(bookmarks) /\ bookmark_ix' = bookmark_ix + 1 /\ ent' = ent
      \/ ~(bookmark_ix < Len(bookmarks)) /\ bookmark_ix' = 1 /\ ent' = <<>>
  BY Zenon DEF TryBookmark
<1>5. m.value = EntPath
  BY DEF EntPath
<1> HIDE DEF final, m
<1>6. Finds(b) /\ ~ent_had_final_match =>
        \E x : x.value = EntPath /\ matches' = [matches EXCEPT ![b.pattern] = Append(@, x)]
  BY <1>1, <1>2, <1>5
<1>7. ~Finds(b) \/ ent_had_final_match => matches' = matches
  BY <1>1, <1>2
<1>8. ent_had_final_match' = (ent_had_final_match \/ Finds(b))
  BY <1>1, <1>2
<1> QED BY <1>2, <1>3, <1>4, <1>6, <1>7, <1>8
(* The plan after the turn.                                                *)
LEMMA TryPending ==
  ASSUME WalkTyped, Apart, BookmarksInv, EntInv, TryBookmark
  PROVE  /\ \A d \in DOMAIN pending : d # EntPath => d \in DOMAIN pending' /\ pending'[d] = pending[d]
         /\ DOMAIN pending \subseteq DOMAIN pending'
         /\ DOMAIN pending' \subseteq DOMAIN pending \cup {EntPath}
         /\ EntPath \in DOMAIN pending' => tree[EntPath] = "directory" /\ pending'[EntPath] # <<>>
         /\ Tried(pending', bookmark_ix)
<1> DEFINE b   == bookmarks[bookmark_ix]
           old == IF EntPath \in DOMAIN pending THEN pending[EntPath] ELSE <<>>
           new == NewMarks(b)
           n   == bookmark_ix - 1
<1>1. ent # <<>> /\ pending' = IF tree[EntPath] = "directory" THEN Push(EntPath, new) ELSE pending
  BY TryActs
<1>2. /\ bookmark_ix \in DOMAIN bookmarks /\ bookmark_ix \in Nat \ {0} /\ Ordered(bookmarks)
      /\ DOMAIN bookmarks = 1..Len(bookmarks) /\ Len(bookmarks) \in Nat /\ IsBookmark(b)
  BY <1>1, EntTypes
<1>3. Tried(pending, n)
  BY <1>1 DEF EntInv
<1>4. /\ Ordered(new) /\ \A k \in DOMAIN new : new[k].pattern = b.pattern
      /\ \A i \in DOMAIN patterns : \A s \in Steps(i) : Marked(new, i, s) <=> Gives(b, i, s)
  BY <1>2, NewMarksAre
<1>5. 1..bookmark_ix = 1..n \cup {bookmark_ix} /\ 1..n \subseteq DOMAIN bookmarks
      /\ \A k \in 1..n : k <= bookmark_ix
  BY <1>2
<1>6. \A d \in DOMAIN pending : IsSequence(pending[d])
  <2>1. \A d \in DOMAIN pending : Ordered(pending[d])
    BY <1>1, <1>3 DEF BookmarksInv, Complete, Tried
  <2> QED BY <2>1 DEF Ordered
<1>7. DOMAIN patterns \subseteq Nat
  BY StepsOf
<1> HIDE DEF new, n, b
<1>8. CASE tree[EntPath] # "directory"
  <2>1. pending' = pending
    BY <1>1, <1>8
  <2>2. EntPath \notin DOMAIN pending
    BY <1>3, <1>8 DEF Tried
  <2> QED BY <1>8, <2>1, <2>2 DEF Tried
<1>9. CASE tree[EntPath] = "directory"
  <2>1. pending' = Push(EntPath, new) /\ IsSequence(new)
    BY <1>1, <1>4, <1>9 DEF Ordered
  <2>2. /\ DOMAIN pending' = IF new = <<>> THEN DOMAIN pending ELSE DOMAIN pending \cup {EntPath}
        /\ \A d \in DOMAIN pending : d # EntPath => pending'[d] = pending[d]
        /\ EntPath \in DOMAIN pending' => pending'[EntPath] = old \o new
    <3>1. /\ DOMAIN Push(EntPath, new) = IF new = <<>> THEN DOMAIN pending ELSE DOMAIN pending \cup {EntPath}
          /\ \A d \in DOMAIN pending : d # EntPath => Push(EntPath, new)[d] = pending[d]
          /\ EntPath \in DOMAIN Push(EntPath, new) => Push(EntPath, new)[EntPath] = old \o new
      BY <1>6, <2>1, Pushed, Zenon
    <3> HIDE DEF old
    <3> QED BY <2>1, <3>1
  <2>3. Ordered(<<>>) /\ \A i, s : ~Marked(<<>>, i, s)
    BY DEF Ordered, Marked, IsSequence, ToSet
  <2>4. Ordered(old)
    BY <1>3, <2>3 DEF Tried
  <2>5. ASSUME NEW i \in DOMAIN patterns, NEW s \in Steps(i)
        PROVE  Marked(old, i, s) <=> \E k \in 1..n : Gives(bookmarks[k], i, s)
    <3>1. CASE EntPath \in DOMAIN pending
      BY <1>3, <1>9, <3>1 DEF Tried
    <3>2. CASE EntPath \notin DOMAIN pending
      BY <1>3, <1>9, <2>3, <3>2 DEF Tried
    <3> QED BY <3>1, <3>2
  <2>6. ASSUME NEW j \in DOMAIN old, NEW k \in DOMAIN new PROVE old[j].pattern <= new[k].pattern
    <3> DEFINE i == old[j].pattern
               s == old[j].segment
    <3>1. i \in DOMAIN patterns /\ s \in Steps(i)
      BY <2>4 DEF Ordered, IsBookmark
    <3>2. Marked(old, i, s)
      BY DEF Marked
    <3>3. PICK l \in 1..n : Gives(bookmarks[l], i, s)
      BY <2>5, <3>1, <3>2
    <3>4. bookmarks[l].pattern = i
      BY <3>3 DEF Gives
    <3>5. bookmarks[l].pattern <= b.pattern
      BY <1>2, <1>5, <3>3 DEF Ordered, b
    <3> HIDE DEF old
    <3> QED BY <1>4, <3>4, <3>5
  <2> HIDE DEF old
  <2>7. /\ Ordered(old \o new)
        /\ \A i, s : Marked(old \o new, i, s) <=> Marked(old, i, s) \/ Marked(new, i, s)
        /\ new # <<>> => old \o new # <<>>
    BY <1>4, <1>7, <2>4, <2>6, OrderedConcat
  <2>8. ASSUME NEW i \in DOMAIN patterns, NEW s \in Steps(i)
        PROVE  Marked(old \o new, i, s) <=> \E k \in 1..bookmark_ix : Gives(bookmarks[k], i, s)
    BY <1>4, <1>5, <2>5, <2>7, <2>8 DEF b
  <2>9. EntPath \in DOMAIN pending' => Ordered(pending'[EntPath])
    BY <2>2, <2>7
  <2>10. ASSUME NEW i \in DOMAIN patterns, NEW s \in Steps(i), EntPath \in DOMAIN pending'
         PROVE  Marked(pending'[EntPath], i, s) <=> \E k \in 1..bookmark_ix : Gives(bookmarks[k], i, s)
    BY <2>2, <2>8, <2>10
  <2>11. ASSUME NEW i \in DOMAIN patterns, NEW s \in Steps(i), NEW k \in 1..bookmark_ix, Gives(bookmarks[k], i, s)
         PROVE  EntPath \in DOMAIN pending'
    <3>1. CASE k \in 1..n
      BY <1>3, <1>9, <2>2, <2>11, <3>1 DEF Tried
    <3>2. CASE k = bookmark_ix
      <4>1. Marked(new, i, s)
        BY <1>4, <2>11, <3>2 DEF b
      <4>2. new # <<>>
        BY <2>3, <4>1
      <4> QED BY <2>2, <4>2
    <3> QED BY <1>5, <3>1, <3>2
  <2>12. Tried(pending', bookmark_ix)
    BY <1>9, <2>9, <2>10, <2>11 DEF Tried
  <2>13. EntPath \in DOMAIN pending' => pending'[EntPath] # <<>>
    <3>1. CASE new # <<>>
      BY <2>2, <2>7, <3>1
    <3>2. CASE new = <<>>
      <4>1. pending' = pending
        BY <2>1, <3>2 DEF Push
      <4> QED BY <4>1 DEF WalkTyped
    <3> QED BY <3>1, <3>2
  <2> QED BY <1>9, <2>2, <2>12, <2>13
<1> QED BY <1>8, <1>9

(* Once all bookmarks are tried, those of the entry are known.             *)
LEMMA TriedAll ==
  ASSUME WalkTyped, BookmarksInv, ent # <<>>, NEW plan, Tried(plan, Len(bookmarks))
  PROVE  /\ EntPath \in DOMAIN plan => Complete(plan[EntPath], EntPath)
         /\ \A i \in DOMAIN patterns : \A s \in Steps(i) :
              tree[EntPath] = "directory" /\ Leads(Segments(i), EntPath, s) => EntPath \in DOMAIN plan
<1>1. DOMAIN bookmarks = 1..Len(bookmarks)
  BY EntTypes
<1>2. \A i \in DOMAIN patterns : \A s \in Steps(i) :
        (\E k \in 1..Len(bookmarks) : Gives(bookmarks[k], i, s)) <=> Leads(Segments(i), EntPath, s)
  BY <1>1, GivesLeads
<1> QED BY <1>2 DEF Tried, Complete
(* Whether the entry was matched, and for which pattern.                   *)
LEMMA TryFinds ==
  ASSUME WalkTyped, BookmarksInv, EntInv, TryBookmark
  PROVE  LET b == bookmarks[bookmark_ix]
         IN  /\ ent_had_final_match' <=> \E k \in 1..bookmark_ix : Finds(bookmarks[k])
             /\ b.pattern \in DOMAIN patterns
             /\ Finds(b) /\ ~ent_had_final_match => FirstFor(b.pattern, EntPath)
<1> DEFINE b == bookmarks[bookmark_ix]
<1>1. ent # <<>> /\ ent_had_final_match' = (ent_had_final_match \/ Finds(b))
  BY TryActs
<1>2. /\ bookmark_ix \in DOMAIN bookmarks /\ bookmark_ix \in Nat \ {0} /\ Ordered(bookmarks)
      /\ DOMAIN bookmarks = 1..Len(bookmarks) /\ Len(bookmarks) \in Nat /\ IsBookmark(b)
      /\ EntPath \in DOMAIN tree
  BY <1>1, EntTypes
<1>3. ent_had_final_match <=> \E k \in 1..(bookmark_ix - 1) : Finds(bookmarks[k])
  BY <1>1 DEF EntInv
<1>4. 1..bookmark_ix = 1..(bookmark_ix - 1) \cup {bookmark_ix}
  BY <1>2
<1>5. b.pattern \in DOMAIN patterns
  BY <1>2 DEF IsBookmark
<1>6. ASSUME Finds(b), ~ent_had_final_match PROVE FirstFor(b.pattern, EntPath)
  <2>1. tree[EntPath] = "regular" /\ FitsParsed(b.pattern, EntPath)
    BY <1>1, <1>2, <1>5, <1>6, FindsFits
  <2>2. ASSUME NEW j \in 1..(b.pattern - 1), FitsParsed(j, EntPath) PROVE FALSE
    <3>1. j \in DOMAIN patterns /\ j < b.pattern /\ j \in Nat /\ b.pattern \in Nat
      <4>1. Len(patterns) \in Nat /\ DOMAIN patterns = 1..Len(patterns)
        BY DEF WalkTyped
      <4>2. b.pattern \in 1..Len(patterns)
        BY <1>5, <4>1
      <4> HIDE DEF b
      <4> QED BY <4>1, <4>2
    <3>2. PICK k \in DOMAIN bookmarks : bookmarks[k].pattern = j /\ Finds(bookmarks[k])
      BY <1>1, <2>1, <2>2, <3>1, FindsFits
    <3>3. ~(bookmark_ix <= k)
      <4>1. bookmark_ix <= k => b.pattern <= bookmarks[k].pattern
        BY <1>2 DEF Ordered
      <4> HIDE DEF b
      <4> QED BY <3>1, <3>2, <4>1
    <3>4. k \in 1..(bookmark_ix - 1)
      BY <1>2, <3>3
    <3> QED BY <1>3, <1>6, <3>2, <3>4
  <2> QED BY <1>2, <2>1, <2>2 DEF FirstFor
<1> HIDE DEF b
<1>7. ent_had_final_match' <=> \E k \in 1..bookmark_ix : Finds(bookmarks[k])
  BY <1>1, <1>3, <1>4 DEF b
<1> QED BY <1>5, <1>6, <1>7 DEF b

(* One more match of a pattern.                                            *)
LEMMA FoundAppend ==
  ASSUME NEW s, IsSequence(s), NEW m
  PROVE  /\ IsSequence(Append(s, m)) /\ FoundIn(Append(s, m)) = FoundIn(s) \cup {m.value}
         /\ OnceIn(s) /\ m.value \notin FoundIn(s) => OnceIn(Append(s, m))
<1>1. IsSequence(Append(s, m)) /\ ToSet(Append(s, m)) = ToSet(s) \cup {m}
  BY SequenceAppend
<1>2. FoundIn(Append(s, m)) = FoundIn(s) \cup {m.value}
  BY <1>1 DEF FoundIn
<1>3. ASSUME OnceIn(s), m.value \notin FoundIn(s) PROVE OnceIn(Append(s, m))
  <2> DEFINE t == Append(s, m)
  <2>1. /\ Len(s) \in Nat /\ DOMAIN s = 1..Len(s) /\ DOMAIN t = 1..(Len(s) + 1)
        /\ t[Len(s) + 1] = m /\ \A k \in 1..Len(s) : t[k] = s[k]
    BY DEF IsSequence
  <2>2. \A k \in DOMAIN s : s[k].value # m.value
    BY <1>3 DEF FoundIn, ToSet
  <2>3. ASSUME NEW j \in DOMAIN t, NEW k \in DOMAIN t, t[j].value = t[k].value PROVE j = k
    <3>1. \A n \in DOMAIN t : \/ n \in DOMAIN s /\ t[n] = s[n]
                              \/ n = Len(s) + 1 /\ t[n] = m
      <4> HIDE DEF t
      <4> QED BY <2>1
    <3> HIDE DEF t
    <3> QED BY <1>3, <2>2, <2>3, <3>1 DEF OnceIn
  <2> QED BY <2>3 DEF OnceIn
<1> QED BY <1>1, <1>2, <1>3

(* A file is found for one pattern.                                        *)
LEMMA FirstOnly ==
  ASSUME WalkTyped, NEW i \in DOMAIN patterns, NEW j \in DOMAIN patterns, NEW p,
         FirstFor(i, p), FirstFor(j, p)
  PROVE  i = j
<1>1. i \in Nat \ {0} /\ j \in Nat \ {0}
  BY StepsOf
<1>2. ~(i < j) /\ ~(j < i)
  <2>1. i < j => i \in 1..(j - 1)
    BY <1>1
  <2>2. j < i => j \in 1..(i - 1)
    BY <1>1
  <2> QED BY <2>1, <2>2 DEF FirstFor
<1> QED BY <1>1, <1>2

(* The matches after the turn.                                             *)
LEMMA TryMatches ==
  ASSUME WalkTyped, BookmarksInv, EntInv, MatchesInv, TryBookmark
  PROVE  /\ DOMAIN matches' = DOMAIN patterns
         /\ \A i \in DOMAIN patterns :
              /\ IsSequence(matches'[i]) /\ OnceIn(matches'[i])
              /\ FoundIn(matches[i]) \subseteq FoundIn(matches'[i])
              /\ \A p \in FoundIn(matches'[i]) :
                   \/ p \in FoundIn(matches[i])
                   \/ p = EntPath /\ FirstFor(i, p) /\ ent_had_final_match'
         /\ ent_had_final_match' /\ ~ent_had_final_match =>
              \E i \in DOMAIN patterns : FirstFor(i, EntPath) /\ EntPath \in FoundIn(matches'[i])
<1> DEFINE b == bookmarks[bookmark_ix]
<1>1. /\ b.pattern \in DOMAIN patterns
      /\ Finds(b) /\ ~ent_had_final_match => FirstFor(b.pattern, EntPath)
      /\ ent_had_final_match' = (ent_had_final_match \/ Finds(b))
      /\ ent # <<>>
  BY TryFinds, TryActs
<1>2. /\ DOMAIN matches = DOMAIN patterns
      /\ \A i \in DOMAIN patterns : IsSequence(matches[i]) /\ OnceIn(matches[i])
  BY DEF MatchesInv
<1>3. CASE ~Finds(b) \/ ent_had_final_match
  <2>1. matches' = matches
    BY <1>3, TryActs
  <2> HIDE DEF b
  <2> QED BY <1>1, <1>2, <1>3, <2>1
<1>4. CASE Finds(b) /\ ~ent_had_final_match
  <2>1. PICK m : m.value = EntPath /\ matches' = [matches EXCEPT ![b.pattern] = Append(@, m)]
    BY <1>4, TryActs
  <2> HIDE DEF b
  <2>2. EntPath \notin FoundIn(matches[b.pattern])
    <3>1. Len(EntPath) \in Nat
      BY <1>1, EntTypes
    <3>2. AtEnt(EntPath)
      BY <1>1, <3>1, AboveSelf DEF AtEnt
    <3> QED BY <1>1, <1>4, <3>2 DEF MatchesInv
  <2> DEFINE s == matches[b.pattern]
  <2>3. /\ IsSequence(Append(s, m)) /\ FoundIn(Append(s, m)) = FoundIn(s) \cup {EntPath}
        /\ OnceIn(Append(s, m))
    BY <1>1, <1>2, <2>1, <2>2, FoundAppend
  <2>4. /\ DOMAIN matches' = DOMAIN patterns /\ matches'[b.pattern] = Append(s, m)
        /\ \A i \in DOMAIN patterns : i # b.pattern => matches'[i] = matches[i]
    BY <1>1, <1>2, <2>1
  <2> HIDE DEF s
  <2>5. ASSUME NEW i \in DOMAIN patterns
        PROVE  /\ IsSequence(matches'[i]) /\ OnceIn(matches'[i])
               /\ FoundIn(matches[i]) \subseteq FoundIn(matches'[i])
               /\ \A p \in FoundIn(matches'[i]) :
                    \/ p \in FoundIn(matches[i])
                    \/ p = EntPath /\ FirstFor(i, p) /\ ent_had_final_match'
    <3>1. CASE i = b.pattern
      BY <1>1, <1>4, <2>3, <2>4, <3>1 DEF s
    <3>2. CASE i # b.pattern
      BY <1>2, <2>4, <3>2
    <3> QED BY <3>1, <3>2
  <2>6. EntPath \in FoundIn(matches'[b.pattern])
    BY <2>3, <2>4
  <2> QED BY <1>1, <1>4, <2>4, <2>5, <2>6
<1> QED BY <1>3, <1>4
(* No directory of the plan is above the entry, nor is an unread one.      *)
LEMMA EntApart ==
  ASSUME WalkTyped, BookmarksInv, Apart, ent # <<>>
  PROVE  /\ AtEnt(EntPath) /\ ~Unread(EntPath) /\ ~Above(EntPath, path_prefix)
         /\ \A d \in DOMAIN pending : Above(d, EntPath) => d = EntPath
<1>1. /\ path_prefix \in Seq(PathNames) /\ ent \in PathNames /\ EntPath \in Seq(PathNames)
      /\ EntPath = Append(path_prefix, ent)
  BY EntTypes
<1>2. /\ Len(EntPath) = Len(path_prefix) + 1 /\ Len(path_prefix) \in Nat
      /\ EntPath[Len(path_prefix) + 1] = ent
  BY <1>1, Appended
<1>3. AtEnt(EntPath)
  <2>1. Len(EntPath) \in Nat
    BY <1>2
  <2> QED BY <2>1, AboveSelf DEF AtEnt
<1>4. ~Above(EntPath, path_prefix)
  BY <1>2 DEF Above
<1>5. ~Unread(EntPath)
  <2> SUFFICES ASSUME NEW name \in unread, Above(Append(path_prefix, name), EntPath) PROVE FALSE
    BY DEF Unread
  <2>1. name \in PathNames
    BY DEF WalkTyped
  <2>2. name = ent
    BY <1>1, <1>2, <2>1, AboveAppend
  <2> QED BY <2>2 DEF Apart
<1>6. ASSUME NEW d \in DOMAIN pending, Above(d, EntPath) PROVE d = EntPath
  <2>1. d \in Seq(PathNames)
    BY WalkTypes
  <2>2. d = EntPath \/ Above(d, path_prefix)
    BY <1>1, <1>6, <2>1, AboveOfAppend
  <2>3. ~Above(d, path_prefix)
    BY DEF Apart, Reading
  <2> QED BY <2>2, <2>3
<1> QED BY <1>3, <1>4, <1>5, <1>6

(* Trying a bookmark.                                                      *)
LEMMA TryBookmarkWalks == WalkInv /\ TryBookmark => WalkInv'
<1> SUFFICES ASSUME WalkInv, TryBookmark PROVE WalkInv'
  OBVIOUS
<1> DEFINE e == EntPath
           last == ~(bookmark_ix < Len(bookmarks))
<1>1. /\ ent # <<>>
      /\ \/ ~last /\ bookmark_ix' = bookmark_ix + 1 /\ ent' = ent
         \/ last /\ bookmark_ix' = 1 /\ ent' = <<>>
      /\ UNCHANGED <<tree, patterns, path_prefix, unread, bookmarks>>
  BY TryActs DEF WalkInv
<1>2. WalkTyped /\ Apart /\ BookmarksInv /\ EntInv /\ MatchesInv /\ NothingMissed /\ Reading
  BY <1>1 DEF WalkInv, Reading
<1>3. /\ \A d \in DOMAIN pending : d # e => d \in DOMAIN pending' /\ pending'[d] = pending[d]
      /\ DOMAIN pending \subseteq DOMAIN pending'
      /\ DOMAIN pending' \subseteq DOMAIN pending \cup {e}
      /\ e \in DOMAIN pending' => tree[e] = "directory" /\ pending'[e] # <<>>
      /\ Tried(pending', bookmark_ix)
  BY <1>2, TryPending
<1>4. /\ tree \in Trees /\ path_prefix \in Seq(PathNames) /\ ent \in PathNames
      /\ e \in Seq(PathNames) /\ e \in DOMAIN tree /\ Visible(e)
      /\ Complete(bookmarks, path_prefix)
      /\ bookmark_ix \in DOMAIN bookmarks /\ bookmark_ix \in Nat \ {0}
      /\ DOMAIN bookmarks = 1..Len(bookmarks) /\ Len(bookmarks) \in Nat
  BY <1>1, <1>2, EntTypes
<1>5. /\ AtEnt(e) /\ ~Unread(e) /\ ~Above(e, path_prefix)
      /\ \A d \in DOMAIN pending : Above(d, e) => d = e
  BY <1>1, <1>2, EntApart
<1>6. ent_had_final_match' <=> \E k \in 1..bookmark_ix : Finds(bookmarks[k])
  BY <1>2, TryFinds
<1>7. /\ DOMAIN matches' = DOMAIN patterns
      /\ \A i \in DOMAIN patterns :
           /\ IsSequence(matches'[i]) /\ OnceIn(matches'[i])
           /\ FoundIn(matches[i]) \subseteq FoundIn(matches'[i])
           /\ \A p \in FoundIn(matches'[i]) :
                \/ p \in FoundIn(matches[i])
                \/ p = e /\ FirstFor(i, p) /\ ent_had_final_match'
      /\ ent_had_final_match' /\ ~ent_had_final_match =>
           \E i \in DOMAIN patterns : FirstFor(i, e) /\ e \in FoundIn(matches'[i])
      /\ ent_had_final_match => ent_had_final_match'
  <2>1. ent_had_final_match' = (ent_had_final_match \/ Finds(bookmarks[bookmark_ix]))
    BY <1>2, TryActs
  <2>2. ent_had_final_match => ent_had_final_match'
    BY <2>1
  <2> QED BY <1>2, <2>2, TryMatches
<1>8. /\ \A p : Unread(p)' <=> Unread(p)
      /\ \A p : InPlan(p) => InPlan(p)'
      /\ \A p : InPlan(p)' => InPlan(p) \/ (tree[e] = "directory" /\ AtEnt(p))
      /\ \A p : AtEnt(p)' <=> ent' # <<>> /\ AtEnt(p)
      /\ ent' # <<>> => EntPath' = e
  <2>1. ent' # <<>> => EntPath' = e
    BY <1>1 DEF EntPath
  <2>2. \A p : Unread(p)' <=> Unread(p)
    BY <1>1 DEF Unread
  <2>3. \A p : InPlan(p) => InPlan(p)'
    BY <1>3 DEF InPlan
  <2>4. \A p : AtEnt(p)' <=> ent' # <<>> /\ AtEnt(p)
    BY <1>1, <2>1 DEF AtEnt
  <2> HIDE DEF e
  <2>5. \A p : InPlan(p)' => InPlan(p) \/ (tree[e] = "directory" /\ AtEnt(p))
    BY <1>1, <1>3 DEF InPlan, AtEnt, e
  <2> QED BY <2>1, <2>2, <2>3, <2>4, <2>5
<1>9. last => bookmark_ix = Len(bookmarks)
  BY <1>4
<1>10. ~last => bookmark_ix + 1 \in DOMAIN bookmarks
  BY <1>4
<1>11. last => /\ e \in DOMAIN pending' => Complete(pending'[e], e)
               /\ \A i \in DOMAIN patterns : \A s \in Steps(i) :
                    tree[e] = "directory" /\ Leads(Segments(i), e, s) => e \in DOMAIN pending'
  BY <1>1, <1>2, <1>3, <1>9, TriedAll
<1> HIDE DEF last, e
<1>12. WalkTyped'
  <2>1. \A d : Directory(d)' <=> Directory(d)
    BY <1>1 DEF Directory
  <2>2. \A i : Segments(i)' = Segments(i)
    BY <1>1, MarksSame
  <2>3. \A d \in DOMAIN pending' : Directory(d) /\ pending'[d] # <<>>
    <3>1. Directory(e) \/ tree[e] # "directory"
      BY <1>4 DEF Directory
    <3> QED BY <1>2, <1>3, <3>1 DEF WalkTyped
  <2>4. ent' # <<>> => /\ ent' = ent /\ EntPath' = e /\ e \in DOMAIN tree /\ Visible(e)
                       /\ bookmark_ix' \in DOMAIN bookmarks
    BY <1>1, <1>4, <1>8, <1>10
  <2> QED BY <1>1, <1>2, <1>4, <2>1, <2>2, <2>3, <2>4 DEF WalkTyped
<1>13. Apart'
  <2>1. ASSUME NEW d \in DOMAIN pending', NEW f \in DOMAIN pending', Above(d, f) PROVE d = f
    <3>1. CASE d \in DOMAIN pending /\ f \in DOMAIN pending
      BY <1>2, <2>1, <3>1 DEF Apart
    <3>2. CASE f = e /\ d \in DOMAIN pending
      BY <1>5, <2>1, <3>2
    <3>3. CASE d = e /\ f \in DOMAIN pending
      BY <1>1, <1>2, <2>1, <3>3 DEF Apart, AtEnt, e
    <3> QED BY <1>3, <3>1, <3>2, <3>3
  <2>2. ASSUME NEW d \in DOMAIN pending' PROVE ~Above(d, path_prefix) /\ ~Unread(d) /\ (AtEnt(d) => d = e)
    <3>1. CASE d \in DOMAIN pending
      BY <1>2, <3>1 DEF Apart, e
    <3> QED BY <1>3, <1>5, <3>1
  <2>3. ent \notin unread
    BY <1>1, <1>2 DEF Apart
  <2> QED BY <1>1, <1>8, <2>1, <2>2, <2>3 DEF Apart
<1>14. BookmarksInv'
  <2>1. ASSUME NEW d \in DOMAIN pending', ent' # <<>> => d # e PROVE Complete(pending'[d], d)
    <3>1. CASE d = e
      BY <1>1, <1>11, <2>1, <3>1
    <3>2. CASE d # e
      BY <1>2, <1>3, <3>2 DEF BookmarksInv, e
    <3> QED BY <3>1, <3>2
  <2>2. \A d : Complete(bookmarks, path_prefix)' <=> Complete(bookmarks, path_prefix)
    BY <1>1, MarksSame
  <2>3. \A marks, d : Complete(marks, d)' <=> Complete(marks, d)
    BY <1>1, MarksSame
  <2>4. \A d \in DOMAIN pending' : (ent' # <<>> => d # EntPath') => Complete(pending[d], d)'
    BY <1>8, <2>1, <2>3
  <2>5. Complete(bookmarks, path_prefix)'
    BY <1>2, <2>2 DEF BookmarksInv
  <2> QED BY <2>4, <2>5 DEF BookmarksInv
<1>15. EntInv'
  <2> SUFFICES ASSUME ent' # <<>>
               PROVE  /\ Tried(pending, bookmark_ix - 1)'
                      /\ ent_had_final_match' <=> \E k \in 1..(bookmark_ix' - 1) : Finds(bookmarks[k])'
    BY DEF EntInv
  <2>1. bookmark_ix' - 1 = bookmark_ix /\ ent' = ent
    BY <1>1, <1>4
  <2>2. \A k : bookmarks'[k] = bookmarks[k]
    BY <1>1
  <2>3. \A c : FoundBy(c)' <=> FoundBy(c)
    BY <1>1, <2>1 DEF FoundBy, Segments
  <2>4. \A c : Finds(c)' <=> Finds(c)
    BY <1>1, <1>8, <2>3 DEF Finds, Segments, e
  <2>5. \A c, i, s : Gives(c, i, s)' <=> Gives(c, i, s)
    BY <1>1, <2>3, MarksSame DEF Gives
  <2>6. Tried(pending, bookmark_ix - 1)'
    BY <1>1, <1>3, <1>8, <2>1, <2>2, <2>5, MarksSame DEF Tried, Marked, e
  <2> QED BY <1>1, <1>6, <2>1, <2>4, <2>6
<1>16. MatchesInv'
  <2>1. ASSUME NEW i \in DOMAIN patterns, NEW p \in FoundIn(matches'[i])
        PROVE  /\ FirstFor(i, p) /\ ~Unread(p) /\ ~InPlan(p)'
               /\ AtEnt(p) => p = e /\ ent_had_final_match'
    <3>1. FirstFor(i, p)
      BY <1>2, <1>7 DEF MatchesInv
    <3>2. tree[p] = "regular"
      BY <3>1 DEF FirstFor
    <3>3. /\ ~Unread(p) /\ ~InPlan(p)
          /\ AtEnt(p) => p = e /\ ent_had_final_match'
      <4>1. CASE p \in FoundIn(matches[i])
        BY <1>2, <1>7, <4>1 DEF MatchesInv, e
      <4>2. CASE p = e /\ ent_had_final_match'
        <5>1. ~InPlan(e)
          <6> SUFFICES ASSUME NEW d \in DOMAIN pending, Above(d, e) PROVE FALSE
            BY DEF InPlan
          <6>1. d = e
            BY <1>5
          <6> QED BY <1>2, <3>2, <4>2, <6>1, WalkTypes
        <5> QED BY <1>5, <4>2, <5>1
      <4> QED BY <1>7, <4>1, <4>2
    <3>4. ~InPlan(p)'
      <4> SUFFICES ASSUME InPlan(p)' PROVE FALSE
        OBVIOUS
      <4>1. tree[e] = "directory" /\ AtEnt(p)
        BY <1>8, <3>3
      <4> QED BY <3>2, <3>3, <4>1
    <3> QED BY <3>1, <3>3, <3>4
  <2>2. \A i, p : FirstFor(i, p)' <=> FirstFor(i, p)
    BY <1>1, FirstSame
  <2>3. ASSUME NEW i \in DOMAIN patterns, NEW p \in FoundIn(matches'[i])
        PROVE  /\ FirstFor(i, p)' /\ ~Unread(p)' /\ ~InPlan(p)'
               /\ AtEnt(p)' => p = EntPath' /\ ent_had_final_match'
    BY <1>8, <2>1, <2>2
  <2>4. \A s : (FoundIn(s)' = FoundIn(s)) /\ (OnceIn(s)' <=> OnceIn(s)) /\ (IsSequence(s)' <=> IsSequence(s))
    BY DEF FoundIn, OnceIn, IsSequence
  <2> QED BY <1>1, <1>7, <2>3, <2>4 DEF MatchesInv
<1>17. NothingMissed'
  <2>1. ASSUME NEW i \in DOMAIN patterns, NEW p \in DOMAIN tree, FirstFor(i, p), AtEnt(p),
               p = e => ~ent_had_final_match
        PROVE  \/ p \in FoundIn(matches'[i]) \/ InPlan(p)'
               \/ AtEnt(p)' /\ (p = e => ~ent_had_final_match')
    <3>1. tree[p] = "regular" /\ FitsParsed(i, p) /\ p \in Seq(PathNames)
      BY <1>2, <2>1, FirstIsRegular DEF FirstFor
    <3>2. CASE p = e
      <4>1. CASE ent_had_final_match'
        <5>1. PICK j \in DOMAIN patterns : FirstFor(j, e) /\ e \in FoundIn(matches'[j])
          BY <1>7, <2>1, <3>2, <4>1
        <5>2. j = i
          BY <1>2, <2>1, <3>2, <5>1, FirstOnly
        <5> QED BY <3>2, <5>1, <5>2
      <4>2. CASE ~ent_had_final_match' /\ ent' # <<>>
        BY <1>8, <2>1, <4>2
      <4>3. CASE ~ent_had_final_match' /\ ent' = <<>>
        <5>1. last
          BY <1>1, <4>3
        <5>2. PICK k \in DOMAIN bookmarks : Finds(bookmarks[k])
          BY <1>1, <1>2, <3>1, <3>2, FindsFits DEF e
        <5>3. k \in 1..bookmark_ix
          BY <1>4, <1>9, <5>1
        <5> QED BY <1>6, <4>3, <5>2, <5>3
      <4> QED BY <4>1, <4>2, <4>3
    <3>3. CASE p # e
      <4>1. CASE ent' # <<>>
        BY <1>8, <2>1, <3>3, <4>1
      <4>2. CASE ent' = <<>>
        <5>1. last
          BY <1>1, <4>2
        <5>2. Above(e, p)
          BY <2>1 DEF AtEnt, e
        <5>3. tree[e] = "directory"
          BY <1>4, <3>3, <5>2, AboveInTree
        <5>4. SegmentsFit(Segments(i), p) /\ Len(Segments(i)) \in Nat
          BY <1>2, <3>1, StepsOf DEF FitsParsed, Segments
        <5>5. PICK s \in Steps(i) : Leads(Segments(i), e, s)
          BY <1>4, <3>1, <3>3, <5>2, <5>4, LeadsAbove DEF Steps
        <5>6. e \in DOMAIN pending'
          BY <1>11, <5>1, <5>3, <5>5
        <5> QED BY <5>2, <5>6 DEF InPlan
      <4> QED BY <4>1, <4>2
    <3> QED BY <3>2, <3>3
  <2>2. ASSUME NEW i \in DOMAIN patterns, NEW p \in DOMAIN tree, FirstFor(i, p)
        PROVE  \/ p \in FoundIn(matches'[i]) \/ Unread(p)' \/ InPlan(p)'
               \/ AtEnt(p)' /\ (p = EntPath' => ~ent_had_final_match')
    <3>1. \/ p \in FoundIn(matches[i]) \/ Unread(p) \/ InPlan(p)
          \/ AtEnt(p) /\ (p = e => ~ent_had_final_match)
      BY <1>2, <2>2 DEF NothingMissed, e
    <3>2. AtEnt(p)' => EntPath' = e
      BY <1>8
    <3> QED BY <1>7, <1>8, <2>1, <2>2, <3>1, <3>2
  <2>3. \A i, p : FirstFor(i, p)' <=> FirstFor(i, p)
    BY <1>1, FirstSame
  <2>4. \A s : FoundIn(s)' = FoundIn(s)
    BY DEF FoundIn
  <2> QED BY <1>1, <2>2, <2>3, <2>4 DEF NothingMissed
<1> QED BY <1>12, <1>13, <1>14, <1>15, <1>16, <1>17 DEF WalkInv
(* The first bookmarks lead into the root.                                 *)
LEMMA WalkInit == Init => WalkInv
<1> SUFFICES ASSUME Init PROVE WalkInv
  OBVIOUS
<1>1. PICK m \in Manifests : manifest = ReadManifest(m)
  BY DEF Init
<1>2. /\ m.source_patterns \in Seq(Seq(STRING))
      /\ \A i \in DOMAIN m.source_patterns : Parse(m.source_patterns[i]).segments # <<>>
  BY ManifestsAssumption, PatternsAssumption
<1> DEFINE strings == m.source_patterns
           n       == Len(strings)
           Ones(i) == [g \in DOMAIN patterns[i].capture_groups |-> 1]
           First(i) == [pattern |-> i, segment |-> 1, from |-> Ones(i), to |-> Ones(i)]
           firsts  == [i \in DOMAIN patterns |-> First(i)]
<1>3. /\ patterns = manifest.source_patterns /\ tree \in Trees
      /\ pending = IF patterns = <<>> THEN [d \in {} |-> <<>>] ELSE [d \in {<<>>} |-> firsts]
      /\ path_prefix = <<>> /\ unread = {} /\ bookmarks = <<>> /\ ent = <<>>
      /\ matches = [i \in DOMAIN patterns |-> <<>>]
  BY Zenon DEF Init, CrawlInit
<1>4. n \in Nat /\ DOMAIN strings = 1..n /\ \A i \in 1..n : Len(strings[i]) \in Nat
  BY <1>2
<1>5. patterns = [i \in DOMAIN strings |-> ParsedPattern(strings[i])]
  BY <1>1, <1>3 DEF ReadManifest
<1>6. DOMAIN patterns = 1..n /\ Len(patterns) = n
  <2>1. patterns = [i \in 1..n |-> patterns[i]]
    BY <1>4, <1>5
  <2> HIDE DEF n
  <2> QED BY <1>4, <2>1, SequenceOfLength
<1>7. ASSUME NEW i \in DOMAIN patterns
      PROVE  IsSequence(Segments(i)) /\ Segments(i) # <<>>
  <2>1. i \in DOMAIN strings /\ Len(strings[i]) \in Nat
    BY <1>4, <1>6
  <2>2. patterns[i] = ParsedPattern(strings[i])
    BY <1>5, <2>1
  <2>3. Segments(i) = Parse(strings[i]).segments
    BY <2>2 DEF Segments, ParsedPattern
  <2>4. IsSequence(Parse(strings[i]).segments)
    BY <2>1, ParsedSegments
  <2> QED BY <1>2, <2>1, <2>3, <2>4
<1>8. ~Reading
  BY <1>3 DEF Reading
<1>9. <<>> \in Seq(PathNames) /\ Directory(<<>>)
  BY <1>3, TreePaths DEF Directory, Visible
<1> HIDE DEF strings, n, firsts
<1>10. /\ DOMAIN pending \subseteq {<<>>}
       /\ DOMAIN pending # {} <=> patterns # <<>>
       /\ \A d \in DOMAIN pending : pending[d] = firsts
  BY <1>3
<1>11. patterns # <<>> <=> n # 0
  <2>1. patterns = <<>> => n = 0
    BY <1>6
  <2>2. n = 0 => patterns = <<>>
    <3> SUFFICES ASSUME n = 0 PROVE patterns = <<>>
      OBVIOUS
    <3>1. DOMAIN patterns = {}
      BY <1>6
    <3>2. patterns = [i \in {} |-> patterns[i]]
      BY <1>5, <3>1
    <3> QED BY <3>2
  <2> QED BY <2>1, <2>2
<1>12. IsSequence(firsts) /\ Len(firsts) = n /\ DOMAIN firsts = 1..n
       /\ \A i \in 1..n : firsts[i] = First(i)
  <2>1. DOMAIN firsts = 1..n /\ \A i \in 1..n : firsts[i] = First(i)
    BY <1>6 DEF firsts
  <2>2. firsts = [i \in 1..n |-> firsts[i]]
    BY <1>6 DEF firsts
  <2> QED BY <1>4, <2>1, <2>2, SequenceOfLength
<1>13. WalkTyped
  <2>1. \A d \in DOMAIN pending : Directory(d) /\ pending[d] # <<>>
    <3>1. n # 0 => firsts # <<>>
      BY <1>4, <1>12
    <3> QED BY <1>9, <1>10, <1>11, <3>1
  <2> QED BY <1>3, <1>4, <1>6, <1>7, <1>8, <2>1 DEF WalkTyped
<1>14. Apart
  BY <1>3, <1>8, <1>10 DEF Apart, Unread, AtEnt
<1>15. Complete(firsts, <<>>)
  <2>1. ASSUME NEW i \in 1..n PROVE IsBookmark(First(i)) /\ First(i).pattern = i /\ First(i).segment = 1
    <3>1. 1 \in Steps(i)
      <4>1. Len(Segments(i)) \in Nat /\ Len(Segments(i)) # 0
        BY <1>6, <1>7, <2>1 DEF IsSequence
      <4> QED BY <4>1 DEF Steps
    <3> QED BY <1>6, <3>1 DEF IsBookmark
  <2> HIDE DEF First
  <2>2. Ordered(firsts)
    BY <1>12, <2>1 DEF Ordered
  <2>3. ASSUME NEW i \in DOMAIN patterns, NEW s \in Steps(i)
        PROVE  Marked(firsts, i, s) <=> Leads(Segments(i), <<>>, s)
    <3>1. s \in Nat \ {0}
      BY <1>13, StepsOf
    <3>2. Marked(firsts, i, s) <=> s = 1
      BY <1>6, <1>12, <2>1 DEF Marked
    <3> QED BY <3>1, <3>2, LeadsAtRoot
  <2> QED BY <2>2, <2>3 DEF Complete
<1>16. BookmarksInv
  BY <1>8, <1>10, <1>15 DEF BookmarksInv
<1>17. EntInv
  BY <1>3 DEF EntInv
<1>18. MatchesInv
  <2>1. IsSequence(<<>>) /\ OnceIn(<<>>) /\ FoundIn(<<>>) = {}
    BY DEF IsSequence, OnceIn, FoundIn, ToSet
  <2> QED BY <1>3, <2>1 DEF MatchesInv
<1>19. NothingMissed
  <2> SUFFICES ASSUME NEW i \in DOMAIN patterns, NEW p \in DOMAIN tree, FirstFor(i, p)
               PROVE  InPlan(p)
    BY DEF NothingMissed
  <2>1. <<>> \in DOMAIN pending
    BY <1>4, <1>6, <1>10, <1>11
  <2>2. Len(p) \in Nat
    BY <1>13, FirstIsRegular
  <2> QED BY <2>1, <2>2 DEF InPlan, Above
<1> QED BY <1>13, <1>14, <1>16, <1>17, <1>18, <1>19 DEF WalkInv

(* The other steps leave the crawler alone.                                *)
LEMMA WalkSame ==
  ASSUME WalkInv, UNCHANGED crawl
  PROVE  WalkInv'
<1>1. UNCHANGED <<tree, patterns, pending, path_prefix, unread, bookmarks, ent, bookmark_ix,
                  ent_had_final_match, matches>>
  BY DEF crawl, reader
<1>2. WalkTyped' /\ Apart'
  BY <1>1 DEF WalkInv, WalkTyped, Apart, Reading, Directory, Segments, EntPath, Unread, AtEnt
<1>3. BookmarksInv'
  BY <1>1, MarksSame DEF WalkInv, BookmarksInv, Reading, EntPath
<1>4. EntInv'
  BY <1>1, MarksSame DEF WalkInv, EntInv, Tried, Gives, Finds, FoundBy, Marked, EntPath, Segments
<1>5. MatchesInv'
  BY <1>1, FirstSame DEF WalkInv, MatchesInv, Unread, InPlan, AtEnt, EntPath, FoundIn, OnceIn
<1>6. NothingMissed'
  BY <1>1, FirstSame DEF WalkInv, NothingMissed, Unread, InPlan, AtEnt, EntPath, FoundIn
<1> QED BY <1>2, <1>3, <1>4, <1>5, <1>6 DEF WalkInv

(* The crawl, at every step of it and after: what is found, what is still  *)
(* to be found and where the bookmarks lead (next(), next_bookmark_() and  *)
(* next_dir_(), matcher.h:56-226).                                         *)
THEOREM WalkInvariant == Spec => []WalkInv
<1>1. Init => WalkInv
  BY WalkInit
<1>2. WalkInv /\ [Next]_vars => WalkInv'
  <2> SUFFICES ASSUME WalkInv, [Next]_vars PROVE WalkInv'
    OBVIOUS
  <2>1. CASE Crawl
    <3>1. CrawlNext
      BY <2>1 DEF Crawl
    <3> QED BY <3>1, NextDirWalks, NextEntWalks, TryBookmarkWalks DEF CrawlNext
  <2>2. CASE UNCHANGED vars
    BY <2>2, WalkSame DEF vars
  <2>3. CASE EndCrawl
    BY <2>3, WalkSame DEF EndCrawl
  <2>4. CASE GatherRule
    BY <2>4, WalkSame, Zenon DEF GatherRule
  <2>5. CASE StoreOutput
    BY <2>5, WalkSame DEF StoreOutput
  <2>6. CASE Return
    BY <2>6, WalkSame DEF Return
  <2>7. CASE Done
    BY <2>7, WalkSame DEF Done, vars
  <2> QED BY <2>1, <2>2, <2>3, <2>4, <2>5, <2>6, <2>7 DEF Next
<1> QED BY <1>1, <1>2, PTL DEF Spec

(* However many patterns there are, whatever the tree and whatever the     *)
(* order in which the file system and the hash map give directories and    *)
(* entries: each file that the segments of a pattern fit is found once,    *)
(* for the first such pattern, and no other file is (next(),               *)
(* matcher.h:56-81).                                                       *)
THEOREM EachFileIsFoundOnce == Spec => []FoundBySegments
<1>1. WalkInv => FoundBySegments
  <2> SUFFICES ASSUME WalkInv, Crawled, NEW i \in DOMAIN patterns
               PROVE  /\ IsInjective([m \in DOMAIN matches[i] |-> matches[i][m].value])
                      /\ FoundIn(matches[i]) = {p \in DOMAIN tree : FirstFor(i, p)}
    BY Zenon DEF FoundBySegments, FoundIn, FirstFor
  <2>1. MatchesInv /\ NothingMissed
    BY DEF WalkInv
  <2>2. \A p : ~Unread(p) /\ ~InPlan(p) /\ ~AtEnt(p)
    BY DEF Crawled, Unread, InPlan, AtEnt
  <2>3. IsInjective([m \in DOMAIN matches[i] |-> matches[i][m].value])
    BY <2>1 DEF MatchesInv, OnceIn, IsInjective
  <2>4. \A p \in FoundIn(matches[i]) : FirstFor(i, p) /\ p \in DOMAIN tree
    BY <2>1 DEF MatchesInv, FirstFor
  <2>5. \A p \in DOMAIN tree : FirstFor(i, p) => p \in FoundIn(matches[i])
    BY <2>1, <2>2 DEF NothingMissed
  <2> QED BY <2>3, <2>4, <2>5
<1> QED BY <1>1, WalkInvariant, PTL
=============================================================================
