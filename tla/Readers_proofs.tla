---------------------------- MODULE Readers_proofs ----------------------------
(***************************************************************************)
(* What the readers of the log and of depfiles and the lexer of the        *)
(* manifest give back is what their files say: for all logs that the       *)
(* recorder may write, wherever the file is cut off and however read()     *)
(* hands it over, for all texts of either kind, and for all rules.         *)
(*                                                                         *)
(* A log is located in the bytes it was written with, of which the file    *)
(* has a part: what has been taken of it by whole fields ends where the    *)
(* bytes of the field now being read start. As the bytes of a number tell  *)
(* where it ends, each field then gets the bytes it wrote.                 *)
(*                                                                         *)
(* A text is located by what the lexer has consumed of it, which is a      *)
(* character less than it has read when that one is kept for later: up to  *)
(* there, the text is tokens with whitespace between them, and the string  *)
(* or number now being read.                                               *)
(*                                                                         *)
(* A rule is located in the text it is written as, piece by piece: target, *)
(* colon, separators, and names that are put together of what each of      *)
(* their characters is escaped to. A depfile of any kind is located in the *)
(* marks that its two layers of escapes leave of it.                       *)
(***************************************************************************)
EXTENDS LogReader, JsonLexer, Depfile, SequenceTheorems, FiniteSetTheorems, NaturalsInduction,
        WellFoundedInduction, TLAPS

(* t is in s behind the first i elements.                                  *)
Holds(s, i, t) == i \in Nat /\ i + Len(t) <= Len(s) /\ \A n \in 1..Len(t) : s[i + n] = t[n]

(* Where what follows the first k sequences starts in all of them.         *)
Place(ss, k) == Len(FlattenSeq(SubSeq(ss, 1, k)))

EntryPlace(log, k) == Len(LogBytes(SubSeq(log, 1, k)))

(* The bytes handed out by whole calls.                                    *)
Taken == position - Len(buffer) - Len(got)

(* The fields still to be read, and what has been read, of an entry whose  *)
(* first j parts have been read.                                           *)
FieldsLeft(e, j) ==
  CASE e.kind = "root_entity_name" -> IF j = 0 THEN <<Field("length")>> ELSE <<Name(Len(e.bytes))>>
    [] e.kind = "entity_name"      -> IF j = 0 THEN <<Field("id"), Field("length")>>
                                      ELSE IF j = 1 THEN <<Field("length")>> ELSE <<Name(Len(e.bytes))>>
    [] e.kind = "file_update"      -> IF j = 0 THEN <<Scalar, Scalar, Field("id"), Field("dep_count")>>
                                      ELSE IF j = 1 THEN <<Scalar, Field("id"), Field("dep_count")>>
                                      ELSE IF j = 2 THEN <<Field("id"), Field("dep_count")>>
                                      ELSE IF j = 3 THEN <<Field("dep_count")>>
                                      ELSE [n \in 1..(Len(e.ids) + 3 - j) |-> Field("id")]

IdsRead(e, j) ==
  CASE e.kind = "root_entity_name" -> 0
    [] e.kind = "entity_name"      -> IF j = 0 THEN 0 ELSE 1
    [] e.kind = "file_update"      -> IF j <= 2 THEN 0 ELSE IF j = 3 THEN 1 ELSE j - 3

BytesRead(e, j) ==
  IF e.kind # "file_update" \/ j = 0 THEN <<>>
  ELSE IF j = 1 THEN SubSeq(e.bytes, 1, ScalarSize) ELSE e.bytes

EntryRead(e, j) == [kind |-> e.kind, ids |-> SubSeq(e.ids, 1, IdsRead(e, j)), bytes |-> BytesRead(e, j)]

InEntry(e, start, j) ==
  /\ fields = FieldsLeft(e, j) /\ entry = EntryRead(e, j)
  /\ Taken - Len(size) = start + 1 + Place(EntryParts(e), j)

-----------------------------------------------------------------------------
(* What read() has returned is in the buffer or has been copied.           *)
StreamInv ==
  /\ position \in 0..Len(file)
  /\ buffer \in Seq(Nat) /\ got \in Seq(Nat)
  /\ Len(buffer) + Len(got) <= position
  /\ Holds(file, position - Len(buffer), buffer)
  /\ Holds(file, Taken, got)
  /\ fields # <<>> /\ Len(got) <= Asked

(* A number that is being read has not ended yet.                          *)
SizeInv ==
  /\ size \in Seq(Nat) /\ Len(size) < MaxBytes
  /\ \A n \in DOMAIN size : size[n] >= Radix
  /\ Len(size) <= Taken /\ Holds(file, Taken - Len(size), size)
  /\ Head(fields).is \notin {"length", "id", "dep_count"} => size = <<>>

(* The reader is in front of a field of the log.                           *)
InsideEntry ==
  /\ Len(entries) < Len(written)
  /\ LET e == written[Len(entries) + 1]
     IN  \E j \in 0..(Len(EntryParts(e)) - 1) : InEntry(e, EntryPlace(written, Len(entries)), j)

ParseInv ==
  \/ fields = <<Field("version")>> /\ entry = NoEntry /\ entries = <<>> /\ Taken = 0
  \/ fields = <<Field("type")>> /\ entry = NoEntry /\ Taken = EntryPlace(written, Len(entries))
  \/ InsideEntry

IsPart == Len(file) <= Len(LogBytes(written)) /\ Holds(LogBytes(written), 0, file)

EndedInv ==
  /\ ended = "end" => fields = <<Field("type")>> /\ got = <<>> /\ buffer = <<>> /\ position = Len(file)
  /\ ended = "unexpected_end_of_file" =>
       /\ Len(got) < Asked /\ buffer = <<>> /\ position = Len(file)
       /\ Head(fields).is # "type" \/ got # <<>>
  /\ ended = "invalid var size_t" => Len(entries) < Len(written) /\ ~Fits(written[Len(entries) + 1])
  /\ ended \in {"no", "end", "unexpected_end_of_file", "invalid var size_t"}

LogInv ==
  /\ written \in Logs /\ file \in Seq(Nat) /\ IsPart
  /\ Len(entries) \in 0..Len(written) /\ entries = SubSeq(written, 1, Len(entries))
  /\ ended # "invalid var size_t" => StreamInv /\ SizeInv /\ ParseInv
  /\ EndedInv

IInv == file \notin Foreign => LogInv

-----------------------------------------------------------------------------
(* Induction over the natural numbers, for a set, from all smaller ones.   *)
LEMMA Induction ==
  ASSUME NEW S \in SUBSET Nat, \A n \in Nat : (\A m \in 0..(n - 1) : m \in S) => n \in S
  PROVE  S = Nat
<1> SUFFICES ASSUME S # Nat PROVE FALSE
  OBVIOUS
<1> DEFINE T == Nat \ S
           R == OpToRel(<, Nat)
<1>1. IsWellFoundedOn(R, Nat)
  BY NatLessThanWellFounded, Zenon
<1>2. T \subseteq Nat /\ T # {}
  OBVIOUS
<1>3. PICK x \in T : \A y \in T : ~ (<<y, x>> \in R)
  <2> HIDE DEF T, R
  <2> QED BY <1>1, <1>2, WFMin
<1>4. \A y \in T : ~ (y < x)
  BY <1>2, <1>3 DEF OpToRel
<1>5. x \in Nat /\ x \notin S
  OBVIOUS
<1>6. \A m \in 0..(x - 1) : m \in Nat /\ m < x
  BY <1>5
<1>7. \A m \in 0..(x - 1) : m \in S
  BY <1>4, <1>6
<1> QED BY <1>5, <1>7

(* What is used of sequences.                                              *)
LEMMA SeqFacts ==
  ASSUME NEW T, NEW s \in Seq(T)
  PROVE  Len(s) \in Nat /\ DOMAIN s = 1..Len(s) /\ \A n \in 1..Len(s) : s[n] \in T
OBVIOUS

(* What is used of their concatenation.                                    *)
LEMMA ConcatFacts ==
  ASSUME NEW T, NEW s \in Seq(T), NEW t \in Seq(T)
  PROVE  /\ s \o t \in Seq(T) /\ Len(s \o t) = Len(s) + Len(t)
         /\ \A n \in 1..Len(s) : (s \o t)[n] = s[n]
         /\ \A n \in (Len(s) + 1)..(Len(s) + Len(t)) : (s \o t)[n] = t[n - Len(s)]
OBVIOUS

-----------------------------------------------------------------------------
(* Numbers of variable length.                                             *)

Code(f, v) == IF v < Radix THEN <<v>> ELSE <<Radix + (v % Radix)>> \o f[v \div Radix]
IsCode(f, n) == \A v \in 0..n : f[v] = Code(f, v)

(* A shorter number is a smaller one.                                      *)
LEMMA Shorter ==
  ASSUME NEW v \in Nat, v >= Radix
  PROVE  v \div Radix \in 0..(v - 1)
<1>1. Radix \in Nat /\ Radix # 0 /\ Radix # 1
  BY SizesAssumption
<1>2. v \div Radix \in Nat /\ v \div Radix < v
  BY <1>1
<1> QED BY <1>2

(* There are codes for the numbers up to any number.                       *)
LEMMA CodesExist == \A n \in Nat : \E f : IsCode(f, n)
<1> DEFINE S == {n \in Nat : \E f : IsCode(f, n)}
<1>1. ASSUME NEW n \in Nat, \A m \in 0..(n - 1) : m \in S
      PROVE  n \in S
  <2>1. PICK f : n # 0 => IsCode(f, n - 1)
    BY <1>1
  <2> DEFINE g == [v \in 0..n |-> IF v = n THEN Code(f, n) ELSE f[v]]
  <2>2. ASSUME NEW v \in 0..n
        PROVE  g[v] = Code(g, v)
    <3>1. v >= Radix => v \div Radix \in 0..(v - 1)
      BY Shorter
    <3>2. v >= Radix => g[v \div Radix] = f[v \div Radix]
      BY <3>1
    <3>3. Code(g, v) = Code(f, v)
      <4>1. Radix \in Nat
        BY SizesAssumption
      <4> HIDE DEF g
      <4> QED BY <3>2, <4>1 DEF Code
    <3>4. CASE v = n
      BY <3>3, <3>4
    <3>5. CASE v # n
      <4>1. v \in 0..(n - 1) /\ n # 0
        BY <3>5
      <4>2. f[v] = Code(f, v)
        BY <2>1, <4>1 DEF IsCode
      <4> QED BY <3>3, <3>5, <4>2
    <3> QED BY <3>4, <3>5
  <2> HIDE DEF g
  <2>3. IsCode(g, n)
    BY <2>2 DEF IsCode
  <2> QED BY <2>3
<1> HIDE DEF S
<1>2. S \in SUBSET Nat
  BY DEF S
<1>3. S = Nat
  BY <1>1, <1>2, Induction
<1> QED BY <1>3 DEF S

(* Codes agree.                                                            *)
LEMMA CodesAgree ==
  ASSUME NEW f, NEW g, NEW n \in Nat, NEW m \in Nat, IsCode(f, n), IsCode(g, m)
  PROVE  \A v \in 0..n : v <= m => f[v] = g[v]
<1> DEFINE S == {v \in Nat : v <= n /\ v <= m => f[v] = g[v]}
<1>1. ASSUME NEW v \in Nat, \A w \in 0..(v - 1) : w \in S
      PROVE  v \in S
  <2> SUFFICES ASSUME v <= n, v <= m PROVE f[v] = g[v]
    OBVIOUS
  <2>1. f[v] = Code(f, v) /\ g[v] = Code(g, v)
    BY DEF IsCode
  <2>2. v >= Radix => f[v \div Radix] = g[v \div Radix]
    BY <1>1, Shorter
  <2>3. Radix \in Nat
    BY SizesAssumption
  <2> QED BY <2>1, <2>2, <2>3 DEF Code
<1> HIDE DEF S
<1>2. S \in SUBSET Nat
  BY DEF S
<1>3. S = Nat
  BY <1>1, <1>2, Induction
<1> QED BY <1>3 DEF S

(* VarSize is what its definition says.                                    *)
LEMMA VarSizeDef == \A v \in Nat : VarSize[v] = Code(VarSize, v)
<1> DEFINE G == [v \in Nat |-> (CHOOSE f : IsCode(f, v))[v]]
<1>1. ASSUME NEW v \in Nat
      PROVE  IsCode(CHOOSE f : IsCode(f, v), v)
  BY CodesExist
<1>2. ASSUME NEW v \in Nat
      PROVE  G[v] = Code(G, v)
  <2> DEFINE F(n) == CHOOSE f : IsCode(f, n)
  <2>1. G[v] = F(v)[v] /\ F(v)[v] = Code(F(v), v)
    BY <1>1 DEF IsCode
  <2>2. ASSUME v >= Radix
        PROVE  G[v \div Radix] = F(v)[v \div Radix]
    <3> DEFINE w == v \div Radix
    <3>1. w \in 0..(v - 1)
      BY <2>2, Shorter
    <3>2. w \in Nat /\ w <= v
      BY <3>1
    <3> HIDE DEF w
    <3>3. IsCode(F(w), w) /\ IsCode(F(v), v)
      BY <1>1, <3>2
    <3> HIDE DEF F
    <3>4. w \in 0..w
      BY <3>2
    <3>5. F(w)[w] = F(v)[w]
      BY <3>2, <3>3, <3>4, CodesAgree
    <3>6. G[w] = F(w)[w]
      BY <3>2 DEF F
    <3> QED BY <3>5, <3>6 DEF w
  <2>3. Radix \in Nat
    BY SizesAssumption
  <2> HIDE DEF F, G
  <2> QED BY <2>1, <2>2, <2>3 DEF Code
<1>3. G = [v \in Nat |-> Code(G, v)]
  <2>1. G = [v \in Nat |-> G[v]]
    OBVIOUS
  <2> HIDE DEF G
  <2> QED BY <1>2, <2>1
<1> HIDE DEF G
<1>4. \E f : f = [v \in Nat |-> Code(f, v)]
  BY <1>3
<1>5. VarSize = CHOOSE f : f = [v \in Nat |-> Code(f, v)]
  BY Zenon DEF VarSize, Code
<1>6. VarSize = [v \in Nat |-> Code(VarSize, v)]
  BY <1>4, <1>5
<1> QED BY <1>6

(* Only the last byte of a number is below the radix.                      *)
LEMMA VarSizeShape ==
  \A v \in Nat : /\ VarSize[v] \in Seq(Nat) /\ Len(VarSize[v]) \in Nat \ {0}
                 /\ \A n \in 1..(Len(VarSize[v]) - 1) : VarSize[v][n] >= Radix
                 /\ VarSize[v][Len(VarSize[v])] < Radix
<1> DEFINE P(s) == /\ s \in Seq(Nat) /\ Len(s) \in Nat \ {0}
                   /\ \A n \in 1..(Len(s) - 1) : s[n] >= Radix
                   /\ s[Len(s)] < Radix
           S == {v \in Nat : P(VarSize[v])}
<1>1. ASSUME NEW v \in Nat, \A w \in 0..(v - 1) : w \in S
      PROVE  v \in S
  <2>1. Radix \in Nat /\ Radix # 0
    BY SizesAssumption
  <2>2. VarSize[v] = Code(VarSize, v)
    BY VarSizeDef
  <2>3. CASE v < Radix
    <3>1. VarSize[v] = <<v>>
      BY <2>2, <2>3 DEF Code
    <3>2. P(<<v>>)
      BY <2>1, <2>3
    <3> QED BY <3>1, <3>2
  <2>4. CASE v >= Radix
    <3> DEFINE s == VarSize[v \div Radix]
               b == Radix + (v % Radix)
    <3>1. VarSize[v] = <<b>> \o s
      BY <2>1, <2>2, <2>4 DEF Code
    <3>2. P(s)
      <4>1. v \div Radix \in 0..(v - 1)
        BY <2>4, Shorter
      <4>2. v \div Radix \in S
        BY <1>1, <4>1
      <4> QED BY <4>2
    <3>3. b \in Nat /\ b >= Radix
      BY <2>1
    <3> HIDE DEF s, b
    <3>4. P(<<b>> \o s)
      <4> DEFINE t == <<b>> \o s
      <4>1. t \in Seq(Nat) /\ Len(t) = Len(s) + 1 /\ t[1] = b
        BY <3>2, <3>3
      <4>2. \A n \in 2..Len(t) : t[n] = s[n - 1]
        BY <3>2, <3>3
      <4> HIDE DEF t
      <4>3. Len(t) \in Nat \ {0} /\ Len(t) \in 2..Len(t)
        BY <3>2, <4>1
      <4>4. t[Len(t)] < Radix
        BY <3>2, <4>1, <4>2, <4>3
      <4>5. ASSUME NEW n \in 1..(Len(t) - 1)
            PROVE  t[n] >= Radix
        <5>1. CASE n = 1
          BY <5>1, <3>3, <4>1
        <5>2. CASE n # 1
          <6>1. n \in 2..Len(t) /\ n - 1 \in 1..(Len(s) - 1)
            BY <5>2, <4>1, <3>2
          <6> QED BY <6>1, <4>2, <3>2
        <5> QED BY <5>1, <5>2
      <4> QED BY <4>1, <4>3, <4>4, <4>5 DEF t
    <3> QED BY <3>1, <3>4
  <2> QED BY <2>1, <2>3, <2>4
<1> HIDE DEF S
<1>2. S \in SUBSET Nat
  BY DEF S
<1>3. S = Nat
  BY <1>1, <1>2, Induction
<1>4. \A v \in Nat : P(VarSize[v])
  BY <1>3 DEF S
<1> QED BY <1>4

(* The value of the last n bytes.                                          *)
ValueStep(f, s, n) == IF n = 0 THEN 0 ELSE (s[Len(s) + 1 - n] % Radix) + Radix * f[n - 1]
IsValue(f, s, m)   == \A n \in 0..m : f[n] = ValueStep(f, s, n)

(* Every sequence has its values, so Value, which chooses them, has some   *)
(* to choose.                                                              *)
LEMMA ValuesExist ==
  ASSUME NEW s
  PROVE  \A m \in Nat : \E f : IsValue(f, s, m)
<1> DEFINE S == {m \in Nat : \E f : IsValue(f, s, m)}
<1>1. ASSUME NEW m \in Nat, \A k \in 0..(m - 1) : k \in S
      PROVE  m \in S
  <2>1. PICK f : m # 0 => IsValue(f, s, m - 1)
    BY <1>1
  <2> DEFINE g == [n \in 0..m |-> IF n = m THEN ValueStep(f, s, m) ELSE f[n]]
  <2>2. ASSUME NEW n \in 0..m
        PROVE  g[n] = ValueStep(g, s, n)
    <3>1. n # 0 => n - 1 \in 0..m /\ g[n - 1] = f[n - 1]
      OBVIOUS
    <3>2. ValueStep(g, s, n) = ValueStep(f, s, n)
      <4> HIDE DEF g
      <4> QED BY <3>1 DEF ValueStep
    <3>3. CASE n = m
      BY <3>2, <3>3
    <3>4. CASE n # m
      <4>1. n \in 0..(m - 1) /\ m # 0
        BY <3>4
      <4>2. f[n] = ValueStep(f, s, n)
        BY <2>1, <4>1 DEF IsValue
      <4> QED BY <3>2, <3>4, <4>2
    <3> QED BY <3>3, <3>4
  <2> HIDE DEF g
  <2>3. IsValue(g, s, m)
    BY <2>2 DEF IsValue
  <2> QED BY <2>3
<1> HIDE DEF S
<1>2. S \in SUBSET Nat
  BY DEF S
<1>3. S = Nat
  BY <1>1, <1>2, Induction
<1> QED BY <1>3 DEF S

(* The values of the last bytes do not depend on those before.             *)
LEMMA ValuesAgree ==
  ASSUME NEW s, NEW t, NEW m \in Nat, NEW f, NEW g, Len(s) \in Nat, Len(t) \in Nat,
         IsValue(f, s, m), IsValue(g, t, m),
         \A n \in 1..m : s[Len(s) + 1 - n] = t[Len(t) + 1 - n]
  PROVE  f[m] = g[m]
<1> DEFINE S == {n \in Nat : n <= m => f[n] = g[n]}
<1>1. ASSUME NEW n \in Nat, \A k \in 0..(n - 1) : k \in S
      PROVE  n \in S
  <2> SUFFICES ASSUME n <= m PROVE f[n] = g[n]
    OBVIOUS
  <2>1. f[n] = ValueStep(f, s, n) /\ g[n] = ValueStep(g, t, n)
    BY DEF IsValue
  <2>2. n # 0 => f[n - 1] = g[n - 1] /\ s[Len(s) + 1 - n] = t[Len(t) + 1 - n]
    <3>1. n # 0 => n - 1 \in 0..(n - 1) /\ n - 1 <= m /\ n \in 1..m
      OBVIOUS
    <3> QED BY <1>1, <3>1
  <2> QED BY <2>1, <2>2 DEF ValueStep
<1> HIDE DEF S
<1>2. S \in SUBSET Nat
  BY DEF S
<1>3. S = Nat
  BY <1>1, <1>2, Induction
<1> QED BY <1>3 DEF S

(* Value is what any values have for all bytes.                            *)
LEMMA ValueIs ==
  ASSUME NEW s, Len(s) \in Nat
  PROVE  \E f : IsValue(f, s, Len(s)) /\ Value(s) = f[Len(s)]
<1> DEFINE F == CHOOSE f : f = [n \in 0..Len(s) |-> ValueStep(f, s, n)]
<1>1. PICK f : IsValue(f, s, Len(s))
  BY ValuesExist
<1> DEFINE g == [n \in 0..Len(s) |-> f[n]]
<1>2. g = [n \in 0..Len(s) |-> ValueStep(g, s, n)]
  <2>1. ASSUME NEW n \in 0..Len(s)
        PROVE  g[n] = ValueStep(g, s, n)
    <3>1. g[n] = ValueStep(f, s, n)
      BY <1>1 DEF IsValue
    <3>2. n # 0 => g[n - 1] = f[n - 1]
      OBVIOUS
    <3> HIDE DEF g
    <3> QED BY <3>1, <3>2 DEF ValueStep
  <2>2. g = [n \in 0..Len(s) |-> g[n]]
    OBVIOUS
  <2> HIDE DEF g
  <2> QED BY <2>1, <2>2
<1> HIDE DEF g
<1>3. F = [n \in 0..Len(s) |-> ValueStep(F, s, n)]
  BY <1>2
<1>4. Value(s) = F[Len(s)]
  BY Zenon DEF Value, ValueStep
<1> HIDE DEF F
<1>5. IsValue(F, s, Len(s))
  BY <1>3 DEF IsValue
<1> QED BY <1>4, <1>5

(* The first byte has the lowest digit.                                    *)
LEMMA ValueOfMore ==
  ASSUME NEW b \in Nat, NEW s \in Seq(Nat)
  PROVE  Value(<<b>> \o s) = (b % Radix) + Radix * Value(s)
<1> DEFINE t == <<b>> \o s
           m == Len(s)
<1>1. m \in Nat /\ Len(t) = m + 1 /\ t[1] = b
  OBVIOUS
<1>2. \A n \in 1..m : t[Len(t) + 1 - n] = s[m + 1 - n]
  OBVIOUS
<1> HIDE DEF t, m
<1>3. PICK f : IsValue(f, s, m) /\ Value(s) = f[m]
  BY <1>1, ValueIs DEF m
<1>4. PICK g : IsValue(g, t, m + 1) /\ Value(t) = g[m + 1]
  <2>1. Len(t) \in Nat
    BY <1>1
  <2> QED BY <1>1, <2>1, ValueIs
<1>5. g[m + 1] = (b % Radix) + Radix * g[m]
  <2>1. m + 1 \in 0..(m + 1) /\ m + 1 # 0 /\ (m + 1) - 1 = m /\ Len(t) + 1 - (m + 1) = 1
    BY <1>1
  <2> QED BY <1>1, <1>4, <2>1 DEF IsValue, ValueStep
<1>6. IsValue(g, t, m)
  BY <1>1, <1>4 DEF IsValue
<1>7. g[m] = f[m]
  <2>1. \A n \in 1..m : s[Len(s) + 1 - n] = t[Len(t) + 1 - n]
    BY <1>2 DEF m
  <2>2. Len(s) \in Nat /\ Len(t) \in Nat
    BY <1>1 DEF m
  <2>3. m \in Nat /\ IsValue(f, s, m) /\ IsValue(g, t, m)
    BY <1>1, <1>3, <1>6
  <2> DEFINE Q(x, y) == \A n \in 1..m : x[Len(x) + 1 - n] = y[Len(y) + 1 - n]
  <2>5. Q(s, t)
    BY <2>1
  <2>6. \A x, y : Len(x) \in Nat /\ Len(y) \in Nat /\ Q(x, y) =>
           \A h, k : IsValue(h, x, m) /\ IsValue(k, y, m) => h[m] = k[m]
    BY <2>3, ValuesAgree
  <2> HIDE DEF Q
  <2>4. f[m] = g[m]
    BY <2>2, <2>3, <2>5, <2>6
  <2> QED BY <2>4
<1> QED BY <1>3, <1>4, <1>5, <1>7 DEF t

(* No bytes have no value.                                                 *)
LEMMA ValueOfNone == Value(<<>>) = 0
<1>1. PICK f : IsValue(f, <<>>, Len(<<>>)) /\ Value(<<>>) = f[Len(<<>>)]
  <2>1. Len(<<>>) \in Nat
    OBVIOUS
  <2> QED BY <2>1, ValueIs
<1> QED BY <1>1 DEF IsValue, ValueStep

(* A number is read as it was written: read_var_size_t, were it not to     *)
(* count, gives what write_var_size_t was given.                           *)
THEOREM RoundTrip == \A v \in Nat : Value(VarSize[v]) = v
<1> DEFINE S == {v \in Nat : Value(VarSize[v]) = v}
<1>1. ASSUME NEW v \in Nat, \A w \in 0..(v - 1) : w \in S
      PROVE  v \in S
  <2>1. Radix \in Nat \ {0, 1}
    BY SizesAssumption
  <2>2. VarSize[v] = Code(VarSize, v)
    BY VarSizeDef
  <2>3. CASE v < Radix
    <3>1. VarSize[v] = <<v>> \o <<>>
      BY <2>2, <2>3 DEF Code
    <3>2. Value(VarSize[v]) = (v % Radix) + Radix * 0
      <4>1. <<>> \in Seq(Nat)
        OBVIOUS
      <4> QED BY <3>1, <4>1, ValueOfMore, ValueOfNone
    <3>3. v % Radix = v
      BY <2>1, <2>3
    <3> QED BY <2>1, <3>2, <3>3
  <2>4. CASE v >= Radix
    <3> DEFINE w == v \div Radix
               d == v % Radix
    <3>1. w \in 0..(v - 1) /\ w \in Nat
      BY <2>4, Shorter
    <3>2. v = Radix * w + d /\ d \in 0..(Radix - 1)
      BY <2>1
    <3>3. VarSize[v] = <<Radix + d>> \o VarSize[w]
      BY <2>1, <2>2, <2>4 DEF Code
    <3>4. Value(VarSize[w]) = w
      BY <1>1, <3>1
    <3> HIDE DEF w, d
    <3>5. VarSize[w] \in Seq(Nat)
      BY <3>1, VarSizeShape
    <3>6. Value(VarSize[v]) = ((Radix + d) % Radix) + Radix * w
      <4>1. Radix + d \in Nat
        BY <2>1, <3>2
      <4> QED BY <3>3, <3>4, <3>5, <4>1, ValueOfMore
    <3>7. (Radix + d) % Radix = d
      BY <2>1, <3>2
    <3>8. Radix * w \in Nat /\ d \in Nat
      BY <2>1, <3>1, <3>2
    <3>9. v = d + Radix * w
      BY <3>2, <3>8
    <3> QED BY <3>6, <3>7, <3>9
  <2> QED BY <2>1, <2>3, <2>4
<1> HIDE DEF S
<1>2. S \in SUBSET Nat
  BY DEF S
<1>3. S = Nat
  BY <1>1, <1>2, Induction
<1> QED BY <1>3 DEF S

-----------------------------------------------------------------------------
(* How many bytes a number takes.                                          *)

PowerStep(f, n) == IF n = 0 THEN 1 ELSE Radix * f[n - 1]

(* There are powers up to any exponent.                                    *)
LEMMA PowersExist == \A m \in Nat : \E f : \A n \in 0..m : f[n] = PowerStep(f, n)
<1> DEFINE S == {m \in Nat : \E f : \A n \in 0..m : f[n] = PowerStep(f, n)}
<1>1. ASSUME NEW m \in Nat, \A k \in 0..(m - 1) : k \in S
      PROVE  m \in S
  <2>1. PICK f : m # 0 => \A n \in 0..(m - 1) : f[n] = PowerStep(f, n)
    BY <1>1
  <2> DEFINE g == [n \in 0..m |-> IF n = m THEN PowerStep(f, m) ELSE f[n]]
  <2>2. ASSUME NEW n \in 0..m
        PROVE  g[n] = PowerStep(g, n)
    <3>1. n # 0 => g[n - 1] = f[n - 1]
      OBVIOUS
    <3>2. PowerStep(g, n) = PowerStep(f, n)
      <4> HIDE DEF g
      <4> QED BY <3>1 DEF PowerStep
    <3>3. CASE n = m
      BY <3>2, <3>3
    <3>4. CASE n # m
      <4>1. n \in 0..(m - 1) /\ m # 0
        BY <3>4
      <4> QED BY <2>1, <3>2, <3>4, <4>1
    <3> QED BY <3>3, <3>4
  <2> HIDE DEF g
  <2> QED BY <2>2
<1> HIDE DEF S
<1>2. S \in SUBSET Nat
  BY DEF S
<1>3. S = Nat
  BY <1>1, <1>2, Induction
<1> QED BY <1>3 DEF S

(* Power is what its definition says.                                      *)
LEMMA PowerDef == \A n \in Nat : Power[n] = PowerStep(Power, n)
<1> DEFINE F(m) == CHOOSE f : \A n \in 0..m : f[n] = PowerStep(f, n)
           G == [m \in Nat |-> F(m)[m]]
<1>1. ASSUME NEW m \in Nat
      PROVE  \A n \in 0..m : F(m)[n] = PowerStep(F(m), n)
  BY PowersExist
<1>2. ASSUME NEW m \in Nat
      PROVE  \A n \in Nat : n <= m => F(m)[n] = F(n)[n]
  <2> DEFINE S == {n \in Nat : \A l \in Nat : n <= l => F(l)[n] = F(n)[n]}
  <2> HIDE DEF F
  <2>1. ASSUME NEW n \in Nat, \A k \in 0..(n - 1) : k \in S
        PROVE  n \in S
    <3> SUFFICES ASSUME NEW l \in Nat, n <= l PROVE F(l)[n] = F(n)[n]
      OBVIOUS
    <3>1. F(l)[n] = PowerStep(F(l), n) /\ F(n)[n] = PowerStep(F(n), n)
      BY <1>1
    <3>2. n # 0 => F(l)[n - 1] = F(n)[n - 1]
      <4>1. n # 0 => n - 1 \in 0..(n - 1) /\ n - 1 <= l /\ n - 1 <= n
        OBVIOUS
      <4> QED BY <2>1, <4>1
    <3> QED BY <3>1, <3>2 DEF PowerStep
  <2> HIDE DEF S
  <2>2. S \in SUBSET Nat
    BY DEF S
  <2>3. S = Nat
    BY <2>1, <2>2, Induction
  <2> QED BY <2>3 DEF S
<1>3. ASSUME NEW m \in Nat
      PROVE  G[m] = PowerStep(G, m)
  <2>1. G[m] = F(m)[m]
    OBVIOUS
  <2>2. m # 0 => m - 1 \in Nat /\ m - 1 <= m /\ G[m - 1] = F(m - 1)[m - 1]
    OBVIOUS
  <2> HIDE DEF F, G
  <2>3. F(m)[m] = PowerStep(F(m), m)
    BY <1>1
  <2>4. m # 0 => G[m - 1] = F(m)[m - 1]
    BY <1>2, <2>2
  <2> QED BY <2>1, <2>3, <2>4 DEF PowerStep
<1>4. G = [m \in Nat |-> PowerStep(G, m)]
  <2>1. G = [m \in Nat |-> G[m]]
    OBVIOUS
  <2> HIDE DEF G
  <2> QED BY <1>3, <2>1
<1> HIDE DEF G
<1>5. \E f : f = [m \in Nat |-> PowerStep(f, m)]
  BY <1>4
<1>6. Power = CHOOSE f : f = [m \in Nat |-> PowerStep(f, m)]
  BY Zenon DEF Power, PowerStep
<1>7. Power = [m \in Nat |-> PowerStep(Power, m)]
  BY <1>5, <1>6
<1> QED BY <1>7

(* A number that needs more than n bytes is not below the n-th power.      *)
LEMMA LongIsLarge ==
  \A n \in Nat : n >= 1 => \A v \in Nat : v < Power[n] => Len(VarSize[v]) <= n
<1> DEFINE P(n) == /\ Power[n] \in Nat
                   /\ n >= 1 => \A v \in Nat : v < Power[n] => Len(VarSize[v]) <= n
           S == {n \in Nat : P(n)}
<1>1. ASSUME NEW n \in Nat, \A k \in 0..(n - 1) : k \in S
      PROVE  n \in S
  <2>1. Radix \in Nat \ {0, 1}
    BY SizesAssumption
  <2>2. Power[n] = PowerStep(Power, n)
    BY PowerDef
  <2>3. CASE n = 0
    BY <2>2, <2>3 DEF PowerStep
  <2>4. CASE n # 0
    <3>1. P(n - 1) /\ Power[n] = Radix * Power[n - 1]
      BY <1>1, <2>2, <2>4 DEF PowerStep
    <3>2. Power[n] \in Nat
      BY <2>1, <3>1
    <3>3. ASSUME NEW v \in Nat, v < Power[n]
          PROVE  Len(VarSize[v]) <= n
      <4>1. VarSize[v] = Code(VarSize, v)
        BY VarSizeDef
      <4>2. CASE v < Radix
        <5>1. VarSize[v] = <<v>>
          BY <4>1, <4>2 DEF Code
        <5> QED BY <2>4, <5>1
      <4>3. CASE v >= Radix
        <5> DEFINE w == v \div Radix
        <5>1. w \in Nat /\ VarSize[v] = <<Radix + (v % Radix)>> \o VarSize[w]
          BY <2>1, <4>1, <4>3 DEF Code
        <5>2. Power[n - 1] \in Nat
          BY <3>1
        <5>3. w < Power[n - 1]
          <6>1. v = Radix * w + (v % Radix) /\ v % Radix \in Nat
            BY <2>1
          <6> HIDE DEF w
          <6>2. w >= Power[n - 1] => Radix * w >= Radix * Power[n - 1]
            BY <2>1, <5>1, <5>2
          <6>3. Radix * w \in Nat /\ Radix * Power[n - 1] \in Nat
            BY <2>1, <5>1, <5>2
          <6> QED BY <3>1, <3>3, <5>1, <5>2, <6>1, <6>2, <6>3
        <5>4. w # 0
          <6>1. v = Radix * w + (v % Radix) /\ v % Radix < Radix /\ v % Radix \in Nat
            BY <2>1
          <6> HIDE DEF w
          <6>2. w = 0 => Radix * w = 0
            BY <2>1
          <6> QED BY <2>1, <4>3, <6>1, <6>2
        <5> HIDE DEF w
        <5>5. n - 1 >= 1
          <6>1. n = 1 => Power[n - 1] = 1
            BY PowerDef DEF PowerStep
          <6> QED BY <2>4, <5>1, <5>3, <5>4, <6>1
        <5>6. Len(VarSize[w]) <= n - 1 /\ VarSize[w] \in Seq(Nat)
          BY <3>1, <5>1, <5>3, <5>5, VarSizeShape
        <5> DEFINE u == VarSize[w]
        <5>7. Len(VarSize[v]) = 1 + Len(u) /\ Len(u) \in Nat
          BY <5>1, <5>6
        <5> HIDE DEF u
        <5> QED BY <5>6, <5>7 DEF u
      <4> QED BY <2>1, <4>2, <4>3
    <3> QED BY <3>2, <3>3
  <2> QED BY <2>3, <2>4
<1> HIDE DEF S
<1>2. S \in SUBSET Nat
  BY DEF S
<1>3. S = Nat
  BY <1>1, <1>2, Induction
<1> QED BY <1>3 DEF S

-----------------------------------------------------------------------------
(* Sequences one after the other.                                          *)

FlatStep(f, ss, n) == IF n = 1 THEN ss[n] ELSE f[n - 1] \o ss[n]
IsFlat(f, ss, m)   == \A n \in 1..m : f[n] = FlatStep(f, ss, n)

(* Sequences can be put one after the other.                               *)
LEMMA FlatsExist ==
  ASSUME NEW ss
  PROVE  \A m \in Nat : \E f : IsFlat(f, ss, m)
<1> DEFINE S == {m \in Nat : \E f : IsFlat(f, ss, m)}
<1>1. ASSUME NEW m \in Nat, \A k \in 0..(m - 1) : k \in S
      PROVE  m \in S
  <2>1. PICK f : m # 0 => IsFlat(f, ss, m - 1)
    BY <1>1
  <2> DEFINE g == [n \in 1..m |-> IF n = m THEN FlatStep(f, ss, m) ELSE f[n]]
  <2>2. ASSUME NEW n \in 1..m
        PROVE  g[n] = FlatStep(g, ss, n)
    <3>1. n # 1 => g[n - 1] = f[n - 1]
      OBVIOUS
    <3>2. FlatStep(g, ss, n) = FlatStep(f, ss, n)
      <4> HIDE DEF g
      <4> QED BY <3>1 DEF FlatStep
    <3>3. CASE n = m
      BY <3>2, <3>3
    <3>4. CASE n # m
      <4>1. n \in 1..(m - 1) /\ m # 0
        BY <3>4
      <4>2. f[n] = FlatStep(f, ss, n)
        BY <2>1, <4>1 DEF IsFlat
      <4> QED BY <3>2, <3>4, <4>2
    <3> QED BY <3>3, <3>4
  <2> HIDE DEF g
  <2>3. IsFlat(g, ss, m)
    BY <2>2 DEF IsFlat
  <2> QED BY <2>3
<1> HIDE DEF S
<1>2. S \in SUBSET Nat
  BY DEF S
<1>3. S = Nat
  BY <1>1, <1>2, Induction
<1> QED BY <1>3 DEF S

(* The first m are flattened alike, whatever follows.                      *)
LEMMA FlatsAgree ==
  ASSUME NEW ss, NEW tt, NEW m \in Nat, NEW f, NEW g,
         IsFlat(f, ss, m), IsFlat(g, tt, m), \A n \in 1..m : ss[n] = tt[n]
  PROVE  \A n \in 1..m : f[n] = g[n]
<1> DEFINE S == {n \in Nat : n \in 1..m => f[n] = g[n]}
<1>1. ASSUME NEW n \in Nat, \A k \in 0..(n - 1) : k \in S
      PROVE  n \in S
  <2> SUFFICES ASSUME n \in 1..m PROVE f[n] = g[n]
    OBVIOUS
  <2>1. f[n] = FlatStep(f, ss, n) /\ g[n] = FlatStep(g, tt, n)
    BY DEF IsFlat
  <2>2. n # 1 => f[n - 1] = g[n - 1]
    BY <1>1
  <2> QED BY <2>1, <2>2 DEF FlatStep
<1> HIDE DEF S
<1>2. S \in SUBSET Nat
  BY DEF S
<1>3. S = Nat
  BY <1>1, <1>2, Induction
<1> QED BY <1>3 DEF S

(* FlattenSeq is what any such function has for all of the sequences.      *)
LEMMA FlattenIs ==
  ASSUME NEW ss, NEW f, Len(ss) \in Nat \ {0}, IsFlat(f, ss, Len(ss))
  PROVE  FlattenSeq(ss) = f[Len(ss)]
<1> DEFINE F == CHOOSE h : h = [n \in 1..Len(ss) |-> FlatStep(h, ss, n)]
           g == [n \in 1..Len(ss) |-> f[n]]
<1>1. g = [n \in 1..Len(ss) |-> FlatStep(g, ss, n)]
  <2>1. ASSUME NEW n \in 1..Len(ss)
        PROVE  g[n] = FlatStep(g, ss, n)
    <3>1. g[n] = FlatStep(f, ss, n)
      BY DEF IsFlat
    <3>2. n # 1 => g[n - 1] = f[n - 1]
      OBVIOUS
    <3> HIDE DEF g
    <3> QED BY <3>1, <3>2 DEF FlatStep
  <2>2. g = [n \in 1..Len(ss) |-> g[n]]
    OBVIOUS
  <2> HIDE DEF g
  <2> QED BY <2>1, <2>2
<1> HIDE DEF g
<1>2. F = [n \in 1..Len(ss) |-> FlatStep(F, ss, n)]
  BY <1>1
<1>3. FlattenSeq(ss) = F[Len(ss)]
  <2>1. Len(ss) # 0
    OBVIOUS
  <2> QED BY <2>1, Zenon DEF FlattenSeq, FlatStep
<1> HIDE DEF F
<1>4. IsFlat(F, ss, Len(ss))
  BY <1>2 DEF IsFlat
<1>5. \A n \in 1..Len(ss) : F[n] = f[n]
  BY <1>4, FlatsAgree
<1> QED BY <1>3, <1>5

(* Flattening nothing.                                                     *)
LEMMA FlattenNone == FlattenSeq(<<>>) = <<>>
BY DEF FlattenSeq

(* Flattening one more than before.                                        *)
LEMMA FlattenStep ==
  ASSUME NEW T, NEW ss \in Seq(Seq(T)), NEW k \in 0..(Len(ss) - 1)
  PROVE  FlattenSeq(SubSeq(ss, 1, k + 1)) = FlattenSeq(SubSeq(ss, 1, k)) \o ss[k + 1]
<1> DEFINE one  == SubSeq(ss, 1, k)
           more == SubSeq(ss, 1, k + 1)
<1>1. k \in Nat /\ k + 1 \in Nat /\ Len(one) = k /\ Len(more) = k + 1 /\ more[k + 1] = ss[k + 1]
  OBVIOUS
<1>2. \A n \in 1..k : one[n] = ss[n] /\ more[n] = ss[n]
  OBVIOUS
<1>3. ss[k + 1] \in Seq(T)
  OBVIOUS
<1>4. k = 0 => one = <<>>
  OBVIOUS
<1> HIDE DEF one, more
<1>5. PICK f : IsFlat(f, more, k + 1)
  BY <1>1, FlatsExist
<1>6. FlattenSeq(more) = f[k + 1]
  BY <1>1, <1>5, FlattenIs
<1>7. f[k + 1] = IF k = 0 THEN ss[k + 1] ELSE f[k] \o ss[k + 1]
  <2>1. k + 1 \in 1..(k + 1) /\ (k + 1) - 1 = k /\ (k = 0 <=> k + 1 = 1)
    BY <1>1
  <2> QED BY <1>1, <1>5, <2>1 DEF IsFlat, FlatStep
<1>8. CASE k = 0
  <2>1. FlattenSeq(more) = ss[k + 1]
    BY <1>6, <1>7, <1>8
  <2>2. FlattenSeq(one) = <<>>
    BY <1>4, <1>8, FlattenNone
  <2>3. <<>> \o ss[k + 1] = ss[k + 1]
    BY <1>3
  <2> QED BY <2>1, <2>2, <2>3 DEF one, more
<1>9. CASE k # 0
  <2>1. IsFlat(f, one, k)
    <3>1. ASSUME NEW n \in 1..k
          PROVE  f[n] = FlatStep(f, one, n)
      <4>1. n \in 1..(k + 1)
        BY <1>1
      <4>2. f[n] = FlatStep(f, more, n)
        BY <1>5, <4>1 DEF IsFlat
      <4> QED BY <1>2, <4>2 DEF FlatStep
    <3> QED BY <3>1 DEF IsFlat
  <2>2. FlattenSeq(one) = f[k]
    BY <1>1, <1>9, <2>1, FlattenIs
  <2> QED BY <1>6, <1>7, <1>9, <2>2 DEF one, more
<1> QED BY <1>8, <1>9

(* What is at the beginning of a sequence is at the beginning of a longer  *)
(* one, and what follows it comes right behind.                            *)
LEMMA HoldsConcat ==
  ASSUME NEW T, NEW s \in Seq(T), NEW t \in Seq(T)
  PROVE  /\ s \o t \in Seq(T) /\ Len(s \o t) = Len(s) + Len(t)
         /\ Holds(s \o t, 0, s) /\ Holds(s \o t, Len(s), t)
BY DEF Holds

(* What is in a part of a sequence is in the sequence.                     *)
LEMMA HoldsPart ==
  ASSUME NEW T, NEW s \in Seq(T), NEW t \in Seq(T), NEW u \in Seq(T), NEW i \in Nat, NEW j \in Nat,
         Holds(s, i, t), Holds(t, j, u)
  PROVE  Holds(s, i + j, u)
<1>1. i + j \in Nat /\ i + j + Len(u) <= Len(s)
  BY DEF Holds
<1>2. ASSUME NEW n \in 1..Len(u)
      PROVE  s[i + j + n] = u[n]
  <2>1. t[j + n] = u[n] /\ j + n \in 1..Len(t)
    BY DEF Holds
  <2>2. s[i + (j + n)] = t[j + n]
    BY <2>1 DEF Holds
  <2>3. i + (j + n) = i + j + n
    OBVIOUS
  <2> QED BY <2>1, <2>2, <2>3
<1> QED BY <1>1, <1>2 DEF Holds

(* Where the sequences are when they are put one after the other.          *)
LEMMA Pieces ==
  ASSUME NEW T, NEW ss \in Seq(Seq(T))
  PROVE  /\ FlattenSeq(ss) \in Seq(T)
         /\ Place(ss, 0) = 0 /\ Place(ss, Len(ss)) = Len(FlattenSeq(ss))
         /\ \A k \in 0..Len(ss) : Place(ss, k) \in Nat
         /\ \A k \in 0..(Len(ss) - 1) : /\ Place(ss, k + 1) = Place(ss, k) + Len(ss[k + 1])
                                       /\ Holds(FlattenSeq(ss), Place(ss, k), ss[k + 1])
         /\ \A k \in 0..Len(ss) : Holds(FlattenSeq(ss), 0, FlattenSeq(SubSeq(ss, 1, k)))
<1> DEFINE P(k) == FlattenSeq(SubSeq(ss, 1, k))
           m == Len(ss)
<1>0. m \in Nat /\ P(m) = FlattenSeq(ss) /\ P(0) = <<>> /\ \A k \in 1..m : ss[k] \in Seq(T)
  <2>1. SubSeq(ss, 1, 0) = <<>> /\ SubSeq(ss, 1, Len(ss)) = ss
    OBVIOUS
  <2>2. P(m) = FlattenSeq(ss)
    BY <2>1
  <2>3. P(0) = FlattenSeq(<<>>)
    BY <2>1
  <2>4. Len(ss) \in Nat /\ \A k \in 1..Len(ss) : ss[k] \in Seq(T)
    OBVIOUS
  <2> QED BY <2>2, <2>3, <2>4, FlattenNone
<1>1. \A k \in 0..(m - 1) : P(k + 1) = P(k) \o ss[k + 1]
  BY FlattenStep
<1> HIDE DEF P, m
<1>2. \A k \in 0..m : P(k) \in Seq(T)
  <2> DEFINE S == {k \in Nat : k <= m => P(k) \in Seq(T)}
  <2>1. ASSUME NEW k \in Nat, \A l \in 0..(k - 1) : l \in S
        PROVE  k \in S
    <3> SUFFICES ASSUME k <= m PROVE P(k) \in Seq(T)
      OBVIOUS
    <3>1. CASE k = 0
      <4>1. <<>> \in Seq(T)
        OBVIOUS
      <4> QED BY <1>0, <3>1, <4>1
    <3>2. CASE k # 0
      <4>1. k - 1 \in 0..(k - 1) /\ k - 1 \in 0..(m - 1) /\ k \in 1..m /\ (k - 1) + 1 = k
        BY <1>0, <3>2
      <4>2. P(k - 1) \in Seq(T)
        <5>1. k - 1 \in S /\ k - 1 <= m
          BY <1>0, <2>1, <4>1
        <5> QED BY <5>1
      <4>3. P(k) = P(k - 1) \o ss[k]
        BY <1>1, <4>1
      <4>4. ss[k] \in Seq(T)
        BY <1>0, <4>1
      <4> QED BY <4>2, <4>3, <4>4
    <3> QED BY <3>1, <3>2
  <2> HIDE DEF S
  <2>2. S \in SUBSET Nat
    BY DEF S
  <2>3. S = Nat
    BY <2>1, <2>2, Induction
  <2> QED BY <1>0, <2>3 DEF S
<1>3. \A k \in 0..m : Holds(P(m), 0, P(k))
  <2> DEFINE S == {l \in Nat : l <= m => Holds(P(m), 0, P(m - l))}
  <2>1. ASSUME NEW l \in Nat, \A k \in 0..(l - 1) : k \in S
        PROVE  l \in S
    <3> SUFFICES ASSUME l <= m PROVE Holds(P(m), 0, P(m - l))
      OBVIOUS
    <3>1. CASE l = 0
      <4>1. P(m) \in Seq(T) /\ m - l = m
        BY <1>0, <1>2, <3>1
      <4> QED BY <4>1 DEF Holds
    <3>2. CASE l # 0
      <4>1. l - 1 \in 0..(l - 1) /\ l - 1 <= m /\ m - (l - 1) = (m - l) + 1 /\ m - l \in 0..(m - 1)
        BY <1>0, <3>2
      <4>2. Holds(P(m), 0, P((m - l) + 1))
        BY <2>1, <4>1
      <4>3. P((m - l) + 1) = P(m - l) \o ss[(m - l) + 1]
        BY <1>1, <4>1
      <4>4. P(m) \in Seq(T) /\ P(m - l) \in Seq(T) /\ P((m - l) + 1) \in Seq(T) /\ ss[(m - l) + 1] \in Seq(T)
        BY <1>0, <1>2, <4>1
      <4>5. Holds(P((m - l) + 1), 0, P(m - l))
        <5>1. Holds(P(m - l) \o ss[(m - l) + 1], 0, P(m - l))
          BY <4>4, HoldsConcat
        <5> QED BY <4>3, <5>1
      <4>6. Holds(P(m), 0 + 0, P(m - l))
        <5>1. 0 \in Nat
          OBVIOUS
        <5> QED BY <4>2, <4>4, <4>5, <5>1, HoldsPart
      <4> QED BY <4>6
    <3> QED BY <3>1, <3>2
  <2> HIDE DEF S
  <2>2. S \in SUBSET Nat
    BY DEF S
  <2>3. S = Nat
    BY <2>1, <2>2, Induction
  <2>4. ASSUME NEW k \in 0..m
        PROVE  Holds(P(m), 0, P(k))
    <3>1. m - k \in Nat /\ m - k <= m /\ m - (m - k) = k
      BY <1>0
    <3>2. m - k \in S
      BY <2>3, <3>1
    <3> QED BY <3>1, <3>2 DEF S
  <2> QED BY <2>4
<1>4. ASSUME NEW k \in 0..(m - 1)
      PROVE  Len(P(k + 1)) = Len(P(k)) + Len(ss[k + 1]) /\ Holds(P(m), Len(P(k)), ss[k + 1])
  <2>1. k \in 0..m /\ k + 1 \in 0..m /\ k + 1 \in 1..m /\ m \in 0..m
    BY <1>0
  <2>2. P(k) \in Seq(T) /\ P(k + 1) \in Seq(T) /\ ss[k + 1] \in Seq(T) /\ P(m) \in Seq(T)
    BY <1>0, <1>2, <2>1
  <2>3. P(k + 1) = P(k) \o ss[k + 1]
    BY <1>1
  <2>4. Holds(P(m), 0, P(k + 1))
    BY <1>3, <2>1
  <2>5. Holds(P(k + 1), Len(P(k)), ss[k + 1]) /\ Len(P(k + 1)) = Len(P(k)) + Len(ss[k + 1])
    BY <2>2, <2>3, HoldsConcat
  <2>6. Len(P(k)) \in Nat /\ 0 \in Nat /\ 0 + Len(P(k)) = Len(P(k))
    BY <2>2
  <2>7. Holds(P(m), 0 + Len(P(k)), ss[k + 1])
    BY <2>2, <2>4, <2>5, <2>6, HoldsPart
  <2> QED BY <2>5, <2>6, <2>7
<1>5. \A k \in 0..m : Len(P(k)) \in Nat
  BY <1>2
<1>6. \A k \in 0..m : Place(ss, k) = Len(P(k))
  BY DEF P, Place
<1>7. m \in 0..m /\ 0 \in 0..m /\ Len(P(0)) = 0
  BY <1>0
<1>8. \A k \in 0..(m - 1) : k \in 0..m /\ k + 1 \in 0..m
  BY <1>0
<1>9. \A k \in 0..Len(ss) : Holds(FlattenSeq(ss), 0, FlattenSeq(SubSeq(ss, 1, k)))
  BY <1>0, <1>3 DEF P, m
<1> QED BY <1>0, <1>2, <1>4, <1>5, <1>6, <1>7, <1>8, <1>9 DEF m

(* Everything is in front of the end.                                      *)
LEMMA PiecesEnd ==
  ASSUME NEW T, NEW ss \in Seq(Seq(T)), NEW k \in 0..(Len(ss) - 1)
  PROVE  Place(ss, k) + Len(ss[k + 1]) <= Len(FlattenSeq(ss))
<1>1. Holds(FlattenSeq(ss), Place(ss, k), ss[k + 1])
  BY Pieces
<1> QED BY <1>1 DEF Holds

-----------------------------------------------------------------------------
(* The parts of an entry, and where they are.                              *)

IsEntry(e) ==
  /\ e \in [kind : {"root_entity_name", "entity_name", "file_update"}, ids : Seq(Nat), bytes : Seq(Nat)]
  /\ e.kind = "root_entity_name" => e.ids = <<>>
  /\ e.kind = "entity_name" => Len(e.ids) = 1
  /\ e.kind = "file_update" => Len(e.ids) >= 1 /\ Len(e.bytes) = 2 * ScalarSize

(* Logs have entries of the three kinds, and name what was named before.   *)
LEMMA LogTyped ==
  ASSUME NEW log \in Logs
  PROVE  /\ log \in Seq([kind : DOMAIN TypeByte, ids : Seq(Nat), bytes : Seq(Nat)])
         /\ Len(log) \in Nat /\ DOMAIN log = 1..Len(log)
         /\ \A k \in 1..Len(log) :
              /\ IsEntry(log[k])
              /\ \A n \in 1..Len(log[k].ids) : log[k].ids[n] < EntityCount(SubSeq(log, 1, k - 1))
<1>1. WellFormed(log)
  BY LogsAssumption
<1>2. log \in Seq([kind : DOMAIN TypeByte, ids : Seq(Nat), bytes : Seq(Nat)])
  BY <1>1 DEF WellFormed
<1> DEFINE E == [kind : DOMAIN TypeByte, ids : Seq(Nat), bytes : Seq(Nat)]
<1>5. Len(log) \in Nat /\ DOMAIN log = 1..Len(log) /\ \A n \in 1..Len(log) : log[n] \in E
  <2> HIDE DEF E
  <2> QED BY <1>2, SeqFacts DEF E
<1>3. DOMAIN TypeByte = {"root_entity_name", "entity_name", "file_update"}
  BY DEF TypeByte
<1>4. ASSUME NEW k \in 1..Len(log)
      PROVE  /\ IsEntry(log[k])
             /\ \A n \in 1..Len(log[k].ids) : log[k].ids[n] < EntityCount(SubSeq(log, 1, k - 1))
  <2>1. k \in DOMAIN log /\ log[k] \in [kind : DOMAIN TypeByte, ids : Seq(Nat), bytes : Seq(Nat)]
    BY <1>5
  <2>2. /\ log[k].kind = "root_entity_name" => log[k].ids = <<>>
        /\ log[k].kind = "entity_name" => Len(log[k].ids) = 1
        /\ log[k].kind = "file_update" => log[k].ids # <<>> /\ Len(log[k].bytes) = 2 * ScalarSize
    BY <1>1, <2>1 DEF WellFormed
  <2>3. \A n \in DOMAIN log[k].ids : log[k].ids[n] < EntityCount(SubSeq(log, 1, k - 1))
    BY <1>1, <2>1 DEF WellFormed
  <2>4. log[k].ids \in Seq(Nat)
    BY <2>1
  <2>5. DOMAIN log[k].ids = 1..Len(log[k].ids) /\ (log[k].ids # <<>> => Len(log[k].ids) >= 1)
    BY <2>4
  <2> QED BY <1>3, <2>1, <2>2, <2>3, <2>5 DEF IsEntry
<1> QED BY <1>2, <1>4, <1>5

PartsOfName(e) ==
  /\ e.kind = "root_entity_name" =>
       /\ Len(EntryParts(e)) = 2
       /\ EntryParts(e)[1] = VarSize[Len(e.bytes)] /\ EntryParts(e)[2] = e.bytes
  /\ e.kind = "entity_name" =>
       /\ Len(EntryParts(e)) = 3 /\ EntryParts(e)[1] = VarSize[e.ids[1]]
       /\ EntryParts(e)[2] = VarSize[Len(e.bytes)] /\ EntryParts(e)[3] = e.bytes

PartsOfUpdate(e) ==
  e.kind = "file_update" =>
    /\ Len(EntryParts(e)) = Len(e.ids) + 3
    /\ EntryParts(e)[1] = SubSeq(e.bytes, 1, ScalarSize)
    /\ EntryParts(e)[2] = SubSeq(e.bytes, ScalarSize + 1, 2 * ScalarSize)
    /\ EntryParts(e)[3] = VarSize[e.ids[1]] /\ EntryParts(e)[4] = VarSize[Len(e.ids) - 1]
    /\ \A n \in 5..(Len(e.ids) + 3) : EntryParts(e)[n] = VarSize[e.ids[n - 3]]

(* The parts one by one.                                                   *)
LEMMA PartsAre ==
  ASSUME NEW e, IsEntry(e)
  PROVE  EntryParts(e) \in Seq(Seq(Nat)) /\ PartsOfName(e) /\ PartsOfUpdate(e)
<1>1. /\ e.ids \in Seq(Nat) /\ e.bytes \in Seq(Nat) /\ Len(e.bytes) \in Nat /\ Len(e.ids) \in Nat
      /\ \A n \in 1..Len(e.ids) : e.ids[n] \in Nat
  BY DEF IsEntry
<1>2. \A v \in Nat : VarSize[v] \in Seq(Nat)
  BY VarSizeShape
<1>3. CASE e.kind = "file_update"
  <2> DEFINE deps == [k \in 1..(Len(e.ids) - 1) |-> VarSize[e.ids[k + 1]]]
             one == SubSeq(e.bytes, 1, ScalarSize)
             two == SubSeq(e.bytes, ScalarSize + 1, 2 * ScalarSize)
             a == VarSize[e.ids[1]]
             b == VarSize[Len(e.ids) - 1]
             front == <<one, two, a, b>>
  <2>1. Len(e.ids) >= 1 /\ Len(e.ids) - 1 \in Nat /\ Head(e.ids) = e.ids[1]
    BY <1>1, <1>3 DEF IsEntry
  <2>2. deps \in Seq(Seq(Nat)) /\ Len(deps) = Len(e.ids) - 1
    <3>1. \A k \in 1..(Len(e.ids) - 1) : VarSize[e.ids[k + 1]] \in Seq(Nat)
      BY <1>1, <1>2
    <3> QED BY <2>1, <3>1
  <2>3. one \in Seq(Nat) /\ two \in Seq(Nat)
    <3>1. ScalarSize \in Nat /\ Len(e.bytes) = 2 * ScalarSize
      BY <1>3, SizesAssumption DEF IsEntry
    <3> QED BY <1>1, <3>1
  <2>4. a \in Seq(Nat) /\ b \in Seq(Nat)
    <3>1. e.ids[1] \in Nat
      BY <1>1, <2>1
    <3> QED BY <1>2, <2>1, <3>1
  <2>5. EntryParts(e) = front \o deps
    BY <1>3, <2>1 DEF EntryParts
  <2>6. \A k \in 1..(Len(e.ids) - 1) : deps[k] = VarSize[e.ids[k + 1]]
    OBVIOUS
  <2> HIDE DEF one, two, a, b, deps
  <2>7. front \in Seq(Seq(Nat)) /\ Len(front) = 4
    BY <2>3, <2>4
  <2>8. /\ front \o deps \in Seq(Seq(Nat)) /\ Len(front \o deps) = 4 + Len(deps)
        /\ \A n \in 1..4 : (front \o deps)[n] = front[n]
        /\ \A n \in 5..(4 + Len(deps)) : (front \o deps)[n] = deps[n - 4]
    <3> HIDE DEF front
    <3>1. /\ Len(front \o deps) = Len(front) + Len(deps) /\ front \o deps \in Seq(Seq(Nat))
          /\ \A n \in 1..Len(front) : (front \o deps)[n] = front[n]
          /\ \A n \in (Len(front) + 1)..(Len(front) + Len(deps)) : (front \o deps)[n] = deps[n - Len(front)]
      BY <2>2, <2>7, ConcatFacts
    <3>2. Len(front) + 1 = 5
      BY <2>7
    <3> QED BY <2>7, <3>1, <3>2
  <2>9. front[1] = one /\ front[2] = two /\ front[3] = a /\ front[4] = b
    OBVIOUS
  <2> HIDE DEF front
  <2>10. ASSUME NEW n \in 5..(Len(e.ids) + 3)
         PROVE  EntryParts(e)[n] = VarSize[e.ids[n - 3]]
    <3>1. Len(e.ids) \in Nat
      BY <1>1
    <3>2. n \in 5..(4 + Len(deps)) /\ n - 4 \in 1..(Len(e.ids) - 1) /\ (n - 4) + 1 = n - 3
      BY <2>1, <2>2, <3>1
    <3>3. (front \o deps)[n] = deps[n - 4]
      BY <2>8, <3>2
    <3>4. deps[n - 4] = VarSize[e.ids[(n - 4) + 1]]
      BY <2>6, <3>2
    <3> QED BY <2>5, <3>2, <3>3, <3>4
  <2>11. Len(EntryParts(e)) = Len(e.ids) + 3
    BY <2>1, <2>2, <2>5, <2>8
  <2>12. /\ EntryParts(e)[1] = one /\ EntryParts(e)[2] = two
         /\ EntryParts(e)[3] = a /\ EntryParts(e)[4] = b
    BY <2>5, <2>8, <2>9
  <2>13. PartsOfUpdate(e)
    BY <2>10, <2>11, <2>12 DEF PartsOfUpdate, one, two, a, b
  <2>14. PartsOfName(e)
    BY <1>3 DEF PartsOfName
  <2> QED BY <2>5, <2>8, <2>13, <2>14
<1>4. CASE e.kind = "root_entity_name"
  <2>1. e.ids = <<>>
    BY <1>4 DEF IsEntry
  <2> DEFINE a == VarSize[Len(e.bytes)]
             names == [k \in DOMAIN e.ids |-> VarSize[e.ids[k]]]
  <2>2. a \in Seq(Nat)
    BY <1>1, <1>2
  <2>3. EntryParts(e) = names \o <<a, e.bytes>>
    BY <1>4 DEF EntryParts
  <2>4. names = <<>>
    BY <2>1
  <2> HIDE DEF a, names
  <2>5. EntryParts(e) = <<a, e.bytes>>
    BY <2>3, <2>4, <1>1, <2>2
  <2>6. EntryParts(e) \in Seq(Seq(Nat)) /\ Len(EntryParts(e)) = 2
    BY <1>1, <2>2, <2>5
  <2>7. EntryParts(e)[1] = a /\ EntryParts(e)[2] = e.bytes
    BY <2>5
  <2> QED BY <1>4, <2>6, <2>7 DEF PartsOfName, PartsOfUpdate, a
<1>5. CASE e.kind = "entity_name"
  <2>1. Len(e.ids) = 1
    BY <1>5 DEF IsEntry
  <2> DEFINE a == VarSize[Len(e.bytes)]
             b == VarSize[e.ids[1]]
             names == [k \in DOMAIN e.ids |-> VarSize[e.ids[k]]]
  <2>2. a \in Seq(Nat) /\ b \in Seq(Nat)
    BY <1>1, <1>2, <2>1
  <2>3. EntryParts(e) = names \o <<a, e.bytes>>
    BY <1>5 DEF EntryParts
  <2>4. names = <<b>>
    <3>1. DOMAIN e.ids = 1..1
      BY <1>1, <2>1
    <3>2. names = [k \in 1..1 |-> b]
      BY <3>1
    <3> HIDE DEF b, names
    <3>3. <<b>> = [k \in 1..1 |-> b]
      OBVIOUS
    <3> QED BY <3>2, <3>3
  <2> HIDE DEF a, b, names
  <2>5. EntryParts(e) = <<b, a, e.bytes>>
    <3>1. <<b>> \o <<a, e.bytes>> = <<b, a, e.bytes>>
      <4> DEFINE B == e.bytes
      <4>1. B \in Seq(Nat)
        BY <1>1
      <4> HIDE DEF B
      <4>2. <<b>> \in Seq(Seq(Nat)) /\ <<a, B>> \in Seq(Seq(Nat)) /\ <<b, a, B>> \in Seq(Seq(Nat))
        BY <2>2, <4>1
      <4>3. /\ Len(<<b>> \o <<a, B>>) = 3 /\ <<b>> \o <<a, B>> \in Seq(Seq(Nat))
            /\ (<<b>> \o <<a, B>>)[1] = b /\ (<<b>> \o <<a, B>>)[2] = a /\ (<<b>> \o <<a, B>>)[3] = B
        <5> DEFINE x == <<b>>
                   y == <<a, B>>
        <5>1. Len(x) = 1 /\ Len(y) = 2 /\ x[1] = b /\ y[1] = a /\ y[2] = B
          OBVIOUS
        <5>2. x \in Seq(Seq(Nat)) /\ y \in Seq(Seq(Nat))
          BY <4>2
        <5> HIDE DEF x, y
        <5>3. /\ x \o y \in Seq(Seq(Nat)) /\ Len(x \o y) = Len(x) + Len(y)
              /\ \A n \in 1..Len(x) : (x \o y)[n] = x[n]
              /\ \A n \in (Len(x) + 1)..(Len(x) + Len(y)) : (x \o y)[n] = y[n - Len(x)]
          BY <5>2, ConcatFacts
        <5>4. (x \o y)[1] = x[1] /\ (x \o y)[2] = y[2 - 1] /\ (x \o y)[3] = y[3 - 1]
          BY <5>1, <5>3
        <5>5. Len(x \o y) = 3 /\ (x \o y)[1] = b /\ (x \o y)[2] = a /\ (x \o y)[3] = B
          BY <5>1, <5>3, <5>4
        <5> QED BY <5>3, <5>5 DEF x, y
      <4>4. \A n \in 1..3 : (<<b>> \o <<a, B>>)[n] = <<b, a, B>>[n]
        BY <4>3
      <4>5. <<b>> \o <<a, B>> = <<b, a, B>>
        <5> DEFINE s == <<b>> \o <<a, B>>
                   t == <<b, a, B>>
        <5>1. Len(t) = 3
          OBVIOUS
        <5>2. s \in Seq(Seq(Nat)) /\ t \in Seq(Seq(Nat)) /\ Len(s) = Len(t) /\ \A n \in 1..Len(s) : s[n] = t[n]
          BY <4>2, <4>3, <4>4, <5>1
        <5> HIDE DEF s, t
        <5>3. s = t
          BY <5>2, SeqEqual
        <5> QED BY <5>3 DEF s, t
      <4> QED BY <4>5 DEF B
    <3> QED BY <2>3, <2>4, <3>1
  <2>6. EntryParts(e) \in Seq(Seq(Nat)) /\ Len(EntryParts(e)) = 3
    BY <1>1, <2>2, <2>5
  <2>7. EntryParts(e)[1] = b /\ EntryParts(e)[2] = a /\ EntryParts(e)[3] = e.bytes
    BY <2>5
  <2> QED BY <1>5, <2>6, <2>7 DEF PartsOfName, PartsOfUpdate, a, b
<1> QED BY <1>3, <1>4, <1>5 DEF IsEntry

PlacesOf(log, k) ==
  LET e == log[k + 1]
  IN  /\ EntryPlace(log, k) \in Nat
      /\ EntryPlace(log, k + 1) = EntryPlace(log, k) + 1 + Len(FlattenSeq(EntryParts(e)))
      /\ Holds(LogBytes(log), EntryPlace(log, k), <<TypeByte[e.kind]>>)
      /\ Holds(LogBytes(log), EntryPlace(log, k) + 1, FlattenSeq(EntryParts(e)))

(* Where the entries of a log are.                                         *)
LEMMA EntryPlaces ==
  ASSUME NEW log \in Logs
  PROVE  /\ LogBytes(log) \in Seq(Nat) /\ LogBytes(log)[1] = VersionByte /\ Len(LogBytes(log)) >= 1
         /\ EntryPlace(log, 0) = 1 /\ EntryPlace(log, Len(log)) = Len(LogBytes(log))
         /\ \A k \in 0..Len(log) : EntryPlace(log, k) \in Nat /\ LogBytes(SubSeq(log, 1, k)) \in Seq(Nat)
         /\ \A k \in 0..(Len(log) - 1) : PlacesOf(log, k)
         /\ \A k \in 0..Len(log) : Holds(LogBytes(log), 0, LogBytes(SubSeq(log, 1, k)))
<1> DEFINE bb == [k \in DOMAIN log |-> EntryBytes(log[k])]
           v == <<VersionByte>>
           E == [kind : DOMAIN TypeByte, ids : Seq(Nat), bytes : Seq(Nat)]
<1>1. /\ Len(log) \in Nat /\ DOMAIN log = 1..Len(log) /\ \A k \in 1..Len(log) : IsEntry(log[k])
      /\ log \in Seq(E)
  BY LogTyped
<1> HIDE DEF E
<1>2. ASSUME NEW k \in 1..Len(log)
      PROVE  LET t == <<TypeByte[log[k].kind]>>
                 f == FlattenSeq(EntryParts(log[k]))
             IN  /\ EntryBytes(log[k]) = t \o f /\ t \in Seq(Nat) /\ f \in Seq(Nat) /\ Len(t) = 1
                 /\ Holds(EntryBytes(log[k]), 0, t) /\ Holds(EntryBytes(log[k]), 1, f)
                 /\ EntryBytes(log[k]) \in Seq(Nat) /\ Len(EntryBytes(log[k])) = 1 + Len(f)
  <2> DEFINE t == <<TypeByte[log[k].kind]>>
             f == FlattenSeq(EntryParts(log[k]))
  <2>1. f \in Seq(Nat)
    BY <1>1, PartsAre, Pieces
  <2>2. t \in Seq(Nat) /\ Len(t) = 1
    BY <1>1 DEF IsEntry, TypeByte
  <2>3. EntryBytes(log[k]) = t \o f
    BY DEF EntryBytes
  <2> HIDE DEF t, f
  <2>4. Holds(t \o f, 0, t) /\ Holds(t \o f, Len(t), f) /\ t \o f \in Seq(Nat) /\ Len(t \o f) = Len(t) + Len(f)
    BY <2>1, <2>2, HoldsConcat
  <2> QED BY <2>1, <2>2, <2>3, <2>4 DEF t, f
<1>3. bb \in Seq(Seq(Nat)) /\ Len(bb) = Len(log) /\ \A k \in 1..Len(log) : bb[k] = EntryBytes(log[k])
  <2>1. \A k \in 1..Len(log) : EntryBytes(log[k]) \in Seq(Nat)
    BY <1>2
  <2> QED BY <1>1, <2>1
<1>4. v \in Seq(Nat) /\ Len(v) = 1 /\ v[1] = VersionByte
  BY DEF VersionByte
<1>5. LogBytes(log) = v \o FlattenSeq(bb)
  BY DEF LogBytes
<1>6. ASSUME NEW k \in 0..Len(log)
      PROVE  LogBytes(SubSeq(log, 1, k)) = v \o FlattenSeq(SubSeq(bb, 1, k))
  <2> DEFINE l == SubSeq(log, 1, k)
  <2>1. k \in Nat /\ Len(l) = k /\ DOMAIN l = 1..k /\ \A n \in 1..k : l[n] = log[n]
    BY <1>1
  <2>2. SubSeq(bb, 1, k) = [n \in 1..k |-> bb[n]]
    BY <1>1, <1>3
  <2>3. \A n \in 1..k : bb[n] = EntryBytes(l[n])
    BY <1>1, <1>3, <2>1
  <2> HIDE DEF l, bb
  <2>4. SubSeq(bb, 1, k) = [n \in DOMAIN l |-> EntryBytes(l[n])]
    BY <2>1, <2>2, <2>3
  <2> QED BY <2>4 DEF LogBytes, l
<1> HIDE DEF bb, v
<1> DEFINE F == FlattenSeq(bb)
           At(k) == FlattenSeq(SubSeq(bb, 1, k))
<1>7. /\ F \in Seq(Nat) /\ Place(bb, 0) = 0 /\ Place(bb, Len(log)) = Len(F)
      /\ \A k \in 0..Len(log) : Place(bb, k) \in Nat
      /\ \A k \in 0..(Len(log) - 1) : Place(bb, k + 1) = Place(bb, k) + Len(bb[k + 1])
                                      /\ Holds(F, Place(bb, k), bb[k + 1])
      /\ \A k \in 0..Len(log) : Holds(F, 0, At(k))
  BY <1>3, Pieces
<1>8. ASSUME NEW k \in 0..Len(log)
      PROVE  At(k) \in Seq(Nat) /\ Len(At(k)) = Place(bb, k)
  <2>1. SubSeq(bb, 1, k) \in Seq(Seq(Nat))
    BY <1>1, <1>3
  <2> QED BY <2>1, Pieces DEF Place
<1> HIDE DEF F, At
<1>9. ASSUME NEW k \in 0..Len(log)
      PROVE  EntryPlace(log, k) = 1 + Place(bb, k) /\ LogBytes(SubSeq(log, 1, k)) \in Seq(Nat)
  <2>1. LogBytes(SubSeq(log, 1, k)) = v \o At(k)
    BY <1>6 DEF At
  <2>2. v \o At(k) \in Seq(Nat) /\ Len(v \o At(k)) = 1 + Len(At(k))
    <3>1. v \in Seq(Nat) /\ At(k) \in Seq(Nat)
      BY <1>4, <1>8
    <3>2. v \o At(k) \in Seq(Nat) /\ Len(v \o At(k)) = Len(v) + Len(At(k))
      BY <3>1, ConcatFacts
    <3> QED BY <1>4, <3>2
  <2> QED BY <1>8, <2>1, <2>2 DEF EntryPlace
<1>10. /\ LogBytes(log) \in Seq(Nat) /\ Len(LogBytes(log)) = 1 + Len(F) /\ LogBytes(log)[1] = VersionByte
       /\ Holds(LogBytes(log), 1, F)
  <2>1. LogBytes(log) = v \o F
    BY <1>5 DEF F
  <2>2. v \o F \in Seq(Nat) /\ Len(v \o F) = 1 + Len(F) /\ (v \o F)[1] = v[1]
    <3>1. F \in Seq(Nat)
      BY <1>7
    <3>2. v \in Seq(Nat) /\ 1 \in 1..Len(v)
      BY <1>4
    <3>3. /\ v \o F \in Seq(Nat) /\ Len(v \o F) = Len(v) + Len(F)
          /\ \A n \in 1..Len(v) : (v \o F)[n] = v[n]
      BY <3>1, <3>2, ConcatFacts
    <3> QED BY <1>4, <3>2, <3>3
  <2>3. Holds(v \o F, Len(v), F)
    BY <1>4, <1>7, HoldsConcat
  <2> QED BY <1>4, <2>1, <2>2, <2>3
<1>11. ASSUME NEW k \in 0..(Len(log) - 1)
       PROVE  PlacesOf(log, k)
  <2> DEFINE e == log[k + 1]
             t == <<TypeByte[e.kind]>>
             f == FlattenSeq(EntryParts(e))
             i == EntryPlace(log, k)
  <2>1. k \in 0..Len(log) /\ k + 1 \in 0..Len(log) /\ k + 1 \in 1..Len(log)
    BY <1>1
  <2>2. i = 1 + Place(bb, k) /\ EntryPlace(log, k + 1) = 1 + Place(bb, k + 1)
    BY <1>9, <2>1
  <2>3. Place(bb, k) \in Nat /\ Place(bb, k + 1) = Place(bb, k) + Len(bb[k + 1])
    BY <1>7, <2>1
  <2>4. /\ bb[k + 1] = EntryBytes(e) /\ t \in Seq(Nat) /\ f \in Seq(Nat)
        /\ Holds(EntryBytes(e), 0, t) /\ Holds(EntryBytes(e), 1, f)
        /\ EntryBytes(e) \in Seq(Nat) /\ Len(EntryBytes(e)) = 1 + Len(f)
    BY <1>2, <1>3, <2>1
  <2>5. Holds(F, Place(bb, k), bb[k + 1])
    BY <1>7
  <2> HIDE DEF e, t, f, i
  <2>6. Holds(LogBytes(log), 1 + Place(bb, k), EntryBytes(e))
    BY <1>7, <1>10, <2>3, <2>4, <2>5, HoldsPart
  <2>7. i \in Nat /\ Holds(LogBytes(log), i, EntryBytes(e))
    BY <2>2, <2>3, <2>6
  <2>8. Holds(LogBytes(log), i + 0, t)
    <3>1. 0 \in Nat
      OBVIOUS
    <3> QED BY <1>10, <2>4, <2>7, <3>1, HoldsPart
  <2>9. Holds(LogBytes(log), i + 1, f)
    <3>1. 1 \in Nat
      OBVIOUS
    <3> QED BY <1>10, <2>4, <2>7, <3>1, HoldsPart
  <2>10. Len(f) \in Nat /\ i + 0 = i
    BY <2>4, <2>7
  <2>11. EntryPlace(log, k + 1) = i + 1 + Len(f)
    BY <2>2, <2>3, <2>4, <2>10
  <2>12. Holds(LogBytes(log), i, t)
    BY <2>8, <2>10
  <2> QED BY <2>7, <2>9, <2>11, <2>12 DEF PlacesOf, e, t, f, i
<1>12. 0 \in 0..Len(log) /\ Len(log) \in 0..Len(log) /\ Len(F) \in Nat
  BY <1>1, <1>7
<1>13. EntryPlace(log, 0) = 1 /\ EntryPlace(log, Len(log)) = 1 + Len(F)
  <2>1. EntryPlace(log, 0) = 1 + Place(bb, 0) /\ EntryPlace(log, Len(log)) = 1 + Place(bb, Len(log))
    BY <1>9, <1>12
  <2> QED BY <1>7, <1>12, <2>1
<1>14. \A k \in 0..Len(log) : EntryPlace(log, k) \in Nat
  BY <1>7, <1>9
<1>15. ASSUME NEW k \in 0..Len(log)
       PROVE  Holds(LogBytes(log), 0, LogBytes(SubSeq(log, 1, k)))
  <2> DEFINE t == v \o At(k)
             u == v \o F
  <2>1. LogBytes(SubSeq(log, 1, k)) = t /\ LogBytes(log) = u
    BY <1>5, <1>6 DEF At, F
  <2>2. At(k) \in Seq(Nat) /\ F \in Seq(Nat) /\ v \in Seq(Nat) /\ Holds(F, 0, At(k)) /\ Len(v) = 1
    BY <1>4, <1>7, <1>8
  <2>3. /\ t \in Seq(Nat) /\ Len(t) = Len(v) + Len(At(k)) /\ \A n \in 1..Len(v) : t[n] = v[n]
        /\ \A n \in (Len(v) + 1)..(Len(v) + Len(At(k))) : t[n] = At(k)[n - Len(v)]
    <3> DEFINE a == At(k)
    <3>1. v \in Seq(Nat) /\ a \in Seq(Nat)
      BY <2>2
    <3> HIDE DEF a
    <3>2. /\ v \o a \in Seq(Nat) /\ Len(v \o a) = Len(v) + Len(a) /\ \A n \in 1..Len(v) : (v \o a)[n] = v[n]
          /\ \A n \in (Len(v) + 1)..(Len(v) + Len(a)) : (v \o a)[n] = a[n - Len(v)]
      BY <3>1, ConcatFacts
    <3> QED BY <3>2 DEF a
  <2>4. /\ u \in Seq(Nat) /\ Len(u) = Len(v) + Len(F) /\ \A n \in 1..Len(v) : u[n] = v[n]
        /\ \A n \in (Len(v) + 1)..(Len(v) + Len(F)) : u[n] = F[n - Len(v)]
    BY <2>2, ConcatFacts
  <2> HIDE DEF t, u
  <2>5. Len(At(k)) \in Nat /\ Len(F) \in Nat /\ Len(At(k)) <= Len(F) /\ \A n \in 1..Len(At(k)) : F[n] = At(k)[n]
    <3>1. Len(At(k)) \in Nat /\ Len(F) \in Nat
      BY <2>2
    <3>2. 0 + Len(At(k)) <= Len(F) /\ \A n \in 1..Len(At(k)) : F[0 + n] = At(k)[n]
      BY <2>2 DEF Holds
    <3>3. \A n \in 1..Len(At(k)) : 0 + n = n
      OBVIOUS
    <3>4. 0 + Len(At(k)) = Len(At(k))
      BY <3>1
    <3> QED BY <3>1, <3>2, <3>3, <3>4
  <2>6. ASSUME NEW n \in 1..Len(t)
        PROVE  u[n] = t[n]
    <3>1. CASE n = 1
      <4>1. 1 \in 1..Len(v)
        BY <2>2
      <4> QED BY <2>3, <2>4, <3>1, <4>1
    <3>2. CASE n # 1
      <4>1. n \in 2..(1 + Len(At(k))) /\ n \in 2..(1 + Len(F)) /\ n - 1 \in 1..Len(At(k))
        BY <2>2, <2>3, <2>5, <3>2
      <4>2. t[n] = At(k)[n - 1] /\ u[n] = F[n - 1]
        <5>1. n \in (Len(v) + 1)..(Len(v) + Len(At(k))) /\ n \in (Len(v) + 1)..(Len(v) + Len(F)) /\ Len(v) = 1
          BY <2>2, <2>5, <4>1
        <5>2. t[n] = At(k)[n - Len(v)]
          BY <2>3, <5>1
        <5>3. u[n] = F[n - Len(v)]
          BY <2>4, <5>1
        <5> QED BY <5>1, <5>2, <5>3
      <4> QED BY <2>5, <4>1, <4>2
    <3> QED BY <3>1, <3>2
  <2>7. 0 + Len(t) <= Len(u) /\ \A n \in 1..Len(t) : 0 + n = n
    BY <2>2, <2>3, <2>4, <2>5
  <2>8. Holds(u, 0, t)
    BY <2>6, <2>7 DEF Holds
  <2> QED BY <2>1, <2>8
<1> QED BY <1>9, <1>10, <1>11, <1>12, <1>13, <1>14, <1>15

(* Where the parts of an entry are.                                        *)
LEMMA PartPlaces ==
  ASSUME NEW log \in Logs, NEW k \in 0..(Len(log) - 1)
  PROVE  LET parts == EntryParts(log[k + 1])
             first == EntryPlace(log, k) + 1
         IN  /\ first \in Nat /\ Len(parts) \in Nat /\ Place(parts, 0) = 0
             /\ first + Place(parts, Len(parts)) = EntryPlace(log, k + 1)
             /\ \A j \in 0..Len(parts) : Place(parts, j) \in Nat
             /\ \A j \in 0..(Len(parts) - 1) :
                  /\ parts[j + 1] \in Seq(Nat)
                  /\ Holds(LogBytes(log), first + Place(parts, j), parts[j + 1])
                  /\ Place(parts, j + 1) = Place(parts, j) + Len(parts[j + 1])
                  /\ first + Place(parts, j) + Len(parts[j + 1]) <= EntryPlace(log, k + 1)
<1> DEFINE parts == EntryParts(log[k + 1])
           first == EntryPlace(log, k) + 1
<1>1. Len(log) \in Nat /\ k + 1 \in 1..Len(log) /\ IsEntry(log[k + 1])
  <2>1. Len(log) \in Nat /\ \A n \in 1..Len(log) : IsEntry(log[n])
    BY LogTyped
  <2>2. k + 1 \in 1..Len(log)
    BY <2>1
  <2> QED BY <2>1, <2>2
<1>2. parts \in Seq(Seq(Nat))
  BY <1>1, PartsAre
<1>3. LogBytes(log) \in Seq(Nat) /\ PlacesOf(log, k)
  BY EntryPlaces
<1>4. first \in Nat /\ EntryPlace(log, k + 1) = first + Len(FlattenSeq(parts))
      /\ Holds(LogBytes(log), first, FlattenSeq(parts))
  BY <1>3 DEF PlacesOf
<1> HIDE DEF parts, first
<1>5. /\ FlattenSeq(parts) \in Seq(Nat)
      /\ Place(parts, 0) = 0 /\ Place(parts, Len(parts)) = Len(FlattenSeq(parts))
      /\ \A j \in 0..Len(parts) : Place(parts, j) \in Nat
      /\ \A j \in 0..(Len(parts) - 1) : /\ Place(parts, j + 1) = Place(parts, j) + Len(parts[j + 1])
                                        /\ Holds(FlattenSeq(parts), Place(parts, j), parts[j + 1])
  BY <1>2, Pieces
<1>6. ASSUME NEW j \in 0..(Len(parts) - 1)
      PROVE  /\ parts[j + 1] \in Seq(Nat)
             /\ Holds(LogBytes(log), first + Place(parts, j), parts[j + 1])
             /\ first + Place(parts, j) + Len(parts[j + 1]) <= EntryPlace(log, k + 1)
  <2>1. j \in 0..Len(parts) /\ parts[j + 1] \in Seq(Nat)
    BY <1>2
  <2>2. Place(parts, j) \in Nat /\ Len(parts[j + 1]) \in Nat /\ Len(FlattenSeq(parts)) \in Nat
    BY <1>5, <2>1
  <2>3. Place(parts, j) + Len(parts[j + 1]) <= Len(FlattenSeq(parts))
    BY <1>2, PiecesEnd
  <2>4. Holds(LogBytes(log), first + Place(parts, j), parts[j + 1])
    BY <1>3, <1>4, <1>5, <2>1, <2>2, HoldsPart
  <2> QED BY <1>4, <2>1, <2>2, <2>3, <2>4
<1>7. Len(parts) \in Nat
  BY <1>2
<1> QED BY <1>4, <1>5, <1>6, <1>7 DEF parts, first

(* What comes after part j + 1 of an entry.                                *)
IsFinal(e, j)   == j + 1 = Len(EntryParts(e))
Following(e, j) == IF IsFinal(e, j) THEN <<>> ELSE FieldsLeft(e, j + 1)
NextEntry(e, j) == IF IsFinal(e, j) THEN e ELSE EntryRead(e, j + 1)

(* The field that reads part j + 1, by its kind.                           *)
ScalarAt(e, j) ==
  /\ Head(FieldsLeft(e, j)) = Scalar /\ Tail(FieldsLeft(e, j)) = Following(e, j)
  /\ e.kind = "file_update" /\ j \in {0, 1}
  /\ EntryParts(e)[j + 1] = IF j = 0 THEN SubSeq(e.bytes, 1, ScalarSize)
                            ELSE SubSeq(e.bytes, ScalarSize + 1, 2 * ScalarSize)

NameAt(e, j) ==
  /\ Head(FieldsLeft(e, j)) = Name(Len(e.bytes)) /\ Tail(FieldsLeft(e, j)) = Following(e, j)
  /\ e.kind # "file_update" /\ IsFinal(e, j) /\ IdsRead(e, j) = Len(e.ids)
  /\ EntryParts(e)[j + 1] = e.bytes

LengthAt(e, j) ==
  /\ Head(FieldsLeft(e, j)) = Field("length")
  /\ <<Name(Len(e.bytes))>> \o Tail(FieldsLeft(e, j)) = Following(e, j)
  /\ e.kind # "file_update" /\ ~IsFinal(e, j) /\ IdsRead(e, j) = Len(e.ids)
  /\ EntryParts(e)[j + 1] = VarSize[Len(e.bytes)]

IdAt(e, j) ==
  /\ Head(FieldsLeft(e, j)) = Field("id") /\ Tail(FieldsLeft(e, j)) = Following(e, j)
  /\ \/ e.kind = "entity_name" /\ j = 0
     \/ e.kind = "file_update" /\ (j = 2 \/ j >= 4)
  /\ IdsRead(e, j) + 1 \in 1..Len(e.ids)
  /\ EntryParts(e)[j + 1] = VarSize[e.ids[IdsRead(e, j) + 1]]

DepCountAt(e, j) ==
  /\ Head(FieldsLeft(e, j)) = Field("dep_count")
  /\ [n \in 1..(Len(e.ids) - 1) |-> Field("id")] \o Tail(FieldsLeft(e, j)) = Following(e, j)
  /\ e.kind = "file_update" /\ j = 3
  /\ EntryParts(e)[j + 1] = VarSize[Len(e.ids) - 1]

(* A name of an entity is read by two or three fields.                     *)
LEMMA NameFields ==
  ASSUME NEW e, IsEntry(e), e.kind # "file_update", NEW j \in 0..(Len(EntryParts(e)) - 1)
  PROVE  FieldsLeft(e, j) # <<>> /\ (NameAt(e, j) \/ LengthAt(e, j) \/ IdAt(e, j))
<1>0. 0 + 1 = 1 /\ 1 + 1 = 2 /\ 2 + 1 = 3 /\ 1 \in 1..1
  OBVIOUS
<1>1. PartsOfName(e)
  BY PartsAre
<1>2. \A x : Head(<<x>>) = x /\ Tail(<<x>>) = <<>> /\ <<x>> # <<>> /\ <<x>> \o <<>> = <<x>>
  OBVIOUS
<1>3. \A x, y : Head(<<x, y>>) = x /\ Tail(<<x, y>>) = <<y>> /\ <<x, y>> # <<>>
  OBVIOUS
<1>4. CASE e.kind = "root_entity_name"
  <2>1. /\ Len(EntryParts(e)) = 2
        /\ EntryParts(e)[1] = VarSize[Len(e.bytes)] /\ EntryParts(e)[2] = e.bytes
    BY <1>1, <1>4 DEF PartsOfName
  <2>2. j = 0 \/ j = 1
    BY <2>1
  <2>3. FieldsLeft(e, 0) = <<Field("length")>> /\ FieldsLeft(e, 1) = <<Name(Len(e.bytes))>>
    BY <1>4 DEF FieldsLeft
  <2>7. IdsRead(e, 0) = Len(e.ids) /\ IdsRead(e, 1) = Len(e.ids)
    BY <1>4 DEF IdsRead, IsEntry
  <2>4. ~IsFinal(e, 0) /\ IsFinal(e, 1)
    BY <2>1 DEF IsFinal
  <2>5. LengthAt(e, 0)
    BY <1>0, <1>2, <1>4, <2>1, <2>3, <2>4, <2>7 DEF LengthAt, Following
  <2>6. NameAt(e, 1)
    BY <1>0, <1>2, <1>4, <2>1, <2>3, <2>4, <2>7, Zenon DEF NameAt, Following
  <2> QED BY <1>2, <2>2, <2>3, <2>5, <2>6
<1>5. CASE e.kind = "entity_name"
  <2>1. /\ Len(EntryParts(e)) = 3 /\ EntryParts(e)[1] = VarSize[e.ids[1]]
        /\ EntryParts(e)[2] = VarSize[Len(e.bytes)] /\ EntryParts(e)[3] = e.bytes
    BY <1>1, <1>5 DEF PartsOfName
  <2>2. j = 0 \/ j = 1 \/ j = 2
    BY <2>1
  <2>3. /\ FieldsLeft(e, 0) = <<Field("id"), Field("length")>>
        /\ FieldsLeft(e, 1) = <<Field("length")>> /\ FieldsLeft(e, 2) = <<Name(Len(e.bytes))>>
    BY <1>5 DEF FieldsLeft
  <2>4. ~IsFinal(e, 0) /\ ~IsFinal(e, 1) /\ IsFinal(e, 2)
    BY <2>1 DEF IsFinal
  <2>5. IdAt(e, 0)
    <3>1. IdsRead(e, 0) = 0 /\ Len(e.ids) = 1
      BY <1>5 DEF IdsRead, IsEntry
    <3>2. Following(e, 0) = FieldsLeft(e, 1)
      BY <1>0, <2>4, Zenon DEF Following
    <3>3. Head(FieldsLeft(e, 0)) = Field("id") /\ Tail(FieldsLeft(e, 0)) = Following(e, 0)
      BY <1>3, <2>3, <3>2, Zenon
    <3>4. IdsRead(e, 0) + 1 = 1 /\ IdsRead(e, 0) + 1 \in 1..Len(e.ids)
      BY <3>1
    <3>5. EntryParts(e)[0 + 1] = VarSize[e.ids[IdsRead(e, 0) + 1]]
      BY <1>0, <2>1, <3>4, Zenon
    <3>6. e.kind = "entity_name" /\ 0 = 0
      BY <1>5
    <3> QED BY <3>3, <3>4, <3>5, <3>6, Zenon DEF IdAt
  <2>8. IdsRead(e, 1) = Len(e.ids) /\ IdsRead(e, 2) = Len(e.ids)
    BY <1>5 DEF IdsRead, IsEntry
  <2>6. LengthAt(e, 1)
    BY <1>2, <1>5, <2>1, <2>3, <2>4, <2>8 DEF LengthAt, Following
  <2>7. NameAt(e, 2)
    BY <1>0, <1>2, <1>5, <2>1, <2>3, <2>4, <2>8, Zenon DEF NameAt, Following
  <2> QED BY <1>2, <1>3, <2>2, <2>3, <2>5, <2>6, <2>7
<1> QED BY <1>4, <1>5 DEF IsEntry

(* An update is read by the hash and imprint, an id, a count, and as many  *)
(* ids.                                                                    *)
LEMMA UpdateFields ==
  ASSUME NEW e, IsEntry(e), e.kind = "file_update", NEW j \in 0..(Len(EntryParts(e)) - 1)
  PROVE  FieldsLeft(e, j) # <<>> /\ (ScalarAt(e, j) \/ IdAt(e, j) \/ DepCountAt(e, j))
<1>0. 0 + 1 = 1 /\ 1 + 1 = 2 /\ 2 + 1 = 3 /\ 3 + 1 = 4 /\ 1 # 0
  OBVIOUS
<1>1. /\ Len(EntryParts(e)) = Len(e.ids) + 3
      /\ EntryParts(e)[1] = SubSeq(e.bytes, 1, ScalarSize)
      /\ EntryParts(e)[2] = SubSeq(e.bytes, ScalarSize + 1, 2 * ScalarSize)
      /\ EntryParts(e)[3] = VarSize[e.ids[1]] /\ EntryParts(e)[4] = VarSize[Len(e.ids) - 1]
      /\ \A n \in 5..(Len(e.ids) + 3) : EntryParts(e)[n] = VarSize[e.ids[n - 3]]
  BY PartsAre DEF PartsOfUpdate
<1>2. Len(e.ids) \in Nat /\ Len(e.ids) >= 1 /\ j \in Nat /\ j <= Len(e.ids) + 2
  BY <1>1 DEF IsEntry
<1> DEFINE Deps(m) == [n \in 1..m |-> Field("id")]
<1>3. \A x : Head(<<x>>) = x /\ Tail(<<x>>) = <<>> /\ <<x>> # <<>>
  OBVIOUS
<1>4. \A x, y : Head(<<x, y>>) = x /\ Tail(<<x, y>>) = <<y>> /\ <<x, y>> # <<>>
  OBVIOUS
<1>5. \A x, y, z : Head(<<x, y, z>>) = x /\ Tail(<<x, y, z>>) = <<y, z>> /\ <<x, y, z>> # <<>>
  OBVIOUS
<1>6. \A x, y, z, w : /\ Head(<<x, y, z, w>>) = x /\ Tail(<<x, y, z, w>>) = <<y, z, w>>
                      /\ <<x, y, z, w>> # <<>>
  OBVIOUS
<1>7. ASSUME NEW m \in Nat
      PROVE  /\ Deps(m) \in Seq({Field("id")}) /\ Deps(m) \o <<>> = Deps(m) /\ (m = 0 => Deps(m) = <<>>)
             /\ m # 0 => Deps(m) # <<>> /\ Head(Deps(m)) = Field("id") /\ Tail(Deps(m)) = Deps(m - 1)
  <2> DEFINE x == Field("id")
  <2> HIDE DEF x
  <2>1. [n \in 1..m |-> x] \in Seq({x}) /\ Len([n \in 1..m |-> x]) = m
    OBVIOUS
  <2>2. [n \in 1..m |-> x] \o <<>> = [n \in 1..m |-> x]
    BY <2>1
  <2>3. m = 0 => [n \in 1..m |-> x] = <<>>
    OBVIOUS
  <2>4. ASSUME m # 0
        PROVE  /\ [n \in 1..m |-> x] # <<>> /\ Head([n \in 1..m |-> x]) = x
               /\ Tail([n \in 1..m |-> x]) = [n \in 1..(m - 1) |-> x]
    BY <2>1, <2>4
  <2> QED BY <2>1, <2>2, <2>3, <2>4 DEF x
<1>8. /\ FieldsLeft(e, 0) = <<Scalar, Scalar, Field("id"), Field("dep_count")>>
      /\ FieldsLeft(e, 1) = <<Scalar, Field("id"), Field("dep_count")>>
      /\ FieldsLeft(e, 2) = <<Field("id"), Field("dep_count")>>
      /\ FieldsLeft(e, 3) = <<Field("dep_count")>>
  BY DEF FieldsLeft
<1>9. \A n \in Nat : n >= 4 => FieldsLeft(e, n) = Deps(Len(e.ids) + 3 - n)
  BY DEF FieldsLeft
<1>10. ~IsFinal(e, 0) /\ ~IsFinal(e, 1) /\ ~IsFinal(e, 2) /\ (IsFinal(e, 3) <=> Len(e.ids) = 1)
  <2>1. Len(EntryParts(e)) = Len(e.ids) + 3
    BY <1>1
  <2> DEFINE n == Len(e.ids)
  <2> HIDE DEF n
  <2>2. n \in Nat /\ n >= 1 /\ Len(EntryParts(e)) = n + 3
    BY <1>2, <2>1 DEF n
  <2>3. ~(0 + 1 = n + 3) /\ ~(1 + 1 = n + 3) /\ ~(2 + 1 = n + 3) /\ (3 + 1 = n + 3 <=> n = 1)
    BY <2>2
  <2> QED BY <2>2, <2>3, Zenon DEF IsFinal, n
<1> HIDE DEF Deps
<1>11. CASE j = 0
  <2>1. ScalarAt(e, 0)
    <3>1. Following(e, 0) = FieldsLeft(e, 1)
      BY <1>0, <1>10, Zenon DEF Following
    <3>2. Head(FieldsLeft(e, 0)) = Scalar /\ Tail(FieldsLeft(e, 0)) = Following(e, 0)
      <4>1. LET s == <<Scalar, Scalar, Field("id"), Field("dep_count")>>
            IN  Head(s) = Scalar /\ Tail(s) = <<Scalar, Field("id"), Field("dep_count")>>
        BY <1>6
      <4> QED BY <1>8, <3>1, <4>1
    <3>3. EntryParts(e)[0 + 1] = EntryParts(e)[1]
      BY <1>0, Zenon
    <3> QED BY <1>0, <1>1, <3>2, <3>3 DEF ScalarAt
  <2> QED BY <1>6, <1>8, <1>11, <2>1
<1>12. CASE j = 1
  <2>1. ScalarAt(e, 1)
    <3>1. Following(e, 1) = FieldsLeft(e, 2)
      BY <1>0, <1>10, Zenon DEF Following
    <3>2. Head(FieldsLeft(e, 1)) = Scalar /\ Tail(FieldsLeft(e, 1)) = Following(e, 1)
      BY <1>5, <1>8, <3>1, Zenon
    <3>3. EntryParts(e)[1 + 1] = EntryParts(e)[2]
      BY <1>0, Zenon
    <3> QED BY <1>0, <1>1, <3>2, <3>3 DEF ScalarAt
  <2> QED BY <1>5, <1>8, <1>12, <2>1
<1>13. CASE j = 2
  <2>1. IdsRead(e, 2) = 0
    BY DEF IdsRead
  <2>2. 1 \in 1..Len(e.ids)
    BY <1>2
  <2>3. IdAt(e, 2)
    <3>1. Following(e, 2) = FieldsLeft(e, 3)
      BY <1>0, <1>10, Zenon DEF Following
    <3>2. Head(FieldsLeft(e, 2)) = Field("id") /\ Tail(FieldsLeft(e, 2)) = Following(e, 2)
      BY <1>4, <1>8, <3>1, Zenon
    <3>3. IdsRead(e, 2) + 1 = 1
      BY <2>1
    <3>4. EntryParts(e)[2 + 1] = VarSize[e.ids[IdsRead(e, 2) + 1]]
      BY <1>0, <1>1, <3>3, Zenon
    <3>5. IdsRead(e, 2) + 1 \in 1..Len(e.ids)
      BY <2>2, <3>3, Zenon
    <3> QED BY <3>2, <3>4, <3>5, Zenon DEF IdAt
  <2> QED BY <1>4, <1>8, <1>13, <2>3
<1>14. CASE j = 3
  <2> DEFINE m == Len(e.ids) - 1
  <2>1. m \in Nat /\ Len(e.ids) + 3 - 4 = m /\ (Len(e.ids) = 1 => m = 0)
    BY <1>2
  <2>2. FieldsLeft(e, 4) = Deps(Len(e.ids) + 3 - 4)
    BY <1>9
  <2>3. m = Len(e.ids) - 1
    OBVIOUS
  <2> HIDE DEF m
  <2>4. Deps(m) \o <<>> = Deps(m) /\ (m = 0 => Deps(m) = <<>>)
    BY <1>7, <2>1
  <2>5. Following(e, 3) = Deps(m)
    BY <1>0, <1>10, <2>1, <2>2, <2>4, Zenon DEF Following
  <2>6. Deps(m) = [n \in 1..(Len(e.ids) - 1) |-> Field("id")]
    BY <2>3 DEF Deps
  <2>7. DepCountAt(e, 3)
    <3>1. Head(FieldsLeft(e, 3)) = Field("dep_count") /\ Tail(FieldsLeft(e, 3)) = <<>>
      BY <1>3, <1>8, Zenon
    <3>2. [n \in 1..(Len(e.ids) - 1) |-> Field("id")] \o Tail(FieldsLeft(e, 3)) = Following(e, 3)
      BY <2>4, <2>5, <2>6, <3>1, Zenon
    <3>3. EntryParts(e)[3 + 1] = VarSize[Len(e.ids) - 1]
      BY <1>0, <1>1, Zenon
    <3> QED BY <3>1, <3>2, <3>3, Zenon DEF DepCountAt
  <2> QED BY <1>3, <1>8, <1>14, <2>7
<1>15. CASE j >= 4
  <2> DEFINE m == Len(e.ids) + 3 - j
  <2>1. m \in Nat /\ m # 0 /\ (IsFinal(e, j) <=> m = 1)
    BY <1>1, <1>2, <1>15 DEF IsFinal
  <2>2. FieldsLeft(e, j) = Deps(m) /\ FieldsLeft(e, j + 1) = Deps(m - 1)
    <3>1. j + 1 \in Nat /\ j + 1 >= 4 /\ Len(e.ids) + 3 - (j + 1) = m - 1
      BY <1>2, <1>15
    <3> QED BY <1>2, <1>9, <1>15, <3>1
  <2> HIDE DEF m
  <2>3. /\ Deps(m) # <<>> /\ Head(Deps(m)) = Field("id") /\ Tail(Deps(m)) = Deps(m - 1)
        /\ (m = 1 => Deps(m - 1) = <<>>)
    <3>1. 0 \in Nat
      OBVIOUS
    <3>2. Deps(0) = <<>>
      BY <1>7, <3>1
    <3>3. m = 1 => m - 1 = 0
      BY <2>1
    <3> QED BY <1>7, <2>1, <3>2, <3>3
  <2>4. Tail(FieldsLeft(e, j)) = Following(e, j)
    BY <2>1, <2>2, <2>3 DEF Following
  <2>5. IdsRead(e, j) + 1 = j - 2 /\ j - 2 \in 1..Len(e.ids) /\ (j + 1) - 3 = j - 2
    BY <1>2, <1>15 DEF IdsRead
  <2>6. EntryParts(e)[j + 1] = VarSize[e.ids[j - 2]]
    <3>1. j + 1 \in 5..(Len(e.ids) + 3)
      BY <1>2, <1>15
    <3> QED BY <1>1, <2>5, <3>1
  <2> QED BY <1>15, <2>2, <2>3, <2>4, <2>5, <2>6 DEF IdAt
<1> QED BY <1>2, <1>11, <1>12, <1>13, <1>14, <1>15

(* What is used of the beginnings of a sequence.                           *)
LEMMA SubSeqFacts ==
  ASSUME NEW T, NEW s \in Seq(T)
  PROVE  /\ SubSeq(s, 1, 0) = <<>> /\ SubSeq(s, 1, Len(s)) = s
         /\ \A n \in 0..Len(s) : SubSeq(s, 1, n) \in Seq(T) /\ Len(SubSeq(s, 1, n)) = n
         /\ \A n \in 0..(Len(s) - 1) : Append(SubSeq(s, 1, n), s[n + 1]) = SubSeq(s, 1, n + 1)
         /\ \A n \in 0..Len(s) : SubSeq(s, 1, n) \o SubSeq(s, n + 1, Len(s)) = s
<1>1. Len(s) \in Nat
  OBVIOUS
<1>2. SubSeq(s, 1, Len(s)) = s
  BY <1>1
<1>3. ASSUME NEW n \in 0..(Len(s) - 1)
      PROVE  Append(SubSeq(s, 1, n), s[n + 1]) = SubSeq(s, 1, n + 1)
  BY <1>1
<1>4. ASSUME NEW n \in 0..Len(s)
      PROVE  SubSeq(s, 1, n) \o SubSeq(s, n + 1, Len(s)) = s
  <2> DEFINE a == SubSeq(s, 1, n)
             b == SubSeq(s, n + 1, Len(s))
  <2>1. a \in Seq(T) /\ b \in Seq(T) /\ Len(a) = n /\ Len(b) = Len(s) - n
    BY <1>1
  <2>2. (\A i \in 1..n : a[i] = s[i]) /\ \A i \in 1..(Len(s) - n) : b[i] = s[n + i]
    BY <1>1
  <2> HIDE DEF a, b
  <2> DEFINE t == a \o b
  <2>3. /\ t \in Seq(T) /\ Len(t) = Len(a) + Len(b)
        /\ \A i \in 1..Len(a) : t[i] = a[i]
        /\ \A i \in (Len(a) + 1)..(Len(a) + Len(b)) : t[i] = b[i - Len(a)]
    BY <2>1, ConcatFacts
  <2> HIDE DEF t
  <2>4. Len(t) = Len(s)
    BY <1>1, <2>1, <2>3
  <2>5. ASSUME NEW i \in 1..Len(t)
        PROVE  t[i] = s[i]
    <3>1. CASE i <= n
      BY <2>1, <2>2, <2>3, <3>1
    <3>2. CASE i > n
      <4>1. i - n \in 1..(Len(s) - n) /\ n + (i - n) = i /\ i \in (n + 1)..(n + Len(b))
        BY <1>1, <2>1, <2>4, <3>2
      <4> QED BY <2>1, <2>2, <2>3, <4>1
    <3> QED BY <3>1, <3>2
  <2>6. t = s
    BY <2>3, <2>4, <2>5, SeqEqual
  <2> QED BY <2>6 DEF t, a, b
<1>5. SubSeq(s, 1, 0) = <<>>
  BY <1>1
<1>6. ASSUME NEW n \in 0..Len(s)
      PROVE  SubSeq(s, 1, n) \in Seq(T) /\ Len(SubSeq(s, 1, n)) = n
  BY <1>1
<1> QED BY <1>2, <1>3, <1>4, <1>5, <1>6

(* An entry is its kind, its ids and its bytes.                            *)
LEMMA EntryIs ==
  ASSUME NEW e, IsEntry(e)
  PROVE  /\ e = [kind |-> e.kind, ids |-> e.ids, bytes |-> e.bytes]
         /\ e.ids \in Seq(Nat) /\ e.bytes \in Seq(Nat)
         /\ Len(e.ids) \in Nat /\ SubSeq(e.ids, 1, 0) = <<>> /\ SubSeq(e.ids, 1, Len(e.ids)) = e.ids
<1>1. e \in [kind : {"root_entity_name", "entity_name", "file_update"}, ids : Seq(Nat), bytes : Seq(Nat)]
  BY DEF IsEntry
<1>2. e.ids \in Seq(Nat) /\ e.bytes \in Seq(Nat)
  BY <1>1
<1> QED BY <1>1, <1>2, SubSeqFacts

(* A part of what has been read of an entry changes.                       *)
LEMMA EntryExcept ==
  ASSUME NEW e, NEW j, NEW d
  PROVE  /\ [EntryRead(e, j) EXCEPT !.bytes = d]
            = [kind |-> e.kind, ids |-> SubSeq(e.ids, 1, IdsRead(e, j)), bytes |-> d]
         /\ EntryRead(e, j).bytes = BytesRead(e, j)
         /\ EntryRead(e, j).ids = SubSeq(e.ids, 1, IdsRead(e, j))
<1> DEFINE i == SubSeq(e.ids, 1, IdsRead(e, j))
           b == BytesRead(e, j)
           k == e.kind
<1>1. EntryRead(e, j) = [kind |-> k, ids |-> i, bytes |-> b]
  BY DEF EntryRead
<1> HIDE DEF i, b, k
<1>2. [[kind |-> k, ids |-> i, bytes |-> b] EXCEPT !.bytes = d] = [kind |-> k, ids |-> i, bytes |-> d]
  OBVIOUS
<1>3. EntryRead(e, j).bytes = b /\ EntryRead(e, j).ids = i
  BY <1>1
<1>4. [EntryRead(e, j) EXCEPT !.bytes = d] = [kind |-> k, ids |-> i, bytes |-> d]
  BY <1>1, <1>2
<1> QED BY <1>3, <1>4 DEF i, b, k

(* The imprint and the hash are taken as they come.                        *)
LEMMA NextOfScalar ==
  ASSUME NEW e, IsEntry(e), NEW j, ScalarAt(e, j)
  PROVE  [EntryRead(e, j) EXCEPT !.bytes = @ \o EntryParts(e)[j + 1]] = NextEntry(e, j)
<1>1. e.kind = "file_update" /\ j \in {0, 1}
  BY DEF ScalarAt
<1>2. e.bytes \in Seq(Nat) /\ Len(e.bytes) = 2 * ScalarSize /\ ScalarSize \in Nat
  BY <1>1, EntryIs, SizesAssumption DEF IsEntry
<1>3. Len(EntryParts(e)) = Len(e.ids) + 3 /\ Len(e.ids) \in Nat /\ Len(e.ids) >= 1
  BY <1>1, PartsAre, EntryIs DEF PartsOfUpdate, IsEntry
<1>4. ~IsFinal(e, j)
  BY <1>1, <1>3 DEF IsFinal
<1> DEFINE one == SubSeq(e.bytes, 1, ScalarSize)
           two == SubSeq(e.bytes, ScalarSize + 1, 2 * ScalarSize)
<1>5. <<>> \o one = one /\ one \o two = e.bytes
  <2>1. one \in Seq(Nat)
    BY <1>2
  <2>2. ScalarSize \in 0..Len(e.bytes)
    BY <1>2
  <2> QED BY <1>2, <2>1, <2>2, SubSeqFacts
<1>6. CASE j = 0
  <2>1. EntryParts(e)[j + 1] = one
    BY <1>6 DEF ScalarAt
  <2>2. /\ BytesRead(e, 0) = <<>> /\ BytesRead(e, 1) = one
        /\ IdsRead(e, 0) = 0 /\ IdsRead(e, 1) = 0
    BY <1>1 DEF BytesRead, IdsRead
  <2>3. j + 1 = 1
    BY <1>6
  <2>4. [EntryRead(e, j) EXCEPT !.bytes = @ \o EntryParts(e)[j + 1]]
        = [EntryRead(e, j) EXCEPT !.bytes = BytesRead(e, 0) \o EntryParts(e)[j + 1]]
    BY <1>6, EntryExcept
  <2>5. [EntryRead(e, j) EXCEPT !.bytes = BytesRead(e, 0) \o EntryParts(e)[j + 1]]
        = [kind |-> e.kind, ids |-> SubSeq(e.ids, 1, 0), bytes |-> BytesRead(e, 1)]
    <3> DEFINE d == BytesRead(e, 0) \o EntryParts(e)[j + 1]
    <3>1. d = BytesRead(e, 1)
      BY <1>5, <2>1, <2>2
    <3>2. IdsRead(e, j) = 0
      BY <1>6, <2>2
    <3> HIDE DEF d
    <3>3. [EntryRead(e, j) EXCEPT !.bytes = d]
          = [kind |-> e.kind, ids |-> SubSeq(e.ids, 1, IdsRead(e, j)), bytes |-> d]
      BY EntryExcept
    <3> QED BY <3>1, <3>2, <3>3 DEF d
  <2>6. NextEntry(e, j) = [kind |-> e.kind, ids |-> SubSeq(e.ids, 1, 0), bytes |-> BytesRead(e, 1)]
    BY <1>4, <2>2, <2>3 DEF NextEntry, EntryRead
  <2> QED BY <2>4, <2>5, <2>6
<1>7. CASE j = 1
  <2>1. EntryParts(e)[j + 1] = two
    BY <1>7 DEF ScalarAt
  <2>2. /\ BytesRead(e, 1) = one /\ BytesRead(e, 2) = e.bytes
        /\ IdsRead(e, 1) = 0 /\ IdsRead(e, 2) = 0
    BY <1>1 DEF BytesRead, IdsRead
  <2>3. j + 1 = 2
    BY <1>7
  <2>4. [EntryRead(e, j) EXCEPT !.bytes = @ \o EntryParts(e)[j + 1]]
        = [EntryRead(e, j) EXCEPT !.bytes = BytesRead(e, 1) \o EntryParts(e)[j + 1]]
    BY <1>7, EntryExcept
  <2>5. [EntryRead(e, j) EXCEPT !.bytes = BytesRead(e, 1) \o EntryParts(e)[j + 1]]
        = [kind |-> e.kind, ids |-> SubSeq(e.ids, 1, 0), bytes |-> BytesRead(e, 2)]
    <3> DEFINE d == BytesRead(e, 1) \o EntryParts(e)[j + 1]
    <3>1. d = BytesRead(e, 2)
      BY <1>5, <2>1, <2>2
    <3>2. IdsRead(e, j) = 0
      BY <1>7, <2>2
    <3> HIDE DEF d
    <3>3. [EntryRead(e, j) EXCEPT !.bytes = d]
          = [kind |-> e.kind, ids |-> SubSeq(e.ids, 1, IdsRead(e, j)), bytes |-> d]
      BY EntryExcept
    <3> QED BY <3>1, <3>2, <3>3 DEF d
  <2>6. NextEntry(e, j) = [kind |-> e.kind, ids |-> SubSeq(e.ids, 1, 0), bytes |-> BytesRead(e, 2)]
    BY <1>4, <2>2, <2>3 DEF NextEntry, EntryRead
  <2> QED BY <2>4, <2>5, <2>6
<1> QED BY <1>1, <1>6, <1>7

(* A name comes last.                                                      *)
LEMMA NextOfName ==
  ASSUME NEW e, IsEntry(e), NEW j, NameAt(e, j)
  PROVE  [EntryRead(e, j) EXCEPT !.bytes = EntryParts(e)[j + 1]] = NextEntry(e, j)
<1>1. IsFinal(e, j) /\ IdsRead(e, j) = Len(e.ids) /\ EntryParts(e)[j + 1] = e.bytes
  BY DEF NameAt
<1>2. SubSeq(e.ids, 1, IdsRead(e, j)) = e.ids
  BY <1>1, EntryIs
<1>3. e = [kind |-> e.kind, ids |-> e.ids, bytes |-> e.bytes]
  BY EntryIs
<1> QED BY <1>1, <1>2, <1>3 DEF EntryRead, NextEntry

(* Its length is not part of the entry.                                    *)
LEMMA NextOfLength ==
  ASSUME NEW e, IsEntry(e), NEW j \in Nat, LengthAt(e, j)
  PROVE  EntryRead(e, j) = NextEntry(e, j)
<1>1. e.kind # "file_update" /\ ~IsFinal(e, j) /\ IdsRead(e, j) = Len(e.ids)
  BY DEF LengthAt
<1>2. BytesRead(e, j) = <<>> /\ BytesRead(e, j + 1) = <<>>
  BY <1>1 DEF BytesRead
<1>3. IdsRead(e, j + 1) = IdsRead(e, j)
  BY <1>1 DEF IdsRead, IsEntry
<1> QED BY <1>1, <1>2, <1>3 DEF EntryRead, NextEntry

(* An id is added to those read before.                                    *)
LEMMA NextOfId ==
  ASSUME NEW e, IsEntry(e), NEW j \in Nat, IdAt(e, j)
  PROVE  [EntryRead(e, j) EXCEPT !.ids = Append(@, e.ids[IdsRead(e, j) + 1])] = NextEntry(e, j)
<1> DEFINE n == IdsRead(e, j)
<1>1. /\ \/ e.kind = "entity_name" /\ j = 0
         \/ e.kind = "file_update" /\ (j = 2 \/ j >= 4)
      /\ n + 1 \in 1..Len(e.ids)
  BY DEF IdAt
<1>2. e.ids \in Seq(Nat) /\ Len(e.ids) \in Nat
  BY EntryIs
<1>3. n \in Nat
  BY <1>1 DEF IdsRead
<1>4. IdsRead(e, j + 1) = n + 1
  BY <1>1 DEF IdsRead
<1>5. BytesRead(e, j + 1) = BytesRead(e, j) /\ (e.kind = "file_update" => BytesRead(e, j) = e.bytes)
  BY <1>1 DEF BytesRead
<1>6. IsFinal(e, j) => e.kind = "file_update" /\ n + 1 = Len(e.ids)
  <2> SUFFICES ASSUME IsFinal(e, j) PROVE e.kind = "file_update" /\ n + 1 = Len(e.ids)
    OBVIOUS
  <2>1. e.kind = "entity_name" => Len(EntryParts(e)) = 3
    BY PartsAre DEF PartsOfName
  <2>2. e.kind = "file_update" => Len(EntryParts(e)) = Len(e.ids) + 3
    BY PartsAre DEF PartsOfUpdate
  <2>3. Len(EntryParts(e)) = j + 1
    BY DEF IsFinal
  <2>4. e.kind = "file_update"
    BY <1>1, <2>1, <2>3
  <2>5. j >= 4 => n = j - 3
    BY <2>4 DEF IdsRead
  <2>6. j = 2 => n = 0
    BY <2>4 DEF IdsRead
  <2> HIDE DEF n
  <2> QED BY <1>1, <1>2, <1>3, <2>2, <2>3, <2>4, <2>5, <2>6
<1> HIDE DEF n
<1>7. Append(SubSeq(e.ids, 1, n), e.ids[n + 1]) = SubSeq(e.ids, 1, n + 1)
  <2>1. n \in 0..(Len(e.ids) - 1)
    BY <1>1, <1>2, <1>3
  <2> QED BY <1>2, <2>1, SubSeqFacts
<1>9. [EntryRead(e, j) EXCEPT !.ids = Append(@, e.ids[n + 1])]
      = [kind |-> e.kind, ids |-> SubSeq(e.ids, 1, n + 1), bytes |-> BytesRead(e, j)]
  <2> DEFINE d == Append(SubSeq(e.ids, 1, n), e.ids[n + 1])
  <2>1. EntryRead(e, j).ids = SubSeq(e.ids, 1, n)
    BY EntryExcept DEF n
  <2>2. [EntryRead(e, j) EXCEPT !.ids = Append(@, e.ids[n + 1])] = [EntryRead(e, j) EXCEPT !.ids = d]
    BY <2>1
  <2> HIDE DEF d
  <2>3. [EntryRead(e, j) EXCEPT !.ids = d] = [kind |-> e.kind, ids |-> d, bytes |-> BytesRead(e, j)]
    <3> DEFINE i == SubSeq(e.ids, 1, IdsRead(e, j))
               b == BytesRead(e, j)
               k == e.kind
    <3>1. EntryRead(e, j) = [kind |-> k, ids |-> i, bytes |-> b]
      BY DEF EntryRead
    <3> HIDE DEF i, b, k
    <3>2. [[kind |-> k, ids |-> i, bytes |-> b] EXCEPT !.ids = d] = [kind |-> k, ids |-> d, bytes |-> b]
      OBVIOUS
    <3> QED BY <3>1, <3>2 DEF b, k
  <2> QED BY <1>7, <2>2, <2>3 DEF d
<1>10. CASE IsFinal(e, j)
  <2>1. SubSeq(e.ids, 1, n + 1) = e.ids
    BY <1>6, <1>10, EntryIs
  <2>2. e = [kind |-> e.kind, ids |-> e.ids, bytes |-> e.bytes]
    BY EntryIs
  <2> QED BY <1>5, <1>6, <1>9, <1>10, <2>1, <2>2 DEF NextEntry, n
<1>11. CASE ~IsFinal(e, j)
  <2>1. EntryRead(e, j + 1) = [kind |-> e.kind, ids |-> SubSeq(e.ids, 1, n + 1), bytes |-> BytesRead(e, j)]
    BY <1>4, <1>5 DEF EntryRead
  <2> QED BY <1>9, <1>11, <2>1 DEF NextEntry, n
<1> QED BY <1>10, <1>11

(* The number of dependencies is not part of the entry either, which is    *)
(* complete if it is zero.                                                 *)
LEMMA NextOfDepCount ==
  ASSUME NEW e, IsEntry(e), NEW j, DepCountAt(e, j)
  PROVE  EntryRead(e, j) = NextEntry(e, j)
<1>1. e.kind = "file_update" /\ j = 3
  BY DEF DepCountAt
<1>2. Len(EntryParts(e)) = Len(e.ids) + 3 /\ Len(e.ids) \in Nat /\ Len(e.ids) >= 1
  BY <1>1, PartsAre, EntryIs DEF PartsOfUpdate, IsEntry
<1>3. /\ IdsRead(e, 3) = 1 /\ IdsRead(e, 4) = 1
      /\ BytesRead(e, 3) = e.bytes /\ BytesRead(e, 4) = e.bytes
  BY <1>1 DEF IdsRead, BytesRead
<1>4. IsFinal(e, j) => Len(e.ids) = 1
  <2> DEFINE m == Len(e.ids)
             l == Len(EntryParts(e))
  <2> HIDE DEF m, l
  <2>1. l = m + 3 /\ m \in Nat /\ (IsFinal(e, j) => 3 + 1 = l)
    BY <1>1, <1>2 DEF IsFinal, m, l
  <2>2. IsFinal(e, j) => m = 1
    BY <2>1
  <2> QED BY <2>2 DEF m
<1>5. CASE IsFinal(e, j)
  <2>1. SubSeq(e.ids, 1, 1) = e.ids
    BY <1>4, <1>5, EntryIs
  <2>2. e = [kind |-> e.kind, ids |-> e.ids, bytes |-> e.bytes]
    BY EntryIs
  <2> QED BY <1>1, <1>3, <1>5, <2>1, <2>2 DEF EntryRead, NextEntry
<1>6. CASE ~IsFinal(e, j)
  <2>1. j + 1 = 4
    BY <1>1
  <2> QED BY <1>1, <1>3, <1>6, <2>1 DEF EntryRead, NextEntry
<1> QED BY <1>5, <1>6

(* The five kinds of fields.                                               *)
LEMMA FieldIs ==
  ASSUME NEW e, IsEntry(e), NEW j \in 0..(Len(EntryParts(e)) - 1)
  PROVE  /\ FieldsLeft(e, j) # <<>> /\ Head(FieldsLeft(e, j)).count \in Nat
         /\ \/ ScalarAt(e, j) /\ Head(FieldsLeft(e, j)).is = "scalar"
            \/ NameAt(e, j) /\ Head(FieldsLeft(e, j)).is = "name"
            \/ LengthAt(e, j) /\ Head(FieldsLeft(e, j)).is = "length"
            \/ IdAt(e, j) /\ Head(FieldsLeft(e, j)).is = "id"
            \/ DepCountAt(e, j) /\ Head(FieldsLeft(e, j)).is = "dep_count"
<1>1. FieldsLeft(e, j) # <<>>
      /\ (ScalarAt(e, j) \/ NameAt(e, j) \/ LengthAt(e, j) \/ IdAt(e, j) \/ DepCountAt(e, j))
  BY NameFields, UpdateFields
<1>2. ScalarSize \in Nat /\ Len(e.bytes) \in Nat
  BY EntryIs, SizesAssumption
<1>3. Scalar.is = "scalar" /\ Scalar.count \in Nat
  BY <1>2 DEF Scalar
<1>4. Name(Len(e.bytes)).is = "name" /\ Name(Len(e.bytes)).count \in Nat
  BY <1>2 DEF Name
<1>5. \A is : Field(is).is = is /\ Field(is).count = 1
  BY DEF Field
<1>6. CASE ScalarAt(e, j)
  <2>1. Head(FieldsLeft(e, j)) = Scalar
    BY <1>6 DEF ScalarAt
  <2> QED BY <1>1, <1>3, <1>6, <2>1
<1>7. CASE NameAt(e, j)
  <2>1. Head(FieldsLeft(e, j)) = Name(Len(e.bytes))
    BY <1>7 DEF NameAt
  <2> QED BY <1>1, <1>4, <1>7, <2>1
<1>8. CASE LengthAt(e, j)
  <2>1. Head(FieldsLeft(e, j)) = Field("length")
    BY <1>8 DEF LengthAt
  <2> QED BY <1>1, <1>5, <1>8, <2>1
<1>9. CASE IdAt(e, j)
  <2>1. Head(FieldsLeft(e, j)) = Field("id")
    BY <1>9 DEF IdAt
  <2> QED BY <1>1, <1>5, <1>9, <2>1
<1>10. CASE DepCountAt(e, j)
  <2>1. Head(FieldsLeft(e, j)) = Field("dep_count")
    BY <1>10 DEF DepCountAt
  <2> QED BY <1>1, <1>5, <1>10, <2>1
<1> QED BY <1>1, <1>6, <1>7, <1>8, <1>9, <1>10

-----------------------------------------------------------------------------
(* What is read at a place is what is there.                               *)
LEMMA HoldsSame ==
  ASSUME NEW T, NEW s \in Seq(T), NEW t \in Seq(T), NEW u \in Seq(T), NEW i,
         Holds(s, i, t), Holds(s, i, u)
  PROVE  /\ \A n \in 1..Len(t) : n <= Len(u) => t[n] = u[n]
         /\ Len(t) = Len(u) => t = u
<1>1. ASSUME NEW n \in 1..Len(t), n <= Len(u)
      PROVE  t[n] = u[n]
  <2>1. n \in 1..Len(u)
    BY <1>1
  <2> QED BY <2>1 DEF Holds
<1>2. ASSUME Len(t) = Len(u)
      PROVE  t = u
  <2>1. \A n \in 1..Len(t) : t[n] = u[n]
    BY <1>1, <1>2
  <2> QED BY <1>2, <2>1, SeqEqual
<1> QED BY <1>1, <1>2

(* A byte below the radix, and only that, ends a number.                   *)
LEMMA NumberRead ==
  ASSUME NEW s \in Seq(Nat), NEW t \in Seq(Nat), NEW i, NEW v \in Nat,
         Holds(s, i, t), Holds(s, i, VarSize[v]),
         Len(t) >= 1, \A n \in 1..(Len(t) - 1) : t[n] >= Radix
  PROVE  /\ Len(t) <= Len(VarSize[v]) /\ (t[Len(t)] < Radix <=> Len(t) = Len(VarSize[v]))
         /\ t[Len(t)] < Radix => t = VarSize[v] /\ Value(t) = v
<1> DEFINE u == VarSize[v]
<1>1. /\ u \in Seq(Nat) /\ Len(u) \in Nat \ {0} /\ Value(u) = v
      /\ (\A n \in 1..(Len(u) - 1) : u[n] >= Radix) /\ u[Len(u)] < Radix
  BY VarSizeShape, RoundTrip
<1>2. Holds(s, i, u)
  OBVIOUS
<1> HIDE DEF u
<1>3. (\A n \in 1..Len(t) : n <= Len(u) => t[n] = u[n]) /\ (Len(t) = Len(u) => t = u)
  BY <1>1, <1>2, HoldsSame
<1>4. Len(t) \in Nat /\ Radix \in Nat
  BY SizesAssumption
<1>5. Len(t) <= Len(u)
  <2> SUFFICES ASSUME Len(t) > Len(u) PROVE FALSE
    BY <1>1, <1>4
  <2>1. Len(u) \in 1..(Len(t) - 1) /\ Len(u) \in 1..Len(t)
    BY <1>1, <1>4
  <2>2. t[Len(u)] = u[Len(u)] /\ t[Len(u)] \in Nat
    BY <1>1, <1>3, <2>1
  <2>3. t[Len(u)] >= Radix
    BY <2>1
  <2> QED BY <1>1, <1>4, <2>2, <2>3
<1>6. t[Len(t)] = u[Len(t)] /\ u[Len(t)] \in Nat
  <2>1. Len(t) \in 1..Len(t) /\ Len(t) \in 1..Len(u)
    BY <1>1, <1>4, <1>5
  <2> QED BY <1>1, <1>3, <2>1
<1>7. Len(t) # Len(u) => u[Len(t)] >= Radix
  <2> SUFFICES ASSUME Len(t) # Len(u) PROVE u[Len(t)] >= Radix
    OBVIOUS
  <2>1. Len(t) \in 1..(Len(u) - 1)
    BY <1>1, <1>4, <1>5
  <2> QED BY <1>1, <2>1
<1>8. t[Len(t)] < Radix <=> Len(t) = Len(u)
  BY <1>1, <1>4, <1>6, <1>7
<1>9. t[Len(t)] < Radix => t = u /\ Value(t) = v
  BY <1>1, <1>3, <1>8
<1> QED BY <1>5, <1>8, <1>9 DEF u

(* What the file has, the log has.                                         *)
LEMMA InLog ==
  ASSUME LogInv, NEW t \in Seq(Nat), NEW i, Holds(file, i, t)
  PROVE  LogBytes(written) \in Seq(Nat) /\ Holds(LogBytes(written), i, t)
<1>1. LogBytes(written) \in Seq(Nat) /\ file \in Seq(Nat) /\ Holds(LogBytes(written), 0, file)
  BY EntryPlaces DEF LogInv, IsPart
<1>2. i \in Nat /\ 0 \in Nat /\ 0 + i = i
  BY DEF Holds
<1>3. Holds(LogBytes(written), 0 + i, t)
  BY <1>1, <1>2, HoldsPart
<1> QED BY <1>1, <1>2, <1>3

(* The part of the log that the reader is in.                              *)
Here(e, j) ==
  LET k == Len(entries)
      p == Taken - Len(size)
      parts == EntryParts(e)
  IN  /\ k \in 0..(Len(written) - 1) /\ e = written[k + 1] /\ IsEntry(e) /\ j \in 0..(Len(parts) - 1)
      /\ fields = FieldsLeft(e, j) /\ entry = EntryRead(e, j)
      /\ p = EntryPlace(written, k) + 1 + Place(parts, j) /\ p \in Nat
      /\ parts[j + 1] \in Seq(Nat) /\ Holds(LogBytes(written), p, parts[j + 1])
      /\ p + Len(parts[j + 1]) = EntryPlace(written, k) + 1 + Place(parts, j + 1)

(* Behind the type of an entry the reader is in front of a part of it, or  *)
(* inside of a number.                                                     *)
LEMMA AtField ==
  ASSUME LogInv, InsideEntry
  PROVE  \E e, j : Here(e, j)
<1>1. written \in Logs
  BY DEF LogInv
<1> DEFINE k == Len(entries)
           e == written[k + 1]
<1>3. k < Len(written) /\ \E j \in 0..(Len(EntryParts(e)) - 1) : InEntry(e, EntryPlace(written, k), j)
  BY DEF InsideEntry
<1>4. PICK j \in 0..(Len(EntryParts(e)) - 1) : InEntry(e, EntryPlace(written, k), j)
  BY <1>3
<1>5. k \in 0..Len(written)
  BY DEF LogInv
<1>6. Len(written) \in Nat /\ \A n \in 1..Len(written) : IsEntry(written[n])
  BY <1>1, LogTyped
<1>7. k \in 0..(Len(written) - 1) /\ k + 1 \in 1..Len(written)
  BY <1>3, <1>5, <1>6
<1>8. IsEntry(e)
  BY <1>6, <1>7
<1> HIDE DEF k, e
<1> DEFINE parts == EntryParts(e)
           first == EntryPlace(written, k) + 1
           p == Taken - Len(size)
<1>9. /\ first \in Nat /\ Place(parts, j) \in Nat
      /\ parts[j + 1] \in Seq(Nat)
      /\ Holds(LogBytes(written), first + Place(parts, j), parts[j + 1])
      /\ Place(parts, j + 1) = Place(parts, j) + Len(parts[j + 1])
  <2>1. /\ first \in Nat /\ Len(parts) \in Nat
        /\ \A i \in 0..Len(parts) : Place(parts, i) \in Nat
        /\ \A i \in 0..(Len(parts) - 1) :
             /\ parts[i + 1] \in Seq(Nat)
             /\ Holds(LogBytes(written), first + Place(parts, i), parts[i + 1])
             /\ Place(parts, i + 1) = Place(parts, i) + Len(parts[i + 1])
    BY <1>1, <1>7, PartPlaces DEF e
  <2>2. j \in 0..Len(parts) /\ j \in 0..(Len(parts) - 1)
    BY <2>1
  <2> QED BY <2>1, <2>2
<1>10. p = first + Place(parts, j) /\ fields = FieldsLeft(e, j) /\ entry = EntryRead(e, j)
  BY <1>4 DEF InEntry
<1>11. Len(parts[j + 1]) \in Nat
  BY <1>9
<1>12. p \in Nat /\ p + Len(parts[j + 1]) = first + Place(parts, j + 1)
  <2> HIDE DEF p, first, parts
  <2> QED BY <1>9, <1>10, <1>11
<1> QED BY <1>7, <1>8, <1>9, <1>10, <1>12 DEF Here, k, e

(* The logs are not changed.                                               *)
LEMMA SameLog ==
  ASSUME LogInv, UNCHANGED <<file, written>>
  PROVE  written' \in Logs /\ file' \in Seq(Nat) /\ IsPart'
BY DEF LogInv, IsPart

(* With a whole part read, the reader is in front of the next part, or at  *)
(* the end of the entry.                                                   *)
LEMMA Proceeds ==
  ASSUME LogInv, ended = "no", NEW e, NEW j, Here(e, j),
         Len(size) + Len(got) = Len(EntryParts(e)[j + 1]),
         NEW more, more \o Tail(fields) = Following(e, j),
         NEW read, read = NextEntry(e, j), Proceed(read, more),
         size' = <<>>, ended' = ended
  PROVE  LogInv'
<1> DEFINE k == Len(entries)
           parts == EntryParts(e)
           first == EntryPlace(written, k) + 1
<1>1. StreamInv /\ SizeInv /\ written \in Logs /\ entries = SubSeq(written, 1, k)
  BY DEF LogInv
<1>2. /\ k \in 0..(Len(written) - 1) /\ e = written[k + 1] /\ IsEntry(e) /\ j \in 0..(Len(parts) - 1)
      /\ Taken - Len(size) + Len(parts[j + 1]) = first + Place(parts, j + 1)
  BY DEF Here
<1>3. /\ Len(written) \in Nat /\ k + 1 \in 0..Len(written) /\ k \in Nat
      /\ written \in Seq([kind : DOMAIN TypeByte, ids : Seq(Nat), bytes : Seq(Nat)])
  <2>1. Len(written) \in Nat
        /\ written \in Seq([kind : DOMAIN TypeByte, ids : Seq(Nat), bytes : Seq(Nat)])
    BY <1>1, LogTyped
  <2>2. k \in Nat /\ k + 1 \in 0..Len(written)
    BY <1>2, <2>1
  <2> QED BY <2>1, <2>2
<1>4. UNCHANGED <<file, written, position, buffer>> /\ got' = <<>>
  BY DEF Proceed
<1>5. position \in Nat /\ Len(buffer) \in Nat /\ Len(got) \in Nat /\ Len(size) \in Nat
      /\ Len(buffer) + Len(got) <= position /\ position <= Len(file) /\ Len(file) \in Nat
  BY <1>1 DEF StreamInv, SizeInv, LogInv
<1>6. Taken' = position - Len(buffer) /\ Taken' = first + Place(parts, j + 1)
  <2>1. Len(got') = 0
    BY <1>4
  <2>2. Taken' = position - Len(buffer)
    BY <1>4, <1>5, <2>1 DEF Taken
  <2>3. Taken = position - Len(buffer) - Len(got)
    BY DEF Taken
  <2> HIDE DEF parts, first
  <2>4. Len(size) + Len(got) = Len(parts[j + 1])
    BY DEF parts
  <2>5. Taken - Len(size) + Len(parts[j + 1]) = first + Place(parts, j + 1)
    BY <1>2
  <2>6. position \in Nat /\ Len(buffer) \in Nat /\ Len(got) \in Nat /\ Len(size) \in Nat
    BY <1>5
  <2>7. position - Len(buffer) - Len(got) - Len(size) + (Len(size) + Len(got))
        = position - Len(buffer)
    BY <2>6
  <2> QED BY <2>2, <2>3, <2>4, <2>5, <2>7
<1>7. /\ fields' # <<>> /\ Head(fields').count \in Nat
      /\ entries' = SubSeq(written, 1, Len(entries')) /\ Len(entries') \in 0..Len(written)
      /\ ParseInv'
  <2>1. CASE IsFinal(e, j)
    <3>1. /\ fields' = <<Field("type")>> /\ entry' = NoEntry /\ entries' = Append(entries, e)
      BY <2>1 DEF Proceed, Following, NextEntry
    <3>2. entries' = SubSeq(written, 1, k + 1)
      <4>1. Append(SubSeq(written, 1, k), written[k + 1]) = SubSeq(written, 1, k + 1)
        BY <1>2, <1>3, SubSeqFacts
      <4> QED BY <1>1, <1>2, <3>1, <4>1
    <3>3. Len(entries') = k + 1
      BY <1>3, <3>2, SubSeqFacts
    <3>4. Taken' = EntryPlace(written, k + 1)
      <4>1. j + 1 = Len(parts)
        BY <2>1 DEF IsFinal
      <4>2. first + Place(parts, Len(parts)) = EntryPlace(written, k + 1)
        BY <1>1, <1>2, PartPlaces
      <4> QED BY <1>6, <4>1, <4>2
    <3>5. fields' # <<>> /\ Head(fields').count = 1
      <4>1. fields' # <<>> /\ Head(fields') = Field("type")
        BY <3>1
      <4> QED BY <4>1 DEF Field
    <3>6. ParseInv'
      <4>1. Taken' = EntryPlace(written, Len(entries))'
        BY <1>4, <3>3, <3>4 DEF EntryPlace
      <4> QED BY <3>1, <4>1 DEF ParseInv
    <3> QED BY <1>3, <3>2, <3>3, <3>5, <3>6
  <2>2. CASE ~IsFinal(e, j)
    <3>1. j + 1 \in 0..(Len(parts) - 1)
      <4>1. Len(parts) \in Nat /\ j + 1 # Len(parts)
        BY <1>2, <2>2, PartsAre DEF IsFinal
      <4> QED BY <1>2, <4>1
    <3>2. Following(e, j) = FieldsLeft(e, j + 1) /\ NextEntry(e, j) = EntryRead(e, j + 1)
      BY <2>2 DEF Following, NextEntry
    <3>3. FieldsLeft(e, j + 1) # <<>> /\ Head(FieldsLeft(e, j + 1)).count \in Nat
      BY <1>2, <3>1, FieldIs
    <3>4. fields' = FieldsLeft(e, j + 1) /\ entry' = EntryRead(e, j + 1) /\ entries' = entries
      BY <3>2, <3>3 DEF Proceed
    <3>5. PICK start : start = EntryPlace(written, k)
      OBVIOUS
    <3>6. InEntry(e, start, j + 1)'
      <4>1. Len(size') = 0 /\ Taken' - 0 = Taken'
        <5>1. Taken' = position - Len(buffer)
          BY <1>6
        <5>2. Taken' \in Int
          BY <1>5, <5>1
        <5>3. Len(size') = 0
          OBVIOUS
        <5>4. \A x \in Int : x - 0 = x
          OBVIOUS
        <5> QED BY <5>2, <5>3, <5>4
      <4>2. Taken' - Len(size') = start + 1 + Place(parts, j + 1)
        BY <1>6, <3>5, <4>1
      <4> QED BY <3>4, <4>2 DEF InEntry
    <3>7. /\ Len(entries') < Len(written') /\ written'[Len(entries') + 1] = e
          /\ EntryPlace(written', Len(entries')) = start
      BY <1>2, <1>3, <1>4, <3>4, <3>5
    <3>8. ParseInv'
      BY <3>1, <3>6, <3>7 DEF ParseInv, InsideEntry
    <3> QED BY <1>1, <1>3, <3>3, <3>4, <3>8 DEF LogInv
  <2> QED BY <2>1, <2>2
<1>8. StreamInv'
  <2>1. buffer \in Seq(Nat) /\ Holds(file, position - Len(buffer), buffer) /\ position \in 0..Len(file)
    BY <1>1 DEF StreamInv
  <2>2. Len(got') = 0 /\ got' \in Seq(Nat)
    BY <1>4
  <2>3. Holds(file, position - Len(buffer), <<>>)
    BY <2>1 DEF Holds
  <2>4. Len(buffer') + Len(got') <= position'
    BY <1>4, <1>5, <2>2
  <2>5. Len(got') <= Asked'
    BY <1>7, <2>2 DEF Asked
  <2>6. Holds(file', position' - Len(buffer'), buffer') /\ Holds(file', Taken', got')
    BY <1>4, <1>6, <2>1, <2>3
  <2> QED BY <1>4, <1>7, <2>1, <2>2, <2>4, <2>5, <2>6 DEF StreamInv
<1>9. SizeInv'
  <2>1. Len(size') = 0 /\ size' \in Seq(Nat) /\ DOMAIN size' = {}
    OBVIOUS
  <2>2. Taken' \in Nat /\ Taken' - Len(size') = Taken' /\ Taken' <= Len(file)
    <3>1. Taken' = position - Len(buffer)
      BY <1>6
    <3> QED BY <1>5, <2>1, <3>1
  <2>3. Holds(file', Taken' - Len(size'), size')
    <3>1. Holds(file, Taken', <<>>)
      <4>1. Len(<<>>) = 0 /\ Taken' + 0 <= Len(file)
        BY <1>5, <2>2
      <4> QED BY <2>2, <4>1 DEF Holds
    <3> QED BY <1>4, <2>2, <3>1
  <2>4. MaxBytes \in Nat /\ 0 < MaxBytes
    BY SizesAssumption
  <2> QED BY <2>1, <2>2, <2>3, <2>4 DEF SizeInv
<1>10. EndedInv'
  BY DEF EndedInv
<1>11. written' \in Logs /\ file' \in Seq(Nat) /\ IsPart'
  BY <1>4, SameLog
<1>12. entries' = SubSeq(written', 1, Len(entries')) /\ Len(entries') \in 0..Len(written')
  BY <1>4, <1>7
<1> QED BY <1>7, <1>8, <1>9, <1>10, <1>11, <1>12 DEF LogInv

-----------------------------------------------------------------------------
(* The actions, one by one. What is asked is a number of bytes, and the    *)
(* kind of the field tells where the reader is.                            *)
LEMMA AskedAt ==
  ASSUME LogInv, ParseInv
  PROVE  /\ Asked \in Nat
         /\ Head(fields).is = "version" => /\ fields = <<Field("version")>> /\ entry = NoEntry
                                           /\ entries = <<>> /\ Taken = 0 /\ Asked = 1
         /\ Head(fields).is = "type" => /\ fields = <<Field("type")>> /\ entry = NoEntry /\ Asked = 1
                                        /\ Taken = EntryPlace(written, Len(entries))
         /\ Head(fields).is \in {"length", "id", "dep_count"} => Asked = 1
<1>2. \A is : Head(<<Field(is)>>).is = is /\ Head(<<Field(is)>>).count = 1
  BY DEF Field
<1>3. CASE InsideEntry
  <2>1. PICK e, j : Here(e, j)
    BY <1>3, AtField
  <2>2. fields = FieldsLeft(e, j) /\ IsEntry(e) /\ j \in 0..(Len(EntryParts(e)) - 1)
    BY <2>1 DEF Here
  <2>3. /\ Head(fields).count \in Nat
        /\ Head(fields).is \in {"scalar", "name", "length", "id", "dep_count"}
        /\ Head(fields).is = "length" => LengthAt(e, j)
        /\ Head(fields).is = "id" => IdAt(e, j)
        /\ Head(fields).is = "dep_count" => DepCountAt(e, j)
    BY <2>2, FieldIs
  <2>4. \A is : Field(is).count = 1
    BY DEF Field
  <2>5. Head(fields).is \in {"length", "id", "dep_count"} => Asked = 1
    BY <2>2, <2>3, <2>4 DEF LengthAt, IdAt, DepCountAt, Asked
  <2> QED BY <2>3, <2>5 DEF Asked
<1>4. CASE fields = <<Field("version")>> /\ entry = NoEntry /\ entries = <<>> /\ Taken = 0
  <2>1. Head(fields).is = "version" /\ Asked = 1
    BY <1>2, <1>4 DEF Asked
  <2> QED BY <1>4, <2>1
<1>5. CASE fields = <<Field("type")>> /\ entry = NoEntry /\ Taken = EntryPlace(written, Len(entries))
  <2>1. Head(fields).is = "type" /\ Asked = 1
    BY <1>2, <1>5 DEF Asked
  <2> QED BY <1>5, <2>1
<1> QED BY <1>3, <1>4, <1>5 DEF ParseInv

(* So it is as long as nothing has ended.                                  *)
LEMMA Asks ==
  ASSUME LogInv, ended = "no"
  PROVE  /\ Asked \in Nat
         /\ Head(fields).is = "version" => /\ fields = <<Field("version")>> /\ entry = NoEntry
                                           /\ entries = <<>> /\ Taken = 0 /\ Asked = 1
         /\ Head(fields).is = "type" => /\ fields = <<Field("type")>> /\ entry = NoEntry /\ Asked = 1
                                        /\ Taken = EntryPlace(written, Len(entries))
         /\ Head(fields).is \in {"length", "id", "dep_count"} => Asked = 1
<1>1. ParseInv
  BY DEF LogInv
<1> QED BY <1>1, AskedAt

(* In a field of an entry the reader is in a part of it.                   *)
LEMMA InPart ==
  ASSUME LogInv, ended = "no", Head(fields).is \notin {"version", "type"}
  PROVE  \E e, j : Here(e, j)
<1>1. ParseInv
  BY DEF LogInv
<1>2. \A is : Head(<<Field(is)>>).is = is
  BY DEF Field
<1>3. InsideEntry
  BY <1>1, <1>2 DEF ParseInv
<1> QED BY <1>3, AtField

(* Nothing but the buffer and the bytes of the field changes.              *)
LEMMA StreamMoves ==
  ASSUME LogInv, ended = "no", StreamInv', Taken' = Taken,
         UNCHANGED <<file, written, size, fields, entry, entries, ended>>
  PROVE  LogInv'
<1>1. SizeInv /\ ParseInv /\ Len(entries) \in 0..Len(written) /\ entries = SubSeq(written, 1, Len(entries))
  BY DEF LogInv
<1>2. SizeInv'
  BY <1>1 DEF SizeInv
<1>3. ParseInv'
  BY <1>1 DEF ParseInv, InsideEntry, InEntry
<1>4. EndedInv'
  BY DEF EndedInv
<1>5. written' \in Logs /\ file' \in Seq(Nat) /\ IsPart'
  BY SameLog
<1> QED BY <1>1, <1>2, <1>3, <1>4, <1>5 DEF LogInv

(* read() fills the empty buffer.                                          *)
LEMMA RefillKeeps ==
  ASSUME LogInv, Refill
  PROVE  LogInv'
<1>1. ended = "no" /\ buffer = <<>> /\ UNCHANGED <<file, written, got, size, fields, entry, entries, ended>>
  BY DEF Refill
<1>2. PICK n \in 1..BufferSize :
        /\ position + n <= Len(file)
        /\ buffer' = SubSeq(file, position + 1, position + n) /\ position' = position + n
  BY DEF Refill
<1>3. n \in Nat /\ n >= 1
  BY SizesAssumption
<1>4. StreamInv /\ file \in Seq(Nat)
  BY <1>1 DEF LogInv
<1>5. Len(buffer) = 0 /\ Len(got) \in Nat /\ position \in Nat /\ Len(file) \in Nat
  BY <1>1, <1>4 DEF StreamInv
<1>6. buffer' \in Seq(Nat) /\ Len(buffer') = n /\ \A i \in 1..n : buffer'[i] = file[position + i]
  BY <1>2, <1>3, <1>4, <1>5
<1>7. position' - Len(buffer') = position /\ Taken' = Taken
  <2>0. PICK b, p : b = Len(buffer') /\ p = position'
    OBVIOUS
  <2>1. position' - Len(buffer') = position /\ position - Len(buffer) = position
    <3>1. b = n /\ p = position + n /\ position \in Nat /\ n \in Nat
      BY <1>2, <1>3, <1>5, <1>6, <2>0
    <3>2. p - b = position /\ position - 0 = position
      BY <3>1
    <3> QED BY <1>5, <2>0, <3>2
  <2> QED BY <1>1, <2>1 DEF Taken
<1>8. Holds(file, position, buffer')
  BY <1>2, <1>5, <1>6 DEF Holds
<1>9. StreamInv'
  <2>1. Len(got) <= position /\ got \in Seq(Nat) /\ Holds(file, Taken, got) /\ fields # <<>> /\ Len(got) <= Asked
    BY <1>4, <1>5 DEF StreamInv
  <2>2. position' \in 0..Len(file') /\ Len(buffer') + Len(got') <= position'
    BY <1>1, <1>2, <1>3, <1>5, <1>6, <2>1
  <2>3. Len(got') <= Asked'
    BY <1>1, <2>1 DEF Asked
  <2> QED BY <1>1, <1>6, <1>7, <1>8, <2>1, <2>2, <2>3 DEF StreamInv
<1> QED BY <1>1, <1>7, <1>9, StreamMoves

(* fill_() moves bytes from the buffer to the value.                       *)
LEMMA FillKeeps ==
  ASSUME LogInv, Fill
  PROVE  LogInv'
<1> DEFINE missing == Asked - Len(got)
           n == IF missing < Len(buffer) THEN missing ELSE Len(buffer)
<1>1. /\ ended = "no" /\ Len(got) < Asked /\ buffer # <<>>
      /\ UNCHANGED <<file, written, position, size, fields, entry, entries, ended>>
      /\ got' = got \o SubSeq(buffer, 1, n) /\ buffer' = SubSeq(buffer, n + 1, Len(buffer))
  BY DEF Fill
<1>2. StreamInv /\ file \in Seq(Nat) /\ Asked \in Nat
  BY <1>1, Asks DEF LogInv
<1>3. /\ Len(got) \in Nat /\ Len(buffer) \in Nat /\ position \in Nat /\ Len(file) \in Nat
      /\ got \in Seq(Nat) /\ buffer \in Seq(Nat) /\ Len(buffer) + Len(got) <= position /\ position <= Len(file)
  BY <1>2 DEF StreamInv
<1>4. n \in 0..Len(buffer) /\ Len(got) + n <= Asked
  BY <1>1, <1>2, <1>3
<1>15. /\ Len(got) \in Nat /\ Len(buffer) \in Nat /\ position \in Nat /\ Len(file) \in Nat /\ n \in Nat
       /\ Len(buffer) + Len(got) <= position /\ position <= Len(file) /\ n <= Len(buffer)
  BY <1>3, <1>4
<1> HIDE DEF n, missing
<1> DEFINE b == SubSeq(buffer, 1, n)
           c == SubSeq(buffer, n + 1, Len(buffer))
<1>5. /\ b \in Seq(Nat) /\ Len(b) = n /\ \A i \in 1..n : b[i] = buffer[i]
      /\ c \in Seq(Nat) /\ Len(c) = Len(buffer) - n /\ \A i \in 1..(Len(buffer) - n) : c[i] = buffer[n + i]
  BY <1>3, <1>4
<1>6. got' = got \o b /\ buffer' = c
  BY <1>1
<1> HIDE DEF b, c
<1>7. /\ got \o b \in Seq(Nat) /\ Len(got \o b) = Len(got) + Len(b)
      /\ \A i \in 1..Len(got) : (got \o b)[i] = got[i]
      /\ \A i \in (Len(got) + 1)..(Len(got) + Len(b)) : (got \o b)[i] = b[i - Len(got)]
  BY <1>3, <1>5, ConcatFacts
<1>8. Len(got') = Len(got) + n /\ Len(buffer') = Len(buffer) - n
  BY <1>5, <1>6, <1>7
<1>9. Taken' = Taken /\ Taken \in Nat /\ Taken + Len(got) = position - Len(buffer)
  <2>1. Taken' = position - Len(buffer') - Len(got') /\ Taken = position - Len(buffer) - Len(got)
    BY <1>1 DEF Taken
  <2> QED BY <1>8, <1>15, <2>1
<1>10. Holds(file, Taken, got) /\ Holds(file, position - Len(buffer), buffer)
  BY <1>2 DEF StreamInv
<1>11. \A i \in 1..Len(buffer) : file[Taken + Len(got) + i] = buffer[i]
  BY <1>9, <1>10 DEF Holds
<1>12. Holds(file', position' - Len(buffer'), buffer')
  <2>1. position - Len(buffer') = Taken + Len(got) + n
    BY <1>8, <1>9, <1>15
  <2>2. Taken + Len(got) + n \in Nat /\ Taken + Len(got) + n + Len(buffer') <= Len(file)
    BY <1>3, <1>4, <1>8, <1>9
  <2>3. ASSUME NEW i \in 1..Len(buffer')
        PROVE  file[Taken + Len(got) + n + i] = buffer'[i]
    <3>1. i \in 1..(Len(buffer) - n) /\ n + i \in 1..Len(buffer)
          /\ Taken + Len(got) + (n + i) = Taken + Len(got) + n + i
      BY <1>3, <1>4, <1>8, <1>9
    <3> QED BY <1>5, <1>6, <1>11, <3>1
  <2> QED BY <1>1, <2>1, <2>2, <2>3 DEF Holds
<1>13. Holds(file', Taken', got')
  <2>1. Taken + Len(got') <= Len(file)
    BY <1>3, <1>4, <1>8, <1>9
  <2>2. ASSUME NEW i \in 1..Len(got')
        PROVE  file[Taken + i] = got'[i]
    <3>1. CASE i <= Len(got)
      <4>1. i \in 1..Len(got)
        BY <1>3, <3>1
      <4> QED BY <1>6, <1>7, <1>10, <4>1 DEF Holds
    <3>2. CASE i > Len(got)
      <4>1. /\ i \in (Len(got) + 1)..(Len(got) + Len(b)) /\ i - Len(got) \in 1..n
            /\ i - Len(got) \in 1..Len(buffer) /\ Taken + Len(got) + (i - Len(got)) = Taken + i
        <5>1. i \in Nat /\ i <= Len(got) + n /\ Len(b) = n
          BY <1>5, <1>8, <1>15
        <5>2. i - Len(got) \in Nat /\ i - Len(got) >= 1 /\ i - Len(got) <= n
          BY <1>15, <3>2, <5>1
        <5>3. Taken + Len(got) + (i - Len(got)) = Taken + i
          BY <1>9, <1>15, <5>1
        <5> QED BY <1>15, <5>1, <5>2, <5>3
      <4>2. got'[i] = b[i - Len(got)]
        BY <1>6, <1>7, <4>1
      <4>3. b[i - Len(got)] = buffer[i - Len(got)]
        BY <1>5, <4>1
      <4>4. file[Taken + Len(got) + (i - Len(got))] = buffer[i - Len(got)]
        BY <1>11, <4>1
      <4> QED BY <4>1, <4>2, <4>3, <4>4
    <3> QED BY <1>3, <1>8, <1>4, <3>1, <3>2
  <2> QED BY <1>1, <1>9, <2>1, <2>2 DEF Holds
<1>14. StreamInv'
  <2>1. Len(got') <= Asked'
    BY <1>1, <1>4, <1>8 DEF Asked
  <2>2. fields' # <<>> /\ position' \in 0..Len(file')
    BY <1>1, <1>2 DEF StreamInv
  <2>3. Len(buffer') + Len(got') <= position'
    <3>1. position' = position
      BY <1>1
    <3> QED BY <1>8, <1>15, <3>1
  <2> QED BY <1>5, <1>6, <1>7, <1>12, <1>13, <2>1, <2>2, <2>3 DEF StreamInv
<1> QED BY <1>1, <1>9, <1>14, StreamMoves

(* The end of the file ends the log between two entries, and only there.   *)
LEMMA ReachEndKeeps ==
  ASSUME LogInv, ReachEnd
  PROVE  LogInv'
<1>1. /\ ended = "no" /\ Len(got) < Asked /\ buffer = <<>> /\ position = Len(file)
      /\ ended' = IF Head(fields).is = "type" /\ got = <<>> THEN "end" ELSE "unexpected_end_of_file"
      /\ UNCHANGED <<file, written, position, buffer, got, size, fields, entry, entries>>
  BY DEF ReachEnd
<1>2. StreamInv /\ SizeInv /\ ParseInv
      /\ Len(entries) \in 0..Len(written) /\ entries = SubSeq(written, 1, Len(entries))
  BY <1>1 DEF LogInv
<1>3. StreamInv'
  BY <1>1, <1>2 DEF StreamInv, Taken, Asked
<1>4. SizeInv'
  BY <1>1, <1>2 DEF SizeInv, Taken
<1>5. ParseInv'
  BY <1>1, <1>2 DEF ParseInv, InsideEntry, InEntry, Taken
<1>6. EndedInv'
  <2>1. Head(fields).is = "type" => fields = <<Field("type")>>
    BY <1>1, Asks
  <2>2. Asked' = Asked
    BY <1>1 DEF Asked
  <2> QED BY <1>1, <2>1, <2>2 DEF EndedInv
<1>7. written' \in Logs /\ file' \in Seq(Nat) /\ IsPart'
  BY <1>1, SameLog
<1> QED BY <1>1, <1>2, <1>3, <1>4, <1>5, <1>6, <1>7 DEF LogInv

(* The counts of the stream.                                               *)
LEMMA StreamTyped ==
  ASSUME LogInv, ended = "no"
  PROVE  /\ position \in Nat /\ Len(buffer) \in Nat /\ Len(got) \in Nat /\ Len(size) \in Nat
         /\ Len(file) \in Nat /\ position <= Len(file) /\ Len(buffer) + Len(got) <= position
<1>1. StreamInv /\ SizeInv /\ file \in Seq(Nat)
  BY DEF LogInv
<1>2. Len(file) \in Nat
  BY <1>1
<1> QED BY <1>1, <1>2 DEF StreamInv, SizeInv

(* The first byte is the version.                                          *)
LEMMA GetVersionKeeps ==
  ASSUME LogInv, GetVersion
  PROVE  LogInv'
<1>1. ended = "no" /\ Head(fields).is = "version" /\ Len(got) = Asked /\ size' = size
  BY DEF GetVersion, Has
<1>2. /\ fields = <<Field("version")>> /\ entry = NoEntry /\ entries = <<>> /\ Taken = 0 /\ Asked = 1
      /\ StreamInv /\ SizeInv /\ written \in Logs /\ Len(entries) \in 0..Len(written)
      /\ entries = SubSeq(written, 1, Len(entries))
  BY <1>1, Asks DEF LogInv
<1>3. got \in Seq(Nat) /\ Len(got) = 1 /\ Holds(file, 0, got) /\ size = <<>>
  BY <1>1, <1>2 DEF StreamInv, SizeInv
<1>4. LogBytes(written)[1] = VersionByte /\ EntryPlace(written, 0) = 1
  BY <1>2, EntryPlaces
<1>5. Head(got) = VersionByte
  <2>1. Holds(LogBytes(written), 0, got)
    BY <1>3, InLog
  <2>2. 1 \in 1..Len(got) /\ 0 + 1 = 1
    BY <1>3
  <2>3. LogBytes(written)[1] = got[1]
    BY <2>1, <2>2 DEF Holds
  <2>4. Head(got) = got[1]
    BY <1>3
  <2> QED BY <1>4, <2>3, <2>4
<1>6. /\ fields' = <<Field("type")>> /\ got' = <<>>
      /\ UNCHANGED <<file, written, position, buffer, entry, entries, ended>>
  BY <1>5 DEF GetVersion
<1>7. position \in Nat /\ Len(buffer) \in Nat /\ position - Len(buffer) = 1 /\ position <= Len(file) /\ Len(file) \in Nat
  <2>1. position \in Nat /\ Len(buffer) \in Nat /\ position <= Len(file) /\ Len(file) \in Nat
    BY <1>1, StreamTyped
  <2>2. position - Len(buffer) - 1 = 0
    BY <1>2, <1>3 DEF Taken
  <2> QED BY <2>1, <2>2
<1>8. Taken' = 1 /\ Len(size') = 0
  <2>1. Len(got') = 0 /\ Len(size') = 0
    BY <1>1, <1>3, <1>6
  <2>2. Taken' = position - Len(buffer) - 0
    BY <1>6, <2>1 DEF Taken
  <2> QED BY <1>7, <2>1, <2>2
<1>9. Head(fields').count = 1 /\ fields' # <<>>
  <2>1. Head(fields') = Field("type") /\ fields' # <<>>
    BY <1>6
  <2> QED BY <2>1 DEF Field
<1>10. Holds(file, 1, <<>>)
  BY <1>7 DEF Holds
<1>11. StreamInv'
  <2>1. Len(got') = 0 /\ Asked' = 1 /\ got' \in Seq(Nat)
    BY <1>6, <1>9 DEF Asked
  <2>2. buffer \in Seq(Nat) /\ Holds(file, position - Len(buffer), buffer) /\ position \in 0..Len(file)
    BY <1>2 DEF StreamInv
  <2>3. Len(got') <= Asked' /\ Len(buffer') + Len(got') <= position'
    BY <1>6, <1>7, <2>1
  <2>4. Holds(file', position' - Len(buffer'), buffer') /\ Holds(file', Taken', got')
    BY <1>6, <1>8, <1>10, <2>2
  <2> QED BY <1>6, <1>9, <2>1, <2>2, <2>3, <2>4 DEF StreamInv
<1>12. SizeInv'
  <2>1. size' = <<>> /\ size' \in Seq(Nat) /\ DOMAIN size' = {} /\ 1 - 0 = 1 /\ 0 <= 1
    BY <1>1, <1>3
  <2>2. 0 < MaxBytes
    BY SizesAssumption
  <2>3. Taken' - Len(size') = 1
    BY <1>8
  <2> QED BY <1>6, <1>8, <1>10, <2>1, <2>2, <2>3 DEF SizeInv
<1>13. ParseInv'
  <2>1. EntryPlace(written', Len(entries')) = 1
    <3>1. Len(entries) = 0
      BY <1>2
    <3> QED BY <1>4, <1>6, <3>1
  <2> QED BY <1>2, <1>6, <1>8, <2>1 DEF ParseInv
<1>14. EndedInv'
  BY <1>1, <1>6 DEF EndedInv
<1>15. written' \in Logs /\ file' \in Seq(Nat) /\ IsPart'
  BY <1>6, SameLog
<1> QED BY <1>2, <1>6, <1>11, <1>12, <1>13, <1>14, <1>15 DEF LogInv

(* Between two entries is the type of the next one.                        *)
LEMMA GetTypeKeeps ==
  ASSUME LogInv, GetType
  PROVE  LogInv'
<1>1. ended = "no" /\ Head(fields).is = "type" /\ Len(got) = Asked /\ size' = size
  BY DEF GetType, Has
<1> DEFINE k == Len(entries)
           e == written[k + 1]
           B == LogBytes(written)
           parts == EntryParts(e)
           start == EntryPlace(written, k)
<1>2. /\ fields = <<Field("type")>> /\ entry = NoEntry /\ Taken = start /\ Asked = 1
      /\ StreamInv /\ SizeInv /\ written \in Logs /\ k \in 0..Len(written)
      /\ entries = SubSeq(written, 1, Len(entries))
  BY <1>1, Asks DEF LogInv
<1>3. got \in Seq(Nat) /\ Len(got) = 1 /\ Holds(B, start, got) /\ size = <<>> /\ B \in Seq(Nat)
  <2>1. got \in Seq(Nat) /\ Holds(file, start, got) /\ size = <<>>
    BY <1>1, <1>2 DEF StreamInv, SizeInv
  <2> QED BY <1>1, <1>2, <2>1, InLog
<1>4. k # Len(written)
  <2> SUFFICES ASSUME k = Len(written) PROVE FALSE
    OBVIOUS
  <2>1. start = Len(B)
    BY <1>2, EntryPlaces
  <2>2. Len(B) + 1 <= Len(B) /\ Len(B) \in Nat
    BY <1>3, <2>1 DEF Holds
  <2> QED BY <2>2
<1>5. Len(written) \in Nat /\ \A n \in 1..Len(written) : IsEntry(written[n])
  BY <1>2, LogTyped
<1>6. k \in 0..(Len(written) - 1) /\ k + 1 \in 1..Len(written) /\ k \in Nat /\ k < Len(written)
  BY <1>2, <1>4, <1>5
<1>7. IsEntry(e) /\ PlacesOf(written, k)
  BY <1>2, <1>5, <1>6, EntryPlaces
<1>8. Head(got) = TypeByte[e.kind] /\ e.kind \in DOMAIN TypeByte
  <2>1. Holds(B, start, <<TypeByte[e.kind]>>)
    BY <1>7 DEF PlacesOf
  <2>2. e.kind \in {"root_entity_name", "entity_name", "file_update"}
    BY <1>7 DEF IsEntry
  <2>3. 1 \in 1..Len(got) /\ 1 \in 1..Len(<<TypeByte[e.kind]>>)
    BY <1>3
  <2>4. B[start + 1] = got[1] /\ B[start + 1] = <<TypeByte[e.kind]>>[1]
    BY <1>3, <2>1, <2>3 DEF Holds
  <2>5. <<TypeByte[e.kind]>>[1] = TypeByte[e.kind] /\ Head(got) = got[1]
    BY <1>3
  <2> QED BY <2>2, <2>4, <2>5 DEF TypeByte
<1>9. (CHOOSE c \in DOMAIN TypeByte : TypeByte[c] = Head(got)) = e.kind
  <2>1. \A c \in DOMAIN TypeByte : TypeByte[c] = Head(got) => c = e.kind
    BY <1>8 DEF TypeByte
  <2> QED BY <1>8, <2>1
<1>10. Proceed([NoEntry EXCEPT !.kind = e.kind], FieldsOf[e.kind]) /\ ended' = ended
  BY <1>8, <1>9, Zenon DEF GetType
<1>11. FieldsOf[e.kind] \o Tail(fields) = FieldsLeft(e, 0) /\ FieldsLeft(e, 0) # <<>>
       /\ Head(FieldsLeft(e, 0)).count \in Nat /\ Len(parts) >= 1 /\ Len(parts) \in Nat
  <2>1. Tail(fields) = <<>>
    BY <1>2
  <2>2. Len(parts) \in Nat /\ Len(parts) >= 1
    <3>1. PartsOfName(e) /\ PartsOfUpdate(e)
      BY <1>7, PartsAre
    <3> HIDE DEF parts
    <3>2. /\ e.kind = "root_entity_name" => Len(parts) = 2
          /\ e.kind = "entity_name" => Len(parts) = 3
          /\ e.kind = "file_update" => Len(parts) = Len(e.ids) + 3
      BY <3>1 DEF PartsOfName, PartsOfUpdate, parts
    <3>3. Len(e.ids) \in Nat /\ e.kind \in {"root_entity_name", "entity_name", "file_update"}
      BY <1>7, EntryIs DEF IsEntry
    <3>4. CASE e.kind = "root_entity_name"
      BY <3>2, <3>4
    <3>5. CASE e.kind = "entity_name"
      BY <3>2, <3>5
    <3>6. CASE e.kind = "file_update"
      <4>1. Len(parts) = Len(e.ids) + 3 /\ Len(e.ids) \in Nat
        BY <3>2, <3>3, <3>6
      <4> DEFINE m == Len(e.ids)
                 l == Len(parts)
      <4> HIDE DEF m, l
      <4>2. l = m + 3 /\ m \in Nat
        BY <4>1 DEF l, m
      <4>3. l \in Nat /\ l >= 1
        BY <4>2
      <4> QED BY <4>3 DEF l
    <3> QED BY <3>3, <3>4, <3>5, <3>6
  <2>3. 0 \in 0..(Len(parts) - 1)
    BY <2>2
  <2>4. FieldsLeft(e, 0) # <<>> /\ Head(FieldsLeft(e, 0)).count \in Nat
    BY <1>7, <2>3, FieldIs
  <2>5. FieldsOf[e.kind] = FieldsLeft(e, 0)
    <3>1. CASE e.kind = "root_entity_name"
      BY <3>1 DEF FieldsOf, FieldsLeft
    <3>2. CASE e.kind = "entity_name"
      BY <3>2 DEF FieldsOf, FieldsLeft
    <3>3. CASE e.kind = "file_update"
      BY <3>3 DEF FieldsOf, FieldsLeft
    <3> QED BY <1>7, <3>1, <3>2, <3>3 DEF IsEntry
  <2>6. FieldsLeft(e, 0) \o <<>> = FieldsLeft(e, 0)
    <3>1. \A x : <<x>> \o <<>> = <<x>>
      OBVIOUS
    <3>2. \A x, y : <<x, y>> \o <<>> = <<x, y>>
      OBVIOUS
    <3>3. \A x, y, z, w : <<x, y, z, w>> \o <<>> = <<x, y, z, w>>
      OBVIOUS
    <3> QED BY <1>7, <3>1, <3>2, <3>3 DEF FieldsLeft, IsEntry
  <2> QED BY <2>1, <2>2, <2>4, <2>5, <2>6
<1>12. /\ fields' = FieldsLeft(e, 0) /\ entry' = EntryRead(e, 0) /\ entries' = entries /\ got' = <<>>
       /\ UNCHANGED <<file, written, position, buffer>>
  <2>1. [NoEntry EXCEPT !.kind = e.kind] = EntryRead(e, 0)
    <3>1. IdsRead(e, 0) = 0 /\ BytesRead(e, 0) = <<>>
      BY <1>7 DEF IdsRead, BytesRead, IsEntry
    <3>2. SubSeq(e.ids, 1, 0) = <<>>
      BY <1>7, EntryIs
    <3>3. EntryRead(e, 0) = [kind |-> e.kind, ids |-> <<>>, bytes |-> <<>>]
      BY <3>1, <3>2 DEF EntryRead
    <3> QED BY <3>3 DEF NoEntry
  <2> QED BY <1>10, <1>11, <2>1 DEF Proceed
<1>13. /\ position \in Nat /\ Len(buffer) \in Nat /\ position <= Len(file) /\ Len(file) \in Nat
       /\ Len(buffer) <= position /\ start \in Nat /\ position - Len(buffer) - 1 = start
  <2>1. /\ position \in Nat /\ Len(buffer) \in Nat /\ position <= Len(file) /\ Len(file) \in Nat
        /\ Len(buffer) + 1 <= position
    BY <1>1, <1>3, StreamTyped
  <2>2. position - Len(buffer) - 1 = start
    BY <1>2, <1>3 DEF Taken
  <2> HIDE DEF start
  <2> QED BY <2>1, <2>2
<1>14. Taken' = start + 1 /\ Taken' = position - Len(buffer) /\ Taken' \in Nat /\ Len(size') = 0
  <2>1. Len(got') = 0 /\ Len(size') = 0
    BY <1>1, <1>3, <1>12
  <2>2. Taken' = position - Len(buffer) - 0
    BY <1>12, <2>1 DEF Taken
  <2> HIDE DEF start
  <2> QED BY <1>13, <2>1, <2>2
<1>15. Holds(file, Taken', <<>>)
  <2>1. Taken' + 0 <= Len(file) /\ Len(<<>>) = 0
    BY <1>13, <1>14
  <2> QED BY <1>14, <2>1 DEF Holds
<1>16. StreamInv'
  <2>1. Len(got') = 0 /\ Asked' \in Nat /\ got' \in Seq(Nat)
    BY <1>11, <1>12 DEF Asked
  <2>2. buffer \in Seq(Nat) /\ Holds(file, position - Len(buffer), buffer) /\ position \in 0..Len(file)
    BY <1>2 DEF StreamInv
  <2>3. Len(got') <= Asked' /\ Len(buffer') + Len(got') <= position'
    BY <1>12, <1>13, <2>1
  <2>4. Holds(file', position' - Len(buffer'), buffer') /\ Holds(file', Taken', got')
    BY <1>12, <1>15, <2>2
  <2> QED BY <1>11, <1>12, <2>1, <2>2, <2>3, <2>4 DEF StreamInv
<1>17. SizeInv'
  <2>1. size' = <<>> /\ size' \in Seq(Nat) /\ DOMAIN size' = {}
    BY <1>1, <1>3
  <2>2. 0 < MaxBytes
    BY SizesAssumption
  <2>3. Taken' - Len(size') = Taken' /\ 0 <= Taken'
    BY <1>14
  <2> QED BY <1>12, <1>14, <1>15, <2>1, <2>2, <2>3 DEF SizeInv
<1>18. ParseInv'
  <2>1. 0 \in 0..(Len(parts) - 1)
    BY <1>11
  <2>2. Place(parts, 0) = 0
    BY <1>2, <1>6, PartPlaces
  <2>3. PICK f : f = e
    OBVIOUS
  <2>4. PICK s : s = start
    OBVIOUS
  <2>5. InEntry(f, s, 0)'
    <3>1. Taken' - Len(size') = s + 1 + Place(EntryParts(f), 0)
      <4>1. Place(EntryParts(f), 0) = 0
        BY <2>2, <2>3
      <4>2. s \in Nat /\ Taken' = s + 1
        BY <1>13, <1>14, <2>4
      <4> QED BY <1>14, <4>1, <4>2
    <3> QED BY <1>12, <2>3, <3>1 DEF InEntry
  <2>6. /\ Len(entries') < Len(written') /\ written'[Len(entries') + 1] = f
        /\ EntryPlace(written', Len(entries')) = s /\ 0 \in 0..(Len(EntryParts(f)) - 1)
    BY <1>6, <1>12, <2>1, <2>3, <2>4
  <2> QED BY <2>5, <2>6 DEF ParseInv, InsideEntry
<1>19. EndedInv'
  BY <1>1, <1>10 DEF EndedInv
<1>20. written' \in Logs /\ file' \in Seq(Nat) /\ IsPart'
  BY <1>12, SameLog
<1> QED BY <1>2, <1>12, <1>16, <1>17, <1>18, <1>19, <1>20 DEF LogInv

(* The bytes of a number up to now are in the file one after the other.    *)
LEMMA SizeReadIs ==
  ASSUME LogInv, AtSize
  PROVE  /\ ended = "no" /\ Head(fields).is \in {"length", "id", "dep_count"} /\ Len(got) = 1
         /\ SizeRead \in Seq(Nat) /\ Len(SizeRead) = Len(size) + 1
         /\ (\A n \in 1..(Len(SizeRead) - 1) : SizeRead[n] >= Radix) /\ SizeRead[Len(SizeRead)] = Head(got)
         /\ Head(got) \in Nat /\ Taken - Len(size) \in Nat
         /\ Holds(file, Taken - Len(size), SizeRead)
<1>1. ended = "no" /\ Head(fields).is \in {"length", "id", "dep_count"} /\ Len(got) = Asked
  BY DEF AtSize, Has
<1>2. StreamInv /\ SizeInv /\ Asked = 1
  BY <1>1, Asks DEF LogInv
<1>3. got \in Seq(Nat) /\ Len(got) = 1 /\ Holds(file, Taken, got)
  BY <1>1, <1>2 DEF StreamInv
<1>4. /\ size \in Seq(Nat) /\ Len(size) \in Nat /\ Len(size) <= Taken /\ Holds(file, Taken - Len(size), size)
      /\ \A n \in 1..Len(size) : size[n] >= Radix
  BY <1>2 DEF SizeInv
<1> DEFINE b == Head(got)
           t == Append(size, b)
           p == Taken - Len(size)
<1>5. b = got[1] /\ b \in Nat
  BY <1>3
<1>6. Taken \in Nat /\ p \in Nat /\ p + Len(size) = Taken
  <2>1. Taken \in Nat
    BY <1>3 DEF Holds
  <2> QED BY <1>4, <2>1
<1>7. /\ t \in Seq(Nat) /\ Len(t) = Len(size) + 1 /\ t[Len(size) + 1] = b
      /\ \A n \in 1..Len(size) : t[n] = size[n]
  <2> HIDE DEF b
  <2> QED BY <1>4, <1>5
<1>8. Holds(file, p, t)
  <2>1. 1 \in 1..Len(got) /\ Taken + Len(got) <= Len(file)
    BY <1>3 DEF Holds
  <2>2. file[Taken + 1] = b
    BY <1>3, <1>5, <2>1 DEF Holds
  <2>3. ASSUME NEW n \in 1..Len(t)
        PROVE  file[p + n] = t[n]
    <3>1. CASE n = Len(size) + 1
      <4>1. p + n = Taken + 1
        BY <1>4, <1>6, <3>1
      <4> QED BY <1>7, <2>2, <3>1, <4>1
    <3>2. CASE n # Len(size) + 1
      <4>1. n \in 1..Len(size)
        BY <1>4, <1>7, <3>2
      <4>2. file[p + n] = size[n]
        BY <1>4, <4>1 DEF Holds
      <4> QED BY <1>7, <4>1, <4>2
    <3> QED BY <3>1, <3>2
  <2>4. p + Len(t) = Taken + 1
    <3>1. Len(t) = Len(size) + 1 /\ Len(size) \in Nat /\ p \in Nat /\ p + Len(size) = Taken /\ Taken \in Nat
      BY <1>4, <1>6, <1>7
    <3> HIDE DEF p, t
    <3> QED BY <3>1
  <2>5. p + Len(t) <= Len(file)
    BY <1>3, <2>1, <2>4
  <2> QED BY <1>6, <2>3, <2>5 DEF Holds
<1>9. (\A n \in 1..(Len(t) - 1) : t[n] >= Radix) /\ t[Len(t)] = b
  <2>1. Len(t) - 1 = Len(size)
    BY <1>4, <1>7
  <2> QED BY <1>4, <1>7, <2>1
<1> QED BY <1>1, <1>3, <1>5, <1>6, <1>7, <1>8, <1>9 DEF SizeRead

(* It is a number of the entry.                                            *)
LEMMA NumberAt ==
  ASSUME NEW e, NEW j, Here(e, j), Head(fields).is \in {"length", "id", "dep_count"}
  PROVE  \E v \in Nat : v \in Numbers(e) /\ EntryParts(e)[j + 1] = VarSize[v]
<1>1. fields = FieldsLeft(e, j) /\ IsEntry(e) /\ j \in 0..(Len(EntryParts(e)) - 1)
  BY DEF Here
<1>2. e.ids \in Seq(Nat) /\ Len(e.ids) \in Nat /\ e.bytes \in Seq(Nat) /\ Len(e.bytes) \in Nat
  BY <1>1, EntryIs
<1>3. LengthAt(e, j) \/ IdAt(e, j) \/ DepCountAt(e, j)
  BY <1>1, FieldIs
<1>4. CASE LengthAt(e, j)
  <2>1. Len(e.bytes) \in Numbers(e)
    BY <1>4 DEF LengthAt, Numbers
  <2> QED BY <1>2, <1>4, <2>1 DEF LengthAt
<1>5. CASE IdAt(e, j)
  <2> DEFINE n == IdsRead(e, j) + 1
  <2>1. n \in 1..Len(e.ids) /\ EntryParts(e)[j + 1] = VarSize[e.ids[n]]
    BY <1>5 DEF IdAt
  <2> HIDE DEF n
  <2>2. e.ids[n] \in Nat /\ e.ids[n] \in ToSet(e.ids)
    BY <1>2, <2>1 DEF ToSet
  <2> QED BY <2>1, <2>2 DEF Numbers
<1>6. CASE DepCountAt(e, j)
  <2>1. Len(e.ids) - 1 \in Nat
    BY <1>1, <1>2, <1>6 DEF DepCountAt, IsEntry
  <2>2. Len(e.ids) - 1 \in Numbers(e)
    BY <1>6 DEF DepCountAt, Numbers
  <2> QED BY <1>6, <2>1, <2>2 DEF DepCountAt
<1> QED BY <1>3, <1>4, <1>5, <1>6

(* What is read of a number is what was written of it.                     *)
LEMMA NumberIs ==
  ASSUME LogInv, AtSize, NEW e, NEW j, Here(e, j), NEW v \in Nat, EntryParts(e)[j + 1] = VarSize[v]
  PROVE  /\ Len(SizeRead) <= Len(VarSize[v])
         /\ IsLast => Value(SizeRead) = v /\ Len(size) + Len(got) = Len(EntryParts(e)[j + 1])
<1> DEFINE p == Taken - Len(size)
<1>1. /\ SizeRead \in Seq(Nat) /\ Len(SizeRead) = Len(size) + 1 /\ Len(got) = 1
      /\ (\A n \in 1..(Len(SizeRead) - 1) : SizeRead[n] >= Radix) /\ SizeRead[Len(SizeRead)] = Head(got)
      /\ Holds(file, p, SizeRead) /\ Len(size) \in Nat
  BY SizeReadIs, StreamTyped
<1>2. Holds(LogBytes(written), p, SizeRead) /\ LogBytes(written) \in Seq(Nat)
  BY <1>1, InLog
<1>3. Holds(LogBytes(written), p, VarSize[v])
  BY DEF Here
<1>4. Len(SizeRead) >= 1
  BY <1>1
<1> HIDE DEF p
<1>5. /\ Len(SizeRead) <= Len(VarSize[v])
      /\ SizeRead[Len(SizeRead)] < Radix <=> Len(SizeRead) = Len(VarSize[v])
      /\ SizeRead[Len(SizeRead)] < Radix => Value(SizeRead) = v
  <2> DEFINE s == LogBytes(written)
             t == SizeRead
  <2>1. s \in Seq(Nat) /\ t \in Seq(Nat) /\ Holds(s, p, t) /\ Holds(s, p, VarSize[v]) /\ Len(t) >= 1
    BY <1>1, <1>2, <1>3, <1>4
  <2>2. \A n \in 1..(Len(t) - 1) : t[n] >= Radix
    BY <1>1
  <2> HIDE DEF s, t
  <2>3. /\ Len(t) <= Len(VarSize[v]) /\ (t[Len(t)] < Radix <=> Len(t) = Len(VarSize[v]))
        /\ t[Len(t)] < Radix => t = VarSize[v] /\ Value(t) = v
    BY <2>1, <2>2, NumberRead
  <2> QED BY <2>3 DEF t
<1> QED BY <1>1, <1>5 DEF IsLast

(* A byte of a number that is not its last.                                *)
LEMMA GetSizeByteKeeps ==
  ASSUME LogInv, GetSizeByte
  PROVE  LogInv'
<1>1. /\ AtSize /\ ~IsLast /\ Len(SizeRead) < MaxBytes /\ size' = SizeRead /\ got' = <<>>
      /\ UNCHANGED <<file, written, position, buffer, fields, entry, entries, ended>>
  BY DEF GetSizeByte
<1>2. /\ ended = "no" /\ Head(fields).is \in {"length", "id", "dep_count"} /\ Len(got) = 1
      /\ SizeRead \in Seq(Nat) /\ Len(SizeRead) = Len(size) + 1
      /\ (\A n \in 1..(Len(SizeRead) - 1) : SizeRead[n] >= Radix) /\ SizeRead[Len(SizeRead)] = Head(got)
      /\ Head(got) \in Nat /\ Taken - Len(size) \in Nat
      /\ Holds(file, Taken - Len(size), SizeRead)
  BY <1>1, SizeReadIs
<1>3. /\ StreamInv /\ SizeInv /\ ParseInv
      /\ Len(entries) \in 0..Len(written) /\ entries = SubSeq(written, 1, Len(entries))
  BY <1>2 DEF LogInv
<1>4. /\ position \in Nat /\ Len(buffer) \in Nat /\ Len(got) \in Nat /\ Len(size) \in Nat
      /\ Len(file) \in Nat /\ position <= Len(file) /\ Len(buffer) + Len(got) <= position
  BY <1>2, StreamTyped
<1>5. Taken' = Taken + 1 /\ Taken' - Len(size') = Taken - Len(size) /\ Taken' \in Nat
      /\ Len(size') <= Taken' /\ Taken' <= Len(file)
  <2>1. Taken' = position - Len(buffer) - 0 /\ Taken = position - Len(buffer) - 1
    <3>1. Len(got') = 0
      BY <1>1
    <3> QED BY <1>1, <1>2, <3>1 DEF Taken
  <2>2. Len(size') = Len(size) + 1
    BY <1>1, <1>2
  <2>3. Taken - Len(size) \in Nat
    BY <1>2
  <2> QED BY <1>2, <1>4, <2>1, <2>2, <2>3
<1>6. Holds(file, Taken', <<>>)
  <2>1. Taken' + 0 <= Len(file) /\ Len(<<>>) = 0
    BY <1>4, <1>5
  <2> QED BY <1>5, <2>1 DEF Holds
<1>7. StreamInv'
  <2>1. Len(got') = 0 /\ got' \in Seq(Nat) /\ Asked' = 1
    <3>1. Asked' = Asked /\ Asked = 1
      BY <1>1, <1>2, Asks DEF Asked
    <3> QED BY <1>1, <3>1
  <2>2. buffer \in Seq(Nat) /\ Holds(file, position - Len(buffer), buffer) /\ position \in 0..Len(file) /\ fields # <<>>
    BY <1>3 DEF StreamInv
  <2>3. Len(got') <= Asked' /\ Len(buffer') + Len(got') <= position'
    BY <1>1, <1>4, <2>1
  <2>4. Holds(file', position' - Len(buffer'), buffer') /\ Holds(file', Taken', got')
    BY <1>1, <1>6, <2>2
  <2> QED BY <1>1, <2>1, <2>2, <2>3, <2>4 DEF StreamInv
<1>8. SizeInv'
  <2>1. \A n \in DOMAIN size' : size'[n] >= Radix
    <3>1. DOMAIN size' = 1..Len(SizeRead) /\ Len(SizeRead) \in Nat
      BY <1>1, <1>2
    <3>2. SizeRead[Len(SizeRead)] >= Radix
      BY <1>1, <1>2, SizesAssumption DEF IsLast
    <3>3. \A n \in 1..Len(SizeRead) : n = Len(SizeRead) \/ n \in 1..(Len(SizeRead) - 1)
      BY <3>1
    <3> QED BY <1>1, <1>2, <3>1, <3>2, <3>3
  <2>2. Holds(file', Taken' - Len(size'), size')
    BY <1>1, <1>2, <1>5
  <2>3. size' \in Seq(Nat) /\ Len(size') < MaxBytes
    BY <1>1, <1>2
  <2> QED BY <1>1, <1>2, <1>5, <2>1, <2>2, <2>3 DEF SizeInv
<1>9. ParseInv'
  <2>1. \A is : Head(<<Field(is)>>).is = is
    BY DEF Field
  <2>2. InsideEntry
    BY <1>2, <1>3, <2>1 DEF ParseInv
  <2>3. InsideEntry'
    BY <1>1, <1>5, <2>2 DEF InsideEntry, InEntry
  <2> QED BY <2>3 DEF ParseInv
<1>10. EndedInv'
  BY <1>1, <1>2 DEF EndedInv
<1>11. written' \in Logs /\ file' \in Seq(Nat) /\ IsPart'
  BY <1>1, SameLog
<1> QED BY <1>1, <1>3, <1>7, <1>8, <1>9, <1>10, <1>11 DEF LogInv

(* A number is only refused if it is too large.                            *)
LEMMA GetInvalidSizeKeeps ==
  ASSUME LogInv, GetInvalidSize
  PROVE  LogInv'
<1>1. /\ AtSize /\ Len(SizeRead) = MaxBytes /\ ended' = "invalid var size_t"
      /\ UNCHANGED <<file, written, position, buffer, got, fields, entry, entries>>
  BY DEF GetInvalidSize, Refuse
<1>2. ended = "no" /\ Head(fields).is \in {"length", "id", "dep_count"}
  BY <1>1, SizeReadIs
<1>3. PICK e, j : Here(e, j)
  BY <1>2, InPart
<1>4. PICK v \in Nat : v \in Numbers(e) /\ EntryParts(e)[j + 1] = VarSize[v]
  BY <1>2, <1>3, NumberAt
<1>5. MaxBytes <= Len(VarSize[v])
  BY <1>1, <1>3, <1>4, NumberIs
<1>6. ~(v < Power[MaxBytes - 1])
  <2>1. MaxBytes \in Nat /\ MaxBytes - 1 \in Nat /\ MaxBytes - 1 >= 1
    BY SizesAssumption
  <2>2. Len(VarSize[v]) \in Nat
    BY VarSizeShape
  <2>3. v < Power[MaxBytes - 1] => Len(VarSize[v]) <= MaxBytes - 1
    BY <2>1, LongIsLarge
  <2> QED BY <1>5, <2>1, <2>2, <2>3
<1>7. e = written[Len(entries) + 1] /\ Len(entries) \in 0..(Len(written) - 1)
  BY <1>3 DEF Here
<1>8. Len(entries) < Len(written)
  <2>1. Len(written) \in Nat
    BY LogTyped DEF LogInv
  <2> QED BY <1>7, <2>1
<1>9. ~Fits(written[Len(entries) + 1])
  BY <1>4, <1>6, <1>7 DEF Fits
<1>10. EndedInv'
  BY <1>1, <1>8, <1>9 DEF EndedInv
<1>11. written' \in Logs /\ file' \in Seq(Nat) /\ IsPart'
  BY <1>1, SameLog
<1>12. Len(entries) \in 0..Len(written) /\ entries = SubSeq(written, 1, Len(entries))
  BY DEF LogInv
<1> QED BY <1>1, <1>10, <1>11, <1>12 DEF LogInv

(* The entities that an entry names were read before it.                   *)
LEMMA IdsKnown ==
  ASSUME LogInv, NEW e, NEW j, Here(e, j), NEW n \in 1..Len(e.ids)
  PROVE  Known(e.ids[n])
<1> DEFINE k == Len(entries)
<1>1. written \in Logs /\ entries = SubSeq(written, 1, k)
  BY DEF LogInv
<1>2. k \in 0..(Len(written) - 1) /\ e = written[k + 1]
  BY DEF Here
<1>3. Len(written) \in Nat
  BY <1>1, LogTyped
<1>4. k + 1 \in 1..Len(written) /\ (k + 1) - 1 = k
  BY <1>2, <1>3
<1>5. e.ids[n] < EntityCount(SubSeq(written, 1, (k + 1) - 1))
  BY <1>1, <1>2, <1>4, LogTyped
<1> QED BY <1>1, <1>4, <1>5 DEF Known

(* Outside of a number no byte of one is kept.                             *)
LEMMA NoSize ==
  ASSUME LogInv, ended = "no", Head(fields).is \in {"scalar", "name"}, Len(got) = Asked,
         NEW e, NEW j, Here(e, j), Asked = Len(EntryParts(e)[j + 1])
  PROVE  size = <<>> /\ Len(size) + Len(got) = Len(EntryParts(e)[j + 1]) /\ got = EntryParts(e)[j + 1]
<1>1. StreamInv /\ SizeInv
  BY DEF LogInv
<1>2. size = <<>> /\ Len(size) = 0
  BY <1>1 DEF SizeInv
<1>3. got \in Seq(Nat) /\ Len(got) \in Nat /\ Holds(file, Taken, got)
  BY <1>1 DEF StreamInv
<1>4. Taken - 0 = Taken
  BY <1>3 DEF Holds
<1>5. EntryParts(e)[j + 1] \in Seq(Nat) /\ Holds(LogBytes(written), Taken, EntryParts(e)[j + 1])
  BY <1>2, <1>4 DEF Here
<1>6. Holds(LogBytes(written), Taken, got) /\ LogBytes(written) \in Seq(Nat)
  BY <1>3, InLog
<1>7. got = EntryParts(e)[j + 1]
  BY <1>3, <1>5, <1>6, HoldsSame
<1> QED BY <1>2, <1>3, <1>7

(* An imprint or a hash is read.                                           *)
LEMMA GetScalarKeeps ==
  ASSUME LogInv, GetScalar
  PROVE  LogInv'
<1>1. /\ ended = "no" /\ Head(fields).is = "scalar" /\ Len(got) = Asked
      /\ Proceed([entry EXCEPT !.bytes = @ \o got], <<>>) /\ UNCHANGED <<size, ended>>
  BY DEF GetScalar, Has
<1>2. PICK e, j : Here(e, j)
  BY <1>1, InPart
<1>3. fields = FieldsLeft(e, j) /\ entry = EntryRead(e, j) /\ IsEntry(e) /\ j \in 0..(Len(EntryParts(e)) - 1)
  BY <1>2 DEF Here
<1>4. ScalarAt(e, j)
  BY <1>1, <1>3, FieldIs
<1>5. Asked = Len(EntryParts(e)[j + 1])
  <2>1. Asked = ScalarSize
    BY <1>3, <1>4 DEF ScalarAt, Asked, Scalar
  <2>2. e.bytes \in Seq(Nat) /\ Len(e.bytes) = 2 * ScalarSize /\ ScalarSize \in Nat
    BY <1>3, <1>4, EntryIs, SizesAssumption DEF ScalarAt, IsEntry
  <2>3. /\ Len(SubSeq(e.bytes, 1, ScalarSize)) = ScalarSize
        /\ Len(SubSeq(e.bytes, ScalarSize + 1, 2 * ScalarSize)) = ScalarSize
    BY <2>2
  <2> QED BY <1>4, <2>1, <2>3 DEF ScalarAt
<1>6. size = <<>> /\ Len(size) + Len(got) = Len(EntryParts(e)[j + 1]) /\ got = EntryParts(e)[j + 1]
  BY <1>1, <1>2, <1>5, NoSize
<1>7. <<>> \o Tail(fields) = Following(e, j)
  <2>1. Tail(fields) = Following(e, j) /\ (j = 0 \/ j = 1) /\ e.kind = "file_update"
    BY <1>3, <1>4 DEF ScalarAt
  <2>2. FieldsLeft(e, 0) = <<Scalar, Scalar, Field("id"), Field("dep_count")>>
        /\ FieldsLeft(e, 1) = <<Scalar, Field("id"), Field("dep_count")>>
    BY <2>1 DEF FieldsLeft
  <2>3. \A x, y, z : Tail(<<x, y, z>>) = <<y, z>> /\ <<>> \o <<y, z>> = <<y, z>>
    OBVIOUS
  <2>4. \A x, y, z, w : Tail(<<x, y, z, w>>) = <<y, z, w>> /\ <<>> \o <<y, z, w>> = <<y, z, w>>
    OBVIOUS
  <2>5. <<>> \o Tail(fields) = Tail(fields)
    BY <1>3, <2>1, <2>2, <2>3, <2>4
  <2> QED BY <2>1, <2>5
<1>8. [entry EXCEPT !.bytes = @ \o got] = NextEntry(e, j)
  BY <1>3, <1>4, <1>6, NextOfScalar
<1> QED BY <1>1, <1>2, <1>6, <1>7, <1>8, Proceeds

(* A name is read, and the entry is complete.                              *)
LEMMA GetNameKeeps ==
  ASSUME LogInv, GetName
  PROVE  LogInv'
<1>1. ended = "no" /\ Head(fields).is = "name" /\ Len(got) = Asked /\ size' = size
  BY DEF GetName, Has
<1>2. PICK e, j : Here(e, j)
  BY <1>1, InPart
<1>3. fields = FieldsLeft(e, j) /\ entry = EntryRead(e, j) /\ IsEntry(e) /\ j \in 0..(Len(EntryParts(e)) - 1)
  BY <1>2 DEF Here
<1>4. NameAt(e, j)
  BY <1>1, <1>3, FieldIs
<1>5. Asked = Len(EntryParts(e)[j + 1])
  BY <1>3, <1>4 DEF NameAt, Asked, Name
<1>6. size = <<>> /\ Len(size) + Len(got) = Len(EntryParts(e)[j + 1]) /\ got = EntryParts(e)[j + 1]
  BY <1>1, <1>2, <1>5, NoSize
<1>7. <<>> \o Tail(fields) = Following(e, j)
  BY <1>3, <1>4 DEF NameAt, Following
<1>8. [entry EXCEPT !.bytes = got] = NextEntry(e, j)
  BY <1>3, <1>4, <1>6, NextOfName
<1>9. entry.kind = "entity_name" => Known(Head(entry.ids))
  <2> SUFFICES ASSUME entry.kind = "entity_name" PROVE Known(Head(entry.ids))
    OBVIOUS
  <2>1. entry.kind = e.kind /\ entry.ids = SubSeq(e.ids, 1, IdsRead(e, j))
    BY <1>3 DEF EntryRead
  <2>2. IdsRead(e, j) = Len(e.ids) /\ Len(e.ids) = 1
    BY <1>3, <1>4, <2>1 DEF NameAt, IsEntry
  <2>3. entry.ids = e.ids /\ e.ids \in Seq(Nat)
    BY <1>3, <2>1, <2>2, EntryIs
  <2>4. Head(entry.ids) = e.ids[1] /\ 1 \in 1..Len(e.ids)
    BY <2>2, <2>3
  <2> QED BY <1>2, <2>4, IdsKnown
<1>10. Proceed([entry EXCEPT !.bytes = got], <<>>) /\ ended' = ended
  BY <1>9 DEF GetName
<1> QED BY <1>1, <1>2, <1>6, <1>7, <1>8, <1>10, Proceeds

(* The length of a name is read, and calls for the name.                   *)
LEMMA GetLengthKeeps ==
  ASSUME LogInv, GetLength
  PROVE  LogInv'
<1>1. /\ ended = "no" /\ Head(fields).is = "length" /\ IsLast /\ AtSize
      /\ Proceed(entry, <<Name(Value(SizeRead))>>) /\ size' = <<>> /\ ended' = ended
  BY DEF GetLength, Has, AtSize
<1>2. PICK e, j : Here(e, j)
  BY <1>1, InPart
<1>3. fields = FieldsLeft(e, j) /\ entry = EntryRead(e, j) /\ IsEntry(e) /\ j \in 0..(Len(EntryParts(e)) - 1)
  BY <1>2 DEF Here
<1>4. LengthAt(e, j)
  BY <1>1, <1>3, FieldIs
<1>5. Len(e.bytes) \in Nat /\ EntryParts(e)[j + 1] = VarSize[Len(e.bytes)]
  BY <1>3, <1>4, EntryIs DEF LengthAt
<1>6. Value(SizeRead) = Len(e.bytes) /\ Len(size) + Len(got) = Len(EntryParts(e)[j + 1])
  BY <1>1, <1>2, <1>5, NumberIs
<1>7. <<Name(Value(SizeRead))>> \o Tail(fields) = Following(e, j)
  BY <1>3, <1>4, <1>6 DEF LengthAt
<1>8. entry = NextEntry(e, j)
  BY <1>3, <1>4, NextOfLength
<1> QED BY <1>1, <1>2, <1>6, <1>7, <1>8, Proceeds

(* An id is read, of an entity that is known.                              *)
LEMMA GetIdKeeps ==
  ASSUME LogInv, GetId
  PROVE  LogInv'
<1>1. ended = "no" /\ Head(fields).is = "id" /\ IsLast /\ AtSize /\ size' = <<>>
  BY DEF GetId, Has, AtSize
<1>2. PICK e, j : Here(e, j)
  BY <1>1, InPart
<1>3. fields = FieldsLeft(e, j) /\ entry = EntryRead(e, j) /\ IsEntry(e) /\ j \in 0..(Len(EntryParts(e)) - 1)
  BY <1>2 DEF Here
<1>4. IdAt(e, j)
  BY <1>1, <1>3, FieldIs
<1> DEFINE n == IdsRead(e, j) + 1
<1>5. n \in 1..Len(e.ids) /\ EntryParts(e)[j + 1] = VarSize[e.ids[n]]
  BY <1>4 DEF IdAt
<1>6. e.ids[n] \in Nat
  BY <1>3, <1>5, EntryIs
<1>7. Value(SizeRead) = e.ids[n] /\ Len(size) + Len(got) = Len(EntryParts(e)[j + 1])
  BY <1>1, <1>2, <1>5, <1>6, NumberIs
<1>8. Known(Value(SizeRead))
  BY <1>2, <1>5, <1>7, IdsKnown
<1>9. Proceed([entry EXCEPT !.ids = Append(@, Value(SizeRead))], <<>>) /\ ended' = ended
  BY <1>8 DEF GetId
<1>10. [entry EXCEPT !.ids = Append(@, Value(SizeRead))] = NextEntry(e, j)
  BY <1>3, <1>4, <1>7, NextOfId
<1>11. <<>> \o Tail(fields) = Following(e, j)
  <2>1. Tail(fields) = Following(e, j)
    BY <1>3, <1>4 DEF IdAt
  <2>2. ASSUME NEW x, NEW y
        PROVE  <<>> \o Tail(<<x, y>>) = Tail(<<x, y>>)
    OBVIOUS
  <2>3. <<>> \o Tail(fields) = Tail(fields)
    <3>1. CASE e.kind = "entity_name" /\ j = 0
      <4>1. fields = <<Field("id"), Field("length")>>
        BY <1>3, <3>1 DEF FieldsLeft
      <4> QED BY <2>2, <4>1
    <3>2. CASE e.kind = "file_update" /\ j = 2
      <4>1. fields = <<Field("id"), Field("dep_count")>>
        BY <1>3, <3>2 DEF FieldsLeft
      <4> QED BY <2>2, <4>1
    <3>3. CASE e.kind = "file_update" /\ j >= 4
      <4> DEFINE m == Len(e.ids) + 3 - j
                 x == Field("id")
      <4>1. fields = [i \in 1..m |-> x]
        BY <1>3, <3>3 DEF FieldsLeft
      <4>2. fields # <<>>
        BY <1>3, FieldIs
      <4>3. m \in Nat
        <5>1. j \in Nat /\ j <= Len(EntryParts(e)) - 1 /\ Len(e.ids) \in Nat
          BY <1>3, EntryIs
        <5>2. Len(EntryParts(e)) = Len(e.ids) + 3
          BY <1>3, <3>3, PartsAre DEF PartsOfUpdate
        <5> QED BY <5>1, <5>2
      <4> HIDE DEF m, x
      <4>4. fields \in Seq({x})
        BY <4>1, <4>3
      <4> QED BY <4>2, <4>4
    <3> QED BY <1>4, <3>1, <3>2, <3>3 DEF IdAt
  <2> QED BY <2>1, <2>3
<1> QED BY <1>1, <1>2, <1>7, <1>9, <1>10, <1>11, Proceeds

(* The number of dependencies is read, and calls for as many ids.          *)
LEMMA GetDepCountKeeps ==
  ASSUME LogInv, GetDepCount
  PROVE  LogInv'
<1>1. /\ ended = "no" /\ Head(fields).is = "dep_count" /\ IsLast /\ AtSize
      /\ Proceed(entry, [k \in 1..Value(SizeRead) |-> Field("id")]) /\ size' = <<>> /\ ended' = ended
  BY DEF GetDepCount, Has, AtSize
<1>2. PICK e, j : Here(e, j)
  BY <1>1, InPart
<1>3. fields = FieldsLeft(e, j) /\ entry = EntryRead(e, j) /\ IsEntry(e) /\ j \in 0..(Len(EntryParts(e)) - 1)
  BY <1>2 DEF Here
<1>4. DepCountAt(e, j)
  BY <1>1, <1>3, FieldIs
<1>5. Len(e.ids) - 1 \in Nat /\ EntryParts(e)[j + 1] = VarSize[Len(e.ids) - 1]
  <2>1. Len(e.ids) \in Nat /\ Len(e.ids) >= 1
    BY <1>3, <1>4, EntryIs DEF DepCountAt, IsEntry
  <2> QED BY <1>4, <2>1 DEF DepCountAt
<1>6. Value(SizeRead) = Len(e.ids) - 1 /\ Len(size) + Len(got) = Len(EntryParts(e)[j + 1])
  BY <1>1, <1>2, <1>5, NumberIs
<1>7. [k \in 1..Value(SizeRead) |-> Field("id")] \o Tail(fields) = Following(e, j)
  BY <1>3, <1>4, <1>6 DEF DepCountAt
<1>8. entry = NextEntry(e, j)
  BY <1>3, <1>4, NextOfDepCount
<1> QED BY <1>1, <1>2, <1>6, <1>7, <1>8, Proceeds

-----------------------------------------------------------------------------
(* The invariant.                                                          *)

(* The reader starts at the version.                                       *)
LEMMA LogInitHolds == LogInit => IInv
<1> SUFFICES ASSUME LogInit, file \notin Foreign PROVE LogInv
  BY DEF IInv
<1> DEFINE B == LogBytes(written)
<1>1. written \in Logs /\ \E n \in 0..Len(B) : file = SubSeq(B, 1, n)
  BY DEF LogInit
<1>2. PICK n \in 0..Len(B) : file = SubSeq(B, 1, n)
  BY <1>1
<1>3. B \in Seq(Nat) /\ Len(written) \in Nat
      /\ written \in Seq([kind : DOMAIN TypeByte, ids : Seq(Nat), bytes : Seq(Nat)])
  BY <1>1, EntryPlaces, LogTyped
<1>4. position = 0 /\ buffer = <<>> /\ got = <<>> /\ size = <<>> /\ fields = <<Field("version")>>
      /\ entry = NoEntry /\ entries = <<>> /\ ended = "no"
  BY DEF LogInit
<1>5. Len(buffer) = 0 /\ Len(got) = 0 /\ Len(size) = 0 /\ Len(entries) = 0 /\ <<>> \in Seq(Nat) /\ DOMAIN size = {}
  BY <1>4
<1> HIDE DEF B
<1>6. file \in Seq(Nat) /\ Len(file) = n /\ n \in Nat /\ n <= Len(B) /\ \A i \in 1..n : file[i] = B[i]
  BY <1>2, <1>3
<1>7. IsPart
  <2>1. 0 \in Nat /\ 0 + Len(file) <= Len(B) /\ Len(file) <= Len(B)
    BY <1>3, <1>6
  <2>2. \A i \in 1..Len(file) : B[0 + i] = file[i]
    BY <1>6
  <2> QED BY <2>1, <2>2 DEF IsPart, Holds, B
<1>8. Taken = 0 /\ position - Len(buffer) = 0 /\ Taken - Len(size) = 0
  <2>1. Taken = position - Len(buffer) - Len(got)
    BY DEF Taken
  <2>2. position = 0 /\ Len(buffer) = 0 /\ Len(got) = 0 /\ Len(size) = 0
    BY <1>4, <1>5
  <2>3. 0 - 0 = 0
    OBVIOUS
  <2> QED BY <2>1, <2>2, <2>3, Zenon
<1>9. Holds(file, 0, <<>>)
  BY <1>6 DEF Holds
<1>10. Head(fields).count = 1 /\ fields # <<>>
  <2>1. Head(fields) = Field("version") /\ fields # <<>>
    BY <1>4
  <2> QED BY <2>1 DEF Field
<1>11. StreamInv
  <2>1. position \in 0..Len(file) /\ Len(buffer) + Len(got) <= position /\ Len(got) <= Asked
    BY <1>4, <1>5, <1>6, <1>10 DEF Asked
  <2> QED BY <1>4, <1>5, <1>8, <1>9, <1>10, <2>1 DEF StreamInv
<1>12. SizeInv
  <2>1. 0 < MaxBytes
    BY SizesAssumption
  <2> QED BY <1>4, <1>5, <1>8, <1>9, <2>1 DEF SizeInv
<1>13. ParseInv
  BY <1>4, <1>8 DEF ParseInv
<1>14. EndedInv
  BY <1>4 DEF EndedInv
<1>15. Len(entries) \in 0..Len(written) /\ entries = SubSeq(written, 1, Len(entries))
  <2>1. SubSeq(written, 1, 0) = <<>>
    BY <1>3, SubSeqFacts
  <2>2. SubSeq(written, 1, Len(entries)) = <<>>
    BY <1>5, <2>1, Zenon
  <2> QED BY <1>3, <1>4, <1>5, <2>2
<1> QED BY <1>1, <1>6, <1>7, <1>11, <1>12, <1>13, <1>14, <1>15 DEF LogInv

(* No action writes to the file.                                           *)
LEMMA FileStays ==
  ASSUME [LogNext]_logReaderVars
  PROVE  file' = file
BY DEF LogNext, logReaderVars, Refill, Fill, ReachEnd, GetVersion, GetType, GetScalar, GetName,
       GetSizeByte, GetInvalidSize, GetLength, GetId, GetDepCount, Proceed, Refuse

(* Every step keeps the invariant.                                         *)
LEMMA LogStepKeeps == IInv /\ [LogNext]_logReaderVars => IInv'
<1> SUFFICES ASSUME IInv, [LogNext]_logReaderVars, file' \notin Foreign PROVE LogInv'
  BY DEF IInv
<1>1. LogInv
  BY FileStays DEF IInv
<1>2. CASE Refill
  BY <1>1, <1>2, RefillKeeps
<1>3. CASE Fill
  BY <1>1, <1>3, FillKeeps
<1>4. CASE ReachEnd
  BY <1>1, <1>4, ReachEndKeeps
<1>5. CASE GetVersion
  BY <1>1, <1>5, GetVersionKeeps
<1>6. CASE GetType
  BY <1>1, <1>6, GetTypeKeeps
<1>7. CASE GetScalar
  BY <1>1, <1>7, GetScalarKeeps
<1>8. CASE GetName
  BY <1>1, <1>8, GetNameKeeps
<1>9. CASE GetSizeByte
  BY <1>1, <1>9, GetSizeByteKeeps
<1>10. CASE GetInvalidSize
  BY <1>1, <1>10, GetInvalidSizeKeeps
<1>11. CASE GetLength
  BY <1>1, <1>11, GetLengthKeeps
<1>12. CASE GetId
  BY <1>1, <1>12, GetIdKeeps
<1>13. CASE GetDepCount
  BY <1>1, <1>13, GetDepCountKeeps
<1>14. CASE UNCHANGED logReaderVars
  BY <1>1, <1>14 DEF logReaderVars, LogInv, IsPart, StreamInv, SizeInv, ParseInv, InsideEntry, InEntry,
                     EndedInv, Taken, Asked
<1> QED BY <1>2, <1>3, <1>4, <1>5, <1>6, <1>7, <1>8, <1>9, <1>10, <1>11, <1>12, <1>13, <1>14 DEF LogNext

(* The reader is always in front of the part of the log that its fields    *)
(* and what it has read of the entry say, or has ended as it should.       *)
THEOREM InductiveInvariant == LogSpec => []IInv
<1> QED BY LogInitHolds, LogStepKeeps, PTL DEF LogSpec

-----------------------------------------------------------------------------
(* What it says of the entries.                                            *)

(* Entries take room.                                                      *)
LEMMA Increasing ==
  ASSUME NEW log \in Logs, NEW k \in 0..Len(log), NEW l \in 0..Len(log), k <= l
  PROVE  EntryPlace(log, k) <= EntryPlace(log, l)
<1> DEFINE S == {n \in Nat : k + n <= Len(log) => EntryPlace(log, k) <= EntryPlace(log, k + n)}
<1>1. Len(log) \in Nat /\ k \in Nat /\ \A m \in 0..Len(log) : EntryPlace(log, m) \in Nat
  <2>1. Len(log) \in Nat
    BY LogTyped
  <2>2. k \in Nat
    OBVIOUS
  <2>3. ASSUME NEW m \in 0..Len(log) PROVE EntryPlace(log, m) \in Nat
    BY EntryPlaces
  <2> QED BY <2>1, <2>2, <2>3
<1>2. ASSUME NEW n \in Nat, \A m \in 0..(n - 1) : m \in S
      PROVE  n \in S
  <2> SUFFICES ASSUME k + n <= Len(log) PROVE EntryPlace(log, k) <= EntryPlace(log, k + n)
    OBVIOUS
  <2>1. CASE n = 0
    <3>1. k + n = k
      BY <1>1, <2>1
    <3> QED BY <1>1, <3>1
  <2>2. CASE n # 0
    <3> DEFINE m == k + (n - 1)
    <3>1. n - 1 \in 0..(n - 1) /\ m \in 0..(Len(log) - 1) /\ m \in 0..Len(log) /\ m <= Len(log)
          /\ m + 1 \in 0..Len(log) /\ m + 1 = k + n
      BY <1>1, <2>2
    <3>2. EntryPlace(log, k) <= EntryPlace(log, m)
      BY <1>2, <3>1
    <3> HIDE DEF m
    <3>3. PlacesOf(log, m) /\ IsEntry(log[m + 1])
      <4>1. m + 1 \in 1..Len(log)
        BY <1>1, <3>1
      <4> QED BY <3>1, <4>1, EntryPlaces, LogTyped
    <3> DEFINE f == Len(FlattenSeq(EntryParts(log[m + 1])))
    <3>4. f \in Nat
      <4>1. FlattenSeq(EntryParts(log[m + 1])) \in Seq(Nat)
        BY <3>3, PartsAre, Pieces
      <4> QED BY <4>1
    <3>5. EntryPlace(log, m + 1) = EntryPlace(log, m) + 1 + f
      BY <3>3 DEF PlacesOf
    <3> HIDE DEF f
    <3>6. EntryPlace(log, m) \in Nat /\ EntryPlace(log, k) \in Nat /\ EntryPlace(log, m + 1) = EntryPlace(log, k + n)
      BY <1>1, <3>1
    <3> QED BY <3>2, <3>4, <3>5, <3>6
  <2> QED BY <2>1, <2>2
<1> HIDE DEF S
<1>3. S \in SUBSET Nat
  BY DEF S
<1>4. S = Nat
  BY <1>2, <1>3, Induction
<1>5. l - k \in S /\ k + (l - k) = l /\ l <= Len(log)
  BY <1>1, <1>4
<1> QED BY <1>5 DEF S

(* A reader that has returned has read the whole file.                     *)
LEMMA EndIsEnd ==
  ASSUME LogInv, ended = "end"
  PROVE  file = LogBytes(entries)
<1> DEFINE k == Len(entries)
           b == LogBytes(SubSeq(written, 1, k))
           B == LogBytes(written)
<1>1. fields = <<Field("type")>> /\ got = <<>> /\ buffer = <<>> /\ position = Len(file)
  BY DEF LogInv, EndedInv
<1>2. StreamInv /\ ParseInv /\ written \in Logs /\ file \in Seq(Nat) /\ IsPart /\ k \in 0..Len(written)
      /\ entries = SubSeq(written, 1, k)
  BY DEF LogInv
<1>3. Head(fields).is = "type"
  BY <1>1 DEF Field
<1>4. Taken = EntryPlace(written, k)
  BY <1>2, <1>3, AskedAt
<1>5. Taken = Len(file)
  <2>1. Len(got) = 0 /\ Len(buffer) = 0 /\ Len(file) \in Nat
    BY <1>1, <1>2
  <2> QED BY <1>1, <2>1 DEF Taken
<1>6. b \in Seq(Nat) /\ Holds(B, 0, b) /\ B \in Seq(Nat) /\ Len(b) = EntryPlace(written, k)
  BY <1>2, EntryPlaces DEF EntryPlace
<1>7. Holds(B, 0, file)
  BY <1>2 DEF IsPart
<1> HIDE DEF b, B
<1>8. file = b
  BY <1>2, <1>4, <1>5, <1>6, <1>7, HoldsSame
<1> QED BY <1>2, <1>8 DEF b

(* The bytes of the part that is being read are not all there.             *)
LEMMA PartIncomplete ==
  ASSUME LogInv, StreamInv, SizeInv, ParseInv, NEW e, NEW j, Here(e, j), Len(got) < Asked
  PROVE  Len(size) + Len(got) < Len(EntryParts(e)[j + 1])
<1> DEFINE part == EntryParts(e)[j + 1]
           B == LogBytes(written)
<1>1. /\ fields = FieldsLeft(e, j) /\ IsEntry(e) /\ j \in 0..(Len(EntryParts(e)) - 1)
      /\ part \in Seq(Nat) /\ Holds(B, Taken - Len(size), part)
  BY DEF Here
<1>2. /\ size \in Seq(Nat) /\ Len(size) \in Nat /\ Holds(file, Taken - Len(size), size)
      /\ \A n \in DOMAIN size : size[n] >= Radix
  BY DEF SizeInv
<1>3. Len(got) \in Nat
  BY DEF StreamInv
<1>4. CASE Head(fields).is \in {"length", "id", "dep_count"}
  <2>1. PICK v \in Nat : v \in Numbers(e) /\ part = VarSize[v]
    BY <1>4, NumberAt
  <2>2. Asked = 1
    BY <1>4, AskedAt
  <2>3. Len(got) = 0
    BY <1>3, <2>2
  <2>4. Len(part) \in Nat /\ Len(part) >= 1
    BY <2>1, VarSizeShape
  <2>5. CASE Len(size) = 0
    BY <2>3, <2>4, <2>5
  <2>6. CASE Len(size) # 0
    <3>1. Holds(B, Taken - Len(size), size) /\ B \in Seq(Nat)
      BY <1>2, InLog
    <3>2. Len(size) >= 1 /\ Len(size) \in DOMAIN size /\ \A n \in 1..(Len(size) - 1) : n \in DOMAIN size
      BY <1>2, <2>6
    <3>3. size[Len(size)] >= Radix /\ size[Len(size)] \in Nat /\ Radix \in Nat
      BY <1>2, <3>2, SizesAssumption
    <3>4. Holds(B, Taken - Len(size), VarSize[v])
      BY <1>1, <2>1
    <3> DEFINE p == Taken - Len(size)
    <3>5. Holds(B, p, size) /\ Holds(B, p, VarSize[v]) /\ B \in Seq(Nat)
      BY <3>1, <3>4
    <3>6. \A n \in 1..(Len(size) - 1) : size[n] >= Radix
      BY <1>2, <3>2
    <3> HIDE DEF p, B
    <3>7. Len(size) <= Len(VarSize[v]) /\ (size[Len(size)] < Radix <=> Len(size) = Len(VarSize[v]))
      BY <1>2, <3>2, <3>5, <3>6, NumberRead
    <3>8. Len(size) <= Len(part) /\ Len(size) # Len(part)
      BY <2>1, <3>3, <3>7
    <3> HIDE DEF part
    <3>9. Len(size) < Len(part)
      BY <1>2, <2>4, <3>8
    <3>10. Len(size) + Len(got) = Len(size)
      BY <1>2, <2>3
    <3> QED BY <3>9, <3>10 DEF part
  <2> QED BY <2>5, <2>6
<1>5. CASE Head(fields).is \notin {"length", "id", "dep_count"}
  <2>1. Len(size) = 0
    BY <1>5 DEF SizeInv
  <2>2. ScalarAt(e, j) \/ NameAt(e, j)
    BY <1>1, <1>5, FieldIs
  <2>3. Asked = Len(part)
    <3>1. CASE ScalarAt(e, j)
      <4>1. Asked = ScalarSize
        BY <1>1, <3>1 DEF ScalarAt, Asked, Scalar
      <4>2. e.bytes \in Seq(Nat) /\ Len(e.bytes) = 2 * ScalarSize /\ ScalarSize \in Nat
        BY <1>1, <3>1, EntryIs, SizesAssumption DEF ScalarAt, IsEntry
      <4>3. /\ Len(SubSeq(e.bytes, 1, ScalarSize)) = ScalarSize
            /\ Len(SubSeq(e.bytes, ScalarSize + 1, 2 * ScalarSize)) = ScalarSize
        BY <4>2
      <4> QED BY <3>1, <4>1, <4>3 DEF ScalarAt
    <3>2. CASE NameAt(e, j)
      BY <1>1, <3>2 DEF NameAt, Asked, Name
    <3> QED BY <2>2, <3>1, <3>2
  <2> HIDE DEF part
  <2> QED BY <1>3, <2>1, <2>3 DEF part
<1> QED BY <1>4, <1>5

(* A reader that has thrown at the end of the file was inside an entry,    *)
(* or in front of the version.                                             *)
LEMMA UnexpectedIsInside ==
  ASSUME LogInv, ended = "unexpected_end_of_file", NEW k \in 0..Len(written)
  PROVE  file # LogBytes(SubSeq(written, 1, k))
<1> SUFFICES ASSUME Len(file) = EntryPlace(written, k) PROVE FALSE
  BY DEF EntryPlace
<1>1. /\ Len(got) < Asked /\ buffer = <<>> /\ position = Len(file)
      /\ Head(fields).is # "type" \/ got # <<>>
  BY DEF LogInv, EndedInv
<1>2. StreamInv /\ SizeInv /\ ParseInv /\ written \in Logs /\ file \in Seq(Nat)
  BY DEF LogInv
<1>3. Len(got) \in Nat /\ got \in Seq(Nat) /\ Len(file) \in Nat /\ Taken + Len(got) = Len(file)
  <2>1. got \in Seq(Nat) /\ Len(got) \in Nat /\ Len(buffer) = 0 /\ Len(file) \in Nat
    BY <1>1, <1>2 DEF StreamInv
  <2> QED BY <1>1, <2>1 DEF Taken
<1>4. \A m \in 0..Len(written) : EntryPlace(written, m) \in Nat
  BY <1>2, EntryPlaces
<1>5. Len(written) \in Nat
  BY <1>2, LogTyped
<1>6. CASE fields = <<Field("version")>>
  <2>1. Head(fields).is = "version"
    BY <1>6 DEF Field
  <2>2. Taken = 0 /\ Asked = 1
    BY <1>2, <2>1, AskedAt
  <2>3. Len(file) = 0
    BY <1>1, <1>3, <2>2
  <2>4. 1 <= EntryPlace(written, k)
    <3>1. EntryPlace(written, 0) = 1 /\ 0 \in 0..Len(written) /\ 0 <= k
      BY <1>2, <1>5, EntryPlaces
    <3>2. EntryPlace(written, 0) <= EntryPlace(written, k)
      BY <1>2, <3>1, Increasing
    <3> QED BY <3>1, <3>2
  <2> QED BY <1>4, <2>3, <2>4
<1>7. CASE fields = <<Field("type")>>
  <2>1. Head(fields).is = "type"
    BY <1>7 DEF Field
  <2>2. Asked = 1 /\ got # <<>>
    BY <1>1, <1>2, <2>1, AskedAt
  <2>3. Len(got) # 0
    BY <1>3, <2>2
  <2> QED BY <1>1, <1>3, <2>2, <2>3
<1>8. CASE InsideEntry
  <2>1. PICK e, j : Here(e, j)
    BY <1>8, AtField
  <2> DEFINE c == Len(entries)
             parts == EntryParts(e)
             first == EntryPlace(written, c) + 1
             p == Taken - Len(size)
  <2>2. /\ c \in 0..(Len(written) - 1) /\ e = written[c + 1] /\ j \in 0..(Len(parts) - 1)
        /\ p = first + Place(parts, j) /\ parts[j + 1] \in Seq(Nat)
    BY <2>1 DEF Here
  <2>3. Len(size) + Len(got) < Len(parts[j + 1])
    BY <1>1, <1>2, <2>1, PartIncomplete
  <2>4. /\ Place(parts, j) \in Nat /\ first \in Nat
        /\ first + Place(parts, j) + Len(parts[j + 1]) <= EntryPlace(written, c + 1)
    <3>1. /\ first \in Nat /\ Len(parts) \in Nat
          /\ \A i \in 0..Len(parts) : Place(parts, i) \in Nat
          /\ \A i \in 0..(Len(parts) - 1) :
               first + Place(parts, i) + Len(parts[i + 1]) <= EntryPlace(written, c + 1)
      BY <1>2, <2>2, PartPlaces
    <3>2. j \in 0..Len(parts)
      BY <2>2, <3>1
    <3> QED BY <2>2, <3>1, <3>2
  <2>5. c \in 0..Len(written) /\ c + 1 \in 0..Len(written) /\ c \in Nat
    BY <1>5, <2>2
  <2>6. Len(size) \in Nat /\ Taken \in Nat /\ Len(parts[j + 1]) \in Nat
    <3>1. Len(size) \in Nat
      BY <1>2 DEF SizeInv
    <3>2. Taken \in Nat
      BY <1>2 DEF StreamInv, Holds
    <3>3. Len(parts[j + 1]) \in Nat
      BY <2>2
    <3> QED BY <3>1, <3>2, <3>3
  <2>7. EntryPlace(written, c) < Len(file) /\ Len(file) < EntryPlace(written, c + 1)
    <3> DEFINE x == EntryPlace(written, c)
               y == EntryPlace(written, c + 1)
               l == Len(parts[j + 1])
               q == Place(parts, j)
    <3>1. x \in Nat /\ y \in Nat /\ l \in Nat /\ q \in Nat /\ Len(size) \in Nat
      BY <1>4, <2>4, <2>5, <2>6
    <3>2. Taken - Len(size) = x + 1 + q /\ x + 1 + q + l <= y /\ Len(size) + Len(got) < l
      BY <2>2, <2>3, <2>4
    <3> HIDE DEF x, y, l, q
    <3>3. x < Len(file) /\ Len(file) < y
      BY <1>3, <2>6, <3>1, <3>2
    <3> QED BY <3>3 DEF x, y
  <2>8. CASE k <= c
    <3>1. EntryPlace(written, k) <= EntryPlace(written, c)
      BY <1>2, <2>5, <2>8, Increasing
    <3>2. EntryPlace(written, k) \in Nat /\ EntryPlace(written, c) \in Nat
      BY <1>4, <2>5
    <3> QED BY <2>7, <3>1, <3>2
  <2>9. CASE ~(k <= c)
    <3>1. c + 1 <= k
      BY <2>5, <2>9
    <3>2. EntryPlace(written, c + 1) <= EntryPlace(written, k)
      BY <1>2, <2>5, <3>1, Increasing
    <3>3. EntryPlace(written, k) \in Nat /\ EntryPlace(written, c + 1) \in Nat
      BY <1>4, <2>5
    <3> QED BY <2>7, <3>2, <3>3
  <2> QED BY <2>8, <2>9
<1> QED BY <1>2, <1>6, <1>7, <1>8 DEF ParseInv

(* However read() cuts the file, and wherever a crash has cut it off, the  *)
(* reader returns the entries that were written: all of them, or those     *)
(* before one that is incomplete or has a number it cannot read.           *)
THEOREM EntriesAreRead == LogSpec => []EntriesSurvive
<1>1. ASSUME IInv, file \notin Foreign
      PROVE  /\ IsPrefix(entries, written)
             /\ ended = "end" => file = LogBytes(entries)
             /\ ended = "unexpected_end_of_file" =>
                  \A k \in 0..Len(written) : file # LogBytes(SubSeq(written, 1, k))
             /\ ended = "invalid var size_t" => ~Fits(written[Len(entries) + 1])
             /\ ended \in {"no", "end", "unexpected_end_of_file", "invalid var size_t"}
  <2>1. LogInv
    BY <1>1 DEF IInv
  <2>2. EndedInv /\ Len(entries) \in 0..Len(written) /\ entries = SubSeq(written, 1, Len(entries))
        /\ written \in Logs
    BY <2>1 DEF LogInv
  <2>3. IsPrefix(entries, written)
    <3> DEFINE k == Len(entries)
    <3>1. Len(written) \in Nat /\ k <= Len(written)
      BY <2>2, LogTyped
    <3>2. SubSeq(entries, 1, k) = SubSeq(written, 1, k)
      <4> DEFINE E == [kind : DOMAIN TypeByte, ids : Seq(Nat), bytes : Seq(Nat)]
      <4>1. written \in Seq(E)
        BY <2>2, LogTyped
      <4> HIDE DEF E
      <4>2. SubSeq(written, 1, k) \in Seq(E)
        BY <2>2, <4>1, SubSeqFacts
      <4>3. entries \in Seq(E)
        BY <2>2, <4>2
      <4>4. SubSeq(entries, 1, k) = entries
        BY <4>3, SubSeqFacts
      <4> QED BY <2>2, <4>4
    <3> QED BY <3>1, <3>2 DEF IsPrefix
  <2>4. ended = "end" => file = LogBytes(entries)
    BY <2>1, EndIsEnd
  <2>5. ended = "unexpected_end_of_file" =>
          \A k \in 0..Len(written) : file # LogBytes(SubSeq(written, 1, k))
    BY <2>1, UnexpectedIsInside
  <2>6. /\ ended = "invalid var size_t" => ~Fits(written[Len(entries) + 1])
        /\ ended \in {"no", "end", "unexpected_end_of_file", "invalid var size_t"}
    BY <2>2 DEF EndedInv
  <2> QED BY <2>3, <2>4, <2>5, <2>6
<1>2. IInv => EntriesSurvive
  BY <1>1 DEF EntriesSurvive
<1> QED BY <1>2, InductiveInvariant, PTL

-----------------------------------------------------------------------------
(* The lexer's place: where it is in the file, and what it last read.      *)
Characters   == STRING
ReaderFields == {"at", "c", "good", "lookahead", "loc", "next_loc"}

PlaceFits(r) ==
  /\ DOMAIN r = ReaderFields /\ r = [f \in ReaderFields |-> r[f]]
  /\ r.at \in 1..(Len(json) + 1) /\ r.good \in BOOLEAN /\ r.lookahead \in BOOLEAN
  /\ r.next_loc = LocationOf(r.at - 1)
  /\ r.at > 1 => r.c = json[r.at - 1] /\ r.loc = LocationOf(r.at - 2)
  /\ ~r.good => r.at = Len(json) + 1
  /\ r.at = 1 => ~r.lookahead

(* The last character read, when it is kept for later, is not consumed.    *)
Held     == in_json.lookahead \/ literal.type # "none"
Consumed == IF Held /\ in_json.good THEN in_json.at - 2 ELSE in_json.at - 1

Lexed == EndOf(Len(tokens))

(* The characters of s that a string which starts with it stands for.      *)
Unescaped(s, value) ==
  \E at \in [DOMAIN value -> 2..Len(s)] :
    /\ \A j, k \in DOMAIN at : j < k => at[j] < at[k]
    /\ Range(at) = {i \in 2..Len(s) : s[i] = Backslash => IsEscaped(s, i)}
    /\ \A k \in DOMAIN at : value[k] = s[at[k]]

BetweenInv == literal = NoLiteral /\ Lexed <= Consumed /\ AllBlank(Lexed + 1, Consumed)

LiteralStarts(b) ==
  /\ b \in Nat /\ Lexed <= b /\ AllBlank(Lexed + 1, b)
  /\ literal.from = LocationOf(b) /\ ~in_json.lookahead

StringInv ==
  LET b == literal.from.index
      s == SubSeq(json, b + 1, Consumed)
  IN  /\ literal = [type |-> "string", value |-> literal.value, from |-> literal.from]
      /\ LiteralStarts(b) /\ b < Consumed /\ json[b + 1] = Quote
      /\ literal.value \in Seq(Characters)
      /\ \A i \in DOMAIN s : ~Closes(s, i)
      /\ in_json.good => ~IsEscaped(s, Len(s) + 1) /\ Unescaped(s, literal.value)

NumberInv ==
  LET b == literal.from.index
  IN  /\ literal = [type |-> "number", value |-> literal.value, from |-> literal.from, to |-> literal.to]
      /\ LiteralStarts(b) /\ b <= Consumed
      /\ \A i \in (b + 1)..Consumed : json[i] \in DigitChars
      /\ literal.value = Decimal(SubSeq(json, b + 1, Consumed))
      /\ Consumed = b => InNumber
      /\ Consumed > b => literal.to = LocationOf(Consumed - 1)

InvalidInv ==
  /\ literal = NoLiteral /\ ~in_json.lookahead /\ in_json.at > 1
  /\ Lexed <= in_json.at - 2 /\ AllBlank(Lexed + 1, in_json.at - 2)
  /\ json[in_json.at - 1] \notin Whitespace \cup Punctuation \cup {Quote} \cup DigitChars

StateInv ==
  \/ lexing = "lexing" /\ (BetweenInv \/ StringInv \/ NumberInv)
  \/ lexing = "end" /\ BetweenInv /\ Consumed = Len(json)
  \/ lexing = "invalid_character" /\ InvalidInv
  \/ lexing = "unexpected_end_in_string" /\ StringInv /\ ~in_json.good

TokensInv ==
  /\ \E T : tokens \in Seq(T)
  /\ \A k \in DOMAIN tokens : TokenFits(k) /\ EndOf(k) \in Nat /\ BeginOf(k) \in Nat

LexerInv == json \in Seq(Characters) /\ PlaceFits(in_json) /\ TokensInv /\ StateInv

-----------------------------------------------------------------------------
(* How many numbers up to i, without a gap, are in a set.                  *)
RunTo(S, i) == {j \in 1..i : \A k \in j..i : k \in S}

LEMMA RunFacts ==
  ASSUME NEW S, NEW i \in Nat
  PROVE  /\ IsFiniteSet(RunTo(S, i)) /\ Cardinality(RunTo(S, i)) \in Nat
         /\ i + 1 \in S => Cardinality(RunTo(S, i + 1)) = Cardinality(RunTo(S, i)) + 1
         /\ i + 1 \notin S => Cardinality(RunTo(S, i + 1)) = 0
         /\ Cardinality(RunTo(S, 0)) = 0
<1>1. IsFiniteSet(RunTo(S, i)) /\ Cardinality(RunTo(S, i)) \in Nat
  <2>1. IsFiniteSet(1..i)
    BY FS_Interval
  <2>2. RunTo(S, i) \subseteq 1..i
    BY DEF RunTo
  <2> QED BY <2>1, <2>2, FS_Subset, FS_CardinalityType
<1>2. ASSUME i + 1 \in S
      PROVE  Cardinality(RunTo(S, i + 1)) = Cardinality(RunTo(S, i)) + 1
  <2>1. RunTo(S, i + 1) = RunTo(S, i) \cup {i + 1}
    <3>1. ASSUME NEW j \in 1..(i + 1), \A k \in j..(i + 1) : k \in S
          PROVE  j \in RunTo(S, i) \cup {i + 1}
      BY <3>1 DEF RunTo
    <3>2. ASSUME NEW j \in RunTo(S, i)
          PROVE  j \in RunTo(S, i + 1)
      <4>1. j \in 1..i /\ \A k \in j..i : k \in S
        BY <3>2 DEF RunTo
      <4>2. ASSUME NEW k \in j..(i + 1)
            PROVE  k \in S
        <5>1. k \in j..i \/ k = i + 1
          BY <4>1
        <5> QED BY <4>1, <5>1, <1>2
      <4> QED BY <4>1, <4>2 DEF RunTo
    <3>3. i + 1 \in RunTo(S, i + 1)
      <4>1. i + 1 \in 1..(i + 1) /\ \A k \in (i + 1)..(i + 1) : k = i + 1
        OBVIOUS
      <4> QED BY <4>1, <1>2 DEF RunTo
    <3>4. \A j \in RunTo(S, i + 1) : j \in RunTo(S, i) \cup {i + 1}
      BY <3>1 DEF RunTo
    <3> QED BY <3>2, <3>3, <3>4
  <2>2. i + 1 \notin RunTo(S, i)
    BY DEF RunTo
  <2> QED BY <1>1, <2>1, <2>2, FS_AddElement
<1>3. ASSUME i + 1 \notin S
      PROVE  Cardinality(RunTo(S, i + 1)) = 0
  <2>1. RunTo(S, i + 1) = {}
    <3>1. \A j \in 1..(i + 1) : i + 1 \in j..(i + 1)
      OBVIOUS
    <3> QED BY <3>1, <1>3 DEF RunTo
  <2> QED BY <2>1, FS_EmptySet
<1>4. Cardinality(RunTo(S, 0)) = 0
  <2>1. RunTo(S, 0) = {}
    BY DEF RunTo
  <2> QED BY <2>1, FS_EmptySet
<1> QED BY <1>1, <1>2, <1>3, <1>4

-----------------------------------------------------------------------------
(* Locations.                                                              *)
LEMMA LocationAfter ==
  ASSUME NEW i \in Nat
  PROVE  LocationOf(i + 1) = After(LocationOf(i), json[i + 1])
<1> DEFINE Lines(n) == {j \in 1..n : json[j] = LineFeed}
           Columns(n) == {j \in 1..n : \A k \in j..n : json[k] # LineFeed}
           S == {k \in Nat : json[k] # LineFeed}
<1>1. \A n \in Nat : Columns(n) = RunTo(S, n)
  <2>1. ASSUME NEW n \in Nat, NEW j \in 1..n, NEW k \in j..n
        PROVE  k \in Nat
    OBVIOUS
  <2>2. \A n \in Nat : \A j \in 1..n : (\A k \in j..n : json[k] # LineFeed) <=> (\A k \in j..n : k \in S)
    BY <2>1
  <2> HIDE DEF S
  <2> QED BY <2>2 DEF RunTo
<1>2. i + 1 \in Nat /\ (i + 1 \in S <=> json[i + 1] # LineFeed)
  OBVIOUS
<1>3. IsFiniteSet(Lines(i)) /\ Cardinality(Lines(i)) \in Nat
  <2>1. IsFiniteSet(1..i)
    BY FS_Interval
  <2>2. Lines(i) \subseteq 1..i
    OBVIOUS
  <2> HIDE DEF Lines
  <2> QED BY <2>1, <2>2, FS_Subset, FS_CardinalityType
<1>4. LocationOf(i) = [line |-> 1 + Cardinality(Lines(i)), column |-> 1 + Cardinality(Columns(i)), index |-> i]
  BY Zenon DEF LocationOf
<1>5. LocationOf(i + 1) = [line |-> 1 + Cardinality(Lines(i + 1)), column |-> 1 + Cardinality(Columns(i + 1)),
                           index |-> i + 1]
  BY Zenon DEF LocationOf
<1>6. CASE json[i + 1] = LineFeed
  <2>1. Lines(i + 1) = Lines(i) \cup {i + 1} /\ i + 1 \notin Lines(i)
    BY <1>6
  <2>2. Cardinality(Lines(i + 1)) = Cardinality(Lines(i)) + 1
    <3> HIDE DEF Lines
    <3> QED BY <1>3, <2>1, FS_AddElement
  <2>3. Cardinality(Columns(i + 1)) = 0
    <3>1. i + 1 \notin S /\ Columns(i + 1) = RunTo(S, i + 1)
      BY <1>1, <1>2, <1>6
    <3> HIDE DEF Columns, S
    <3> QED BY <3>1, RunFacts
  <2> HIDE DEF Lines, Columns
  <2> QED BY <1>3, <1>4, <1>5, <1>6, <2>2, <2>3 DEF After
<1>7. CASE json[i + 1] # LineFeed
  <2>1. Lines(i + 1) = Lines(i)
    BY <1>7
  <2>2. Cardinality(Columns(i + 1)) = Cardinality(Columns(i)) + 1 /\ Cardinality(Columns(i)) \in Nat
    <3>1. i + 1 \in S /\ Columns(i + 1) = RunTo(S, i + 1) /\ Columns(i) = RunTo(S, i)
      BY <1>1, <1>2, <1>7
    <3> HIDE DEF Columns, S
    <3> QED BY <3>1, RunFacts
  <2> HIDE DEF Lines, Columns
  <2> QED BY <1>3, <1>4, <1>5, <1>7, <2>1, <2>2 DEF After
<1> QED BY <1>6, <1>7

LEMMA LocationZero == LocationOf(0) = Start
<1>1. {j \in 1..0 : json[j] = LineFeed} = {} /\ {j \in 1..0 : \A k \in j..0 : json[k] # LineFeed} = {}
  OBVIOUS
<1>2. Cardinality({}) = 0
  BY FS_EmptySet
<1> QED BY <1>1, <1>2 DEF LocationOf, Start

LEMMA LocationIndex == \A i : LocationOf(i).index = i
BY DEF LocationOf

-----------------------------------------------------------------------------
(* Backslashes. *)
LEMMA EscapedIs ==
  ASSUME NEW s, NEW i \in Nat, i > 0
  PROVE  /\ ~IsEscaped(s, 1)
         /\ IsEscaped(s, i + 1) <=> s[i] = Backslash /\ ~IsEscaped(s, i)
<1> DEFINE S == {k \in Nat : s[k] = Backslash}
           B(n) == {j \in 1..(n - 1) : \A k \in j..(n - 1) : s[k] = Backslash}
<1>1. ASSUME NEW n \in Nat
      PROVE  B(n + 1) = RunTo(S, n)
  <2>1. \A j \in 1..n : \A k \in j..n : k \in Nat
    OBVIOUS
  <2>2. \A j \in 1..n : (\A k \in j..n : s[k] = Backslash) <=> (\A k \in j..n : k \in S)
    BY <2>1
  <2>3. (n + 1) - 1 = n
    OBVIOUS
  <2> HIDE DEF S
  <2> QED BY <2>2, <2>3 DEF RunTo
<1>2. \A n : IsEscaped(s, n) <=> Cardinality(B(n)) % 2 = 1
  BY Zenon DEF IsEscaped
<1>3. PICK m \in Nat : i = m + 1
  <2>1. i - 1 \in Nat /\ i = (i - 1) + 1
    OBVIOUS
  <2> QED BY <2>1
<1>4. B(i) = RunTo(S, m) /\ B(i + 1) = RunTo(S, m + 1) /\ B(1) = RunTo(S, 0)
  <2>1. B(m + 1) = RunTo(S, m) /\ B((m + 1) + 1) = RunTo(S, m + 1) /\ B(0 + 1) = RunTo(S, 0)
    <3>1. m + 1 \in Nat /\ 0 \in Nat
      OBVIOUS
    <3> HIDE DEF B, S
    <3> QED BY <1>1, <3>1
  <2>2. 0 + 1 = 1
    OBVIOUS
  <2> HIDE DEF B, S
  <2> QED BY <2>1, <2>2, <1>3
<1>5. m + 1 \in S <=> s[i] = Backslash
  BY <1>3
<1> HIDE DEF B, S
<1>6. /\ Cardinality(RunTo(S, m)) \in Nat /\ Cardinality(RunTo(S, 0)) = 0
      /\ m + 1 \in S => Cardinality(RunTo(S, m + 1)) = Cardinality(RunTo(S, m)) + 1
      /\ m + 1 \notin S => Cardinality(RunTo(S, m + 1)) = 0
  BY RunFacts
<1>7. \A n \in Nat : (n + 1) % 2 = 1 <=> ~(n % 2 = 1)
  OBVIOUS
<1>8. 0 % 2 # 1
  OBVIOUS
<1>9. ~IsEscaped(s, 1)
  BY <1>2, <1>4, <1>6, <1>8
<1>10. CASE m + 1 \in S
  BY <1>2, <1>4, <1>5, <1>6, <1>7, <1>10
<1>11. CASE m + 1 \notin S
  BY <1>2, <1>4, <1>5, <1>6, <1>8, <1>11
<1> QED BY <1>9, <1>10, <1>11

(* Only what is before a character makes it escaped.                       *)
LEMMA EscapedSame ==
  ASSUME NEW s, NEW t, NEW i \in Nat, \A k \in 1..(i - 1) : s[k] = t[k]
  PROVE  IsEscaped(s, i) <=> IsEscaped(t, i)
<1>1. {j \in 1..(i - 1) : \A k \in j..(i - 1) : s[k] = Backslash}
      = {j \in 1..(i - 1) : \A k \in j..(i - 1) : t[k] = Backslash}
  <2>1. \A j \in 1..(i - 1) : \A k \in j..(i - 1) : k \in 1..(i - 1)
    OBVIOUS
  <2> QED BY <2>1
<1> QED BY <1>1, Zenon DEF IsEscaped

-----------------------------------------------------------------------------
(* A sequence that goes one element further than another.                  *)
Extends(t, s) ==
  /\ Len(s) \in Nat /\ DOMAIN s = 1..Len(s) /\ Len(t) = Len(s) + 1 /\ DOMAIN t = 1..Len(t)
  /\ \A k \in 1..Len(s) : t[k] = s[k]

(* Pieces of the text.                                                     *)
LEMMA PieceFacts ==
  ASSUME NEW T, NEW s \in Seq(T), NEW b \in Nat, NEW e \in Nat, b <= e, e <= Len(s)
  PROVE  /\ SubSeq(s, b + 1, e) \in Seq(T) /\ Len(SubSeq(s, b + 1, e)) = e - b
         /\ DOMAIN SubSeq(s, b + 1, e) = 1..(e - b)
         /\ \A k \in 1..(e - b) : SubSeq(s, b + 1, e)[k] = s[b + k]
<1>1. \A k \in (b + 1)..e : k \in 1..Len(s)
  BY SeqFacts
<1>2. e - b \in Nat /\ e - (b + 1) + 1 = e - b
  OBVIOUS
<1>3. SubSeq(s, b + 1, e) = [k \in 1..(e - b) |-> s[b + k]]
  <2>1. SubSeq(s, b + 1, e) = [k \in 1..(1 + e - (b + 1)) |-> s[((b + 1) + k) - 1]]
    BY <1>1
  <2>2. 1 + e - (b + 1) = e - b /\ \A k \in 1..(e - b) : ((b + 1) + k) - 1 = b + k
    OBVIOUS
  <2> QED BY <2>1, <2>2
<1>4. \A k \in 1..(e - b) : b + k \in 1..Len(s) /\ s[b + k] \in T
  BY SeqFacts
<1>5. SubSeq(s, b + 1, e) \in Seq(T) /\ Len(SubSeq(s, b + 1, e)) = e - b
  BY <1>2, <1>3, <1>4
<1> QED BY <1>3, <1>5

LEMMA PieceOfOne ==
  ASSUME NEW T, NEW s \in Seq(T), NEW n \in 1..Len(s)
  PROVE  SubSeq(s, n, n) = <<s[n]>>
<1>1. \A k \in n..n : k \in 1..Len(s)
  BY SeqFacts
<1>2. SubSeq(s, n, n) = [k \in 1..(1 + n - n) |-> s[(n + k) - 1]]
  BY <1>1
<1>3. 1 + n - n = 1 /\ \A k \in 1..1 : k = 1 /\ (n + k) - 1 = n
  BY SeqFacts
<1>4. SubSeq(s, n, n) = [k \in 1..1 |-> s[n]]
  BY <1>2, <1>3
<1>5. Len(<<s[n]>>) = 1 /\ <<s[n]>> = [k \in 1..1 |-> s[n]]
  OBVIOUS
<1> QED BY <1>4, <1>5

LEMMA PieceExtends ==
  ASSUME NEW T, NEW s \in Seq(T), NEW b \in Nat, NEW e \in Nat, b <= e, e < Len(s)
  PROVE  /\ Extends(SubSeq(s, b + 1, e + 1), SubSeq(s, b + 1, e))
         /\ SubSeq(s, b + 1, e + 1)[e + 1 - b] = s[e + 1]
<1>1. e + 1 \in Nat /\ b <= e + 1 /\ e + 1 <= Len(s) /\ Len(s) \in Nat /\ e <= Len(s)
  BY SeqFacts
<1>2. /\ Len(SubSeq(s, b + 1, e + 1)) = e + 1 - b
      /\ DOMAIN SubSeq(s, b + 1, e + 1) = 1..(e + 1 - b)
      /\ \A k \in 1..(e + 1 - b) : SubSeq(s, b + 1, e + 1)[k] = s[b + k]
  BY <1>1, PieceFacts
<1>3. /\ Len(SubSeq(s, b + 1, e)) = e - b
      /\ DOMAIN SubSeq(s, b + 1, e) = 1..(e - b)
      /\ \A k \in 1..(e - b) : SubSeq(s, b + 1, e)[k] = s[b + k]
  BY <1>1, PieceFacts
<1>4. /\ e - b \in Nat /\ e + 1 - b = (e - b) + 1 /\ e + 1 - b \in 1..(e + 1 - b) /\ b + (e + 1 - b) = e + 1
      /\ \A k \in 1..(e - b) : k \in 1..(e + 1 - b)
  OBVIOUS
<1>5. SubSeq(s, b + 1, e + 1)[e + 1 - b] = s[e + 1]
  BY <1>2, <1>4
<1>6. \A k \in 1..(e - b) : SubSeq(s, b + 1, e + 1)[k] = SubSeq(s, b + 1, e)[k]
  BY <1>2, <1>3, <1>4
<1> DEFINE u == SubSeq(s, b + 1, e + 1)
           v == SubSeq(s, b + 1, e)
<1> HIDE DEF u, v
<1>7. Len(u) = e + 1 - b /\ DOMAIN u = 1..(e + 1 - b) /\ Len(v) = e - b /\ DOMAIN v = 1..(e - b)
      /\ \A k \in 1..(e - b) : u[k] = v[k]
  BY <1>2, <1>3, <1>6 DEF u, v
<1>8. Extends(u, v)
  BY <1>4, <1>7 DEF Extends
<1> QED BY <1>5, <1>8 DEF u, v

-----------------------------------------------------------------------------
(* The numbers that the first n digits make.                               *)
DecimalStep(f, s, n) == IF n = 0 THEN 0 ELSE f[n - 1] * 10 + DigitValue(s[n])
IsDecimal(f, s, m)   == \A n \in 0..m : f[n] = DecimalStep(f, s, n)

LEMMA DecimalsExist ==
  ASSUME NEW s
  PROVE  \A m \in Nat : \E f : IsDecimal(f, s, m)
<1> DEFINE S == {m \in Nat : \E f : IsDecimal(f, s, m)}
<1>1. ASSUME NEW m \in Nat, \A k \in 0..(m - 1) : k \in S
      PROVE  m \in S
  <2>1. PICK f : m # 0 => IsDecimal(f, s, m - 1)
    BY <1>1
  <2> DEFINE g == [n \in 0..m |-> IF n = m THEN DecimalStep(f, s, m) ELSE f[n]]
  <2>2. ASSUME NEW n \in 0..m
        PROVE  g[n] = DecimalStep(g, s, n)
    <3>1. n # 0 => n - 1 \in 0..m /\ g[n - 1] = f[n - 1]
      OBVIOUS
    <3>2. DecimalStep(g, s, n) = DecimalStep(f, s, n)
      <4> HIDE DEF g
      <4> QED BY <3>1 DEF DecimalStep
    <3>3. CASE n = m
      BY <3>2, <3>3
    <3>4. CASE n # m
      <4>1. n \in 0..(m - 1) /\ m # 0
        BY <3>4
      <4>2. f[n] = DecimalStep(f, s, n)
        BY <2>1, <4>1 DEF IsDecimal
      <4> QED BY <3>2, <3>4, <4>2
    <3> QED BY <3>3, <3>4
  <2> HIDE DEF g
  <2>3. IsDecimal(g, s, m)
    BY <2>2 DEF IsDecimal
  <2> QED BY <2>3
<1> HIDE DEF S
<1>2. S \in SUBSET Nat
  BY DEF S
<1>3. S = Nat
  BY <1>1, <1>2, Induction
<1> QED BY <1>3 DEF S

LEMMA DecimalsAgree ==
  ASSUME NEW s, NEW t, NEW m \in Nat, NEW f, NEW g,
         IsDecimal(f, s, m), IsDecimal(g, t, m), \A n \in 1..m : s[n] = t[n]
  PROVE  f[m] = g[m]
<1> DEFINE S == {n \in Nat : n <= m => f[n] = g[n]}
<1>1. ASSUME NEW n \in Nat, \A k \in 0..(n - 1) : k \in S
      PROVE  n \in S
  <2> SUFFICES ASSUME n <= m PROVE f[n] = g[n]
    OBVIOUS
  <2>1. f[n] = DecimalStep(f, s, n) /\ g[n] = DecimalStep(g, t, n)
    BY DEF IsDecimal
  <2>2. n # 0 => f[n - 1] = g[n - 1] /\ s[n] = t[n]
    <3>1. n # 0 => n - 1 \in 0..(n - 1) /\ n - 1 <= m /\ n \in 1..m
      OBVIOUS
    <3> QED BY <1>1, <3>1
  <2> QED BY <2>1, <2>2 DEF DecimalStep
<1> HIDE DEF S
<1>2. S \in SUBSET Nat
  BY DEF S
<1>3. S = Nat
  BY <1>1, <1>2, Induction
<1> QED BY <1>3 DEF S

(* Decimal is what any of them ends with.                                  *)
LEMMA DecimalIs ==
  ASSUME NEW s, Len(s) \in Nat
  PROVE  \E f : IsDecimal(f, s, Len(s)) /\ Decimal(s) = f[Len(s)]
<1> DEFINE F == CHOOSE f : f = [n \in 0..Len(s) |-> DecimalStep(f, s, n)]
<1>1. PICK f : IsDecimal(f, s, Len(s))
  BY DecimalsExist
<1> DEFINE g == [n \in 0..Len(s) |-> f[n]]
<1>2. g = [n \in 0..Len(s) |-> DecimalStep(g, s, n)]
  <2>1. ASSUME NEW n \in 0..Len(s)
        PROVE  g[n] = DecimalStep(g, s, n)
    <3>1. g[n] = DecimalStep(f, s, n)
      BY <1>1 DEF IsDecimal
    <3>2. n # 0 => g[n - 1] = f[n - 1]
      OBVIOUS
    <3> HIDE DEF g
    <3> QED BY <3>1, <3>2 DEF DecimalStep
  <2>2. g = [n \in 0..Len(s) |-> g[n]]
    OBVIOUS
  <2> HIDE DEF g
  <2> QED BY <2>1, <2>2
<1> HIDE DEF g
<1>3. F = [n \in 0..Len(s) |-> DecimalStep(F, s, n)]
  BY <1>2
<1>4. Decimal(s) = F[Len(s)]
  BY Zenon DEF Decimal, DecimalStep
<1> HIDE DEF F
<1>5. IsDecimal(F, s, Len(s))
  BY <1>3 DEF IsDecimal
<1> QED BY <1>4, <1>5

LEMMA DecimalOfMore ==
  ASSUME NEW s, NEW t, Extends(t, s)
  PROVE  Decimal(t) = Decimal(s) * 10 + DigitValue(t[Len(t)])
<1>1. Len(s) \in Nat /\ Len(t) = Len(s) + 1 /\ Len(t) \in Nat /\ \A k \in 1..Len(s) : s[k] = t[k]
  BY DEF Extends
<1>2. PICK f : IsDecimal(f, s, Len(s)) /\ Decimal(s) = f[Len(s)]
  BY <1>1, DecimalIs
<1>3. PICK g : IsDecimal(g, t, Len(t)) /\ Decimal(t) = g[Len(t)]
  BY <1>1, DecimalIs
<1>4. IsDecimal(g, t, Len(s))
  BY <1>1, <1>3 DEF IsDecimal
<1>5. f[Len(s)] = g[Len(s)]
  BY <1>1, <1>2, <1>4, DecimalsAgree
<1>6. g[Len(t)] = DecimalStep(g, t, Len(t))
  BY <1>1, <1>3 DEF IsDecimal
<1>7. Len(t) # 0 /\ Len(t) - 1 = Len(s)
  BY <1>1
<1>8. DecimalStep(g, t, Len(t)) = g[Len(s)] * 10 + DigitValue(t[Len(t)])
  BY <1>7 DEF DecimalStep
<1> QED BY <1>2, <1>3, <1>5, <1>6, <1>8

LEMMA DecimalOfNone == ASSUME NEW s, Len(s) = 0 PROVE Decimal(s) = 0
<1>1. PICK f : IsDecimal(f, s, Len(s)) /\ Decimal(s) = f[Len(s)]
  BY DecimalIs
<1> QED BY <1>1 DEF IsDecimal, DecimalStep

-----------------------------------------------------------------------------
(* The characters of a string.                                             *)
Places(s) == {i \in 2..Len(s) : s[i] = Backslash => IsEscaped(s, i)}

LEMMA PlacesOfMore ==
  ASSUME NEW s, NEW t, Extends(t, s), Len(s) > 0
  PROVE  Places(t) = Places(s) \cup (IF t[Len(t)] = Backslash => IsEscaped(s, Len(t)) THEN {Len(t)} ELSE {})
<1>1. Len(s) \in Nat /\ Len(t) = Len(s) + 1 /\ \A k \in 1..Len(s) : t[k] = s[k]
  BY DEF Extends
<1>2. \A i \in 1..Len(t) : IsEscaped(s, i) <=> IsEscaped(t, i)
  <2>1. ASSUME NEW i \in 1..Len(t)
        PROVE  IsEscaped(s, i) <=> IsEscaped(t, i)
    <3>1. i \in Nat /\ \A k \in 1..(i - 1) : s[k] = t[k]
      BY <1>1
    <3> QED BY <3>1, EscapedSame
  <2> QED BY <2>1
<1>3. 2..Len(t) = 2..Len(s) \cup {Len(t)} /\ Len(t) \in 1..Len(t)
  BY <1>1
<1>4. \A i \in 2..Len(s) : i \in 1..Len(s) /\ i \in 1..Len(t)
  BY <1>1
<1> QED BY <1>1, <1>2, <1>3, <1>4 DEF Places

LEMMA UnescapedIs ==
  ASSUME NEW s, NEW value
  PROVE  Unescaped(s, value) <=>
           \E at \in [DOMAIN value -> 2..Len(s)] :
             /\ \A j, k \in DOMAIN at : j < k => at[j] < at[k]
             /\ Range(at) = Places(s)
             /\ \A k \in DOMAIN at : value[k] = s[at[k]]
BY Zenon DEF Unescaped, Places

LEMMA UnescapedOfMore ==
  ASSUME NEW s, NEW t, Extends(t, s), Len(s) > 0, NEW T, NEW value \in Seq(T), Unescaped(s, value),
         NEW c \in T, t[Len(t)] = c, c = Backslash => IsEscaped(s, Len(t))
  PROVE  Unescaped(t, Append(value, c))
<1>1. Len(s) \in Nat /\ Len(t) = Len(s) + 1 /\ \A k \in 1..Len(s) : t[k] = s[k]
  BY DEF Extends
<1> DEFINE n == Len(value)
           more == Append(value, c)
<1>2. /\ n \in Nat /\ DOMAIN value = 1..n /\ DOMAIN more = 1..(n + 1)
      /\ \A k \in 1..n : more[k] = value[k]
      /\ more[n + 1] = c
  <2>1. more \in Seq(T) /\ Len(more) = n + 1 /\ more[n + 1] = c /\ \A k \in 1..n : more[k] = value[k]
    BY AppendProperties
  <2> HIDE DEF more
  <2> QED BY <2>1, SeqFacts
<1>3. PICK at \in [DOMAIN value -> 2..Len(s)] :
        /\ \A j, k \in DOMAIN at : j < k => at[j] < at[k]
        /\ Range(at) = Places(s)
        /\ \A k \in DOMAIN at : value[k] = s[at[k]]
  BY UnescapedIs
<1> HIDE DEF n, more
<1> DEFINE to == [k \in 1..(n + 1) |-> IF k = n + 1 THEN Len(t) ELSE at[k]]
<1>4. DOMAIN at = 1..n /\ \A k \in 1..n : at[k] \in 2..Len(s)
  BY <1>2, <1>3
<1>5. DOMAIN to = 1..(n + 1) /\ to[n + 1] = Len(t) /\ \A k \in 1..n : to[k] = at[k]
  BY <1>2
<1>6. 2..Len(s) \subseteq 2..Len(t) /\ Len(t) \in 2..Len(t) /\ 1..(n + 1) = 1..n \cup {n + 1}
      /\ 2..Len(s) \subseteq 1..Len(s)
  BY <1>1, <1>2
<1>7. to \in [DOMAIN more -> 2..Len(t)]
  BY <1>2, <1>4, <1>6
<1> HIDE DEF to
<1>8. ASSUME NEW j \in DOMAIN to, NEW k \in DOMAIN to, j < k
      PROVE  to[j] < to[k]
  <2>1. j \in 1..n /\ (k \in 1..n \/ k = n + 1)
    BY <1>2, <1>5, <1>8
  <2>2. CASE k \in 1..n
    BY <1>3, <1>4, <1>5, <1>8, <2>1, <2>2
  <2>3. CASE k = n + 1
    BY <1>1, <1>4, <1>5, <2>1, <2>3
  <2> QED BY <2>1, <2>2, <2>3
<1>9. Range(to) = Places(t)
  <2>1. Places(t) = Places(s) \cup {Len(t)}
    BY PlacesOfMore
  <2>2. Range(to) = {to[k] : k \in 1..(n + 1)} /\ Range(at) = {at[k] : k \in 1..n}
    BY <1>4, <1>5 DEF Range
  <2>3. {to[k] : k \in 1..(n + 1)} = {at[k] : k \in 1..n} \cup {Len(t)}
    BY <1>5, <1>6
  <2> QED BY <1>3, <2>1, <2>2, <2>3
<1>10. ASSUME NEW k \in DOMAIN to
       PROVE  more[k] = t[to[k]]
  <2>1. CASE k \in 1..n
    BY <1>1, <1>2, <1>3, <1>4, <1>5, <1>6, <2>1
  <2>2. CASE k = n + 1
    BY <1>2, <1>5, <2>2
  <2> QED BY <1>5, <1>6, <2>1, <2>2
<1>11. Unescaped(t, more)
  BY <1>7, <1>8, <1>9, <1>10, UnescapedIs
<1> QED BY <1>11 DEF more

LEMMA UnescapedOfBackslash ==
  ASSUME NEW s, NEW t, Extends(t, s), Len(s) > 0, NEW value, Unescaped(s, value),
         t[Len(t)] = Backslash, ~IsEscaped(s, Len(t))
  PROVE  Unescaped(t, value)
<1>1. Len(s) \in Nat /\ Len(t) = Len(s) + 1 /\ \A k \in 1..Len(s) : t[k] = s[k]
  BY DEF Extends
<1>2. PICK at \in [DOMAIN value -> 2..Len(s)] :
        /\ \A j, k \in DOMAIN at : j < k => at[j] < at[k]
        /\ Range(at) = Places(s)
        /\ \A k \in DOMAIN at : value[k] = s[at[k]]
  BY UnescapedIs
<1>3. Places(t) = Places(s)
  BY PlacesOfMore
<1>4. 2..Len(s) \subseteq 2..Len(t) /\ 2..Len(s) \subseteq 1..Len(s)
  BY <1>1
<1>5. at \in [DOMAIN value -> 2..Len(t)] /\ \A k \in DOMAIN at : value[k] = t[at[k]]
  <2>1. \A k \in DOMAIN value : at[k] \in 2..Len(s) /\ at[k] \in 2..Len(t) /\ at[k] \in 1..Len(s)
    BY <1>4
  <2>2. DOMAIN at = DOMAIN value /\ at = [k \in DOMAIN value |-> at[k]]
    OBVIOUS
  <2> QED BY <1>1, <1>2, <2>1, <2>2
<1> QED BY <1>2, <1>3, <1>5, UnescapedIs

LEMMA UnescapedOfQuote ==
  ASSUME NEW s, Len(s) = 1
  PROVE  Unescaped(s, <<>>)
<1> DEFINE at == [k \in {} |-> 2]
<1>1. DOMAIN <<>> = {} /\ 2..Len(s) = {}
  OBVIOUS
<1>2. at \in [DOMAIN <<>> -> 2..Len(s)] /\ DOMAIN at = {}
  BY <1>1
<1>3. Range(at) = {} /\ Places(s) = {}
  BY <1>1, <1>2 DEF Range, Places
<1> HIDE DEF at
<1> QED BY <1>2, <1>3, UnescapedIs

(* A string that goes on does not close before its new end.                *)
LEMMA ClosesSame ==
  ASSUME NEW s, NEW t, Extends(t, s), NEW i \in 1..Len(s)
  PROVE  Closes(t, i) <=> Closes(s, i)
<1>1. Len(s) \in Nat /\ i \in Nat /\ t[i] = s[i] /\ \A k \in 1..(i - 1) : s[k] = t[k]
  BY DEF Extends
<1>2. IsEscaped(s, i) <=> IsEscaped(t, i)
  BY <1>1, EscapedSame
<1> QED BY <1>1, <1>2 DEF Closes

LEMMA EscapedOfMore ==
  ASSUME NEW s, NEW t, Extends(t, s)
  PROVE  /\ IsEscaped(t, Len(t)) <=> IsEscaped(s, Len(t))
         /\ IsEscaped(t, Len(t) + 1) <=> t[Len(t)] = Backslash /\ ~IsEscaped(s, Len(t))
<1>1. Len(s) \in Nat /\ Len(t) \in Nat /\ Len(t) > 0 /\ \A k \in 1..(Len(t) - 1) : s[k] = t[k]
  BY DEF Extends
<1>2. IsEscaped(s, Len(t)) <=> IsEscaped(t, Len(t))
  BY <1>1, EscapedSame
<1>3. IsEscaped(t, Len(t) + 1) <=> t[Len(t)] = Backslash /\ ~IsEscaped(t, Len(t))
  BY <1>1, EscapedIs
<1> QED BY <1>2, <1>3

-----------------------------------------------------------------------------
(* Reading a character.                                                    *)
LEMMA NextCharIs ==
  ASSUME NEW r, PlaceFits(r), json \in Seq(Characters)
  PROVE  /\ PlaceFits(NextChar(r)) /\ ~NextChar(r).lookahead
         /\ r.lookahead => NextChar(r).at = r.at /\ NextChar(r).good = r.good
         /\ ~r.lookahead /\ r.at <= Len(json) => NextChar(r).at = r.at + 1 /\ NextChar(r).good
         /\ ~r.lookahead /\ r.at > Len(json) => NextChar(r).at = r.at /\ ~NextChar(r).good
<1>1. Len(json) \in Nat
  OBVIOUS
<1> DEFINE n == Len(json)
<1>2. /\ DOMAIN r = ReaderFields /\ r = [f \in ReaderFields |-> r[f]]
      /\ r.at \in 1..(n + 1) /\ r.good \in BOOLEAN /\ r.lookahead \in BOOLEAN
      /\ r.next_loc = LocationOf(r.at - 1)
      /\ r.at > 1 => r.c = json[r.at - 1] /\ r.loc = LocationOf(r.at - 2)
      /\ ~r.good => r.at = n + 1
      /\ r.at = 1 => ~r.lookahead
  BY DEF PlaceFits
<1> HIDE DEF n
<1>3. CASE r.lookahead
  <2>1. NextChar(r) = [r EXCEPT !.lookahead = FALSE]
    BY <1>3 DEF NextChar
  <2> DEFINE q == [r EXCEPT !.lookahead = FALSE]
  <2>2. /\ DOMAIN q = ReaderFields /\ q = [f \in ReaderFields |-> q[f]] /\ q.at = r.at /\ q.c = r.c
        /\ q.good = r.good /\ q.lookahead = FALSE /\ q.loc = r.loc /\ q.next_loc = r.next_loc
    BY <1>2 DEF ReaderFields
  <2> HIDE DEF q
  <2>3. PlaceFits(q)
    BY <1>2, <2>2 DEF PlaceFits, n
  <2> QED BY <1>3, <2>1, <2>2, <2>3 DEF q
<1>4. CASE ~r.lookahead /\ r.at > n
  <2>1. NextChar(r) = [r EXCEPT !.good = FALSE]
    <3>1. NextOf(r) = [r EXCEPT !.good = FALSE]
      BY <1>4 DEF NextOf, n
    <3>2. [r EXCEPT !.good = FALSE].good = FALSE
      BY <1>2 DEF ReaderFields
    <3> QED BY <1>4, <3>1, <3>2 DEF NextChar
  <2> DEFINE q == [r EXCEPT !.good = FALSE]
  <2>2. /\ DOMAIN q = ReaderFields /\ q = [f \in ReaderFields |-> q[f]] /\ q.at = r.at /\ q.c = r.c
        /\ q.good = FALSE /\ q.lookahead = r.lookahead /\ q.loc = r.loc /\ q.next_loc = r.next_loc
    BY <1>2 DEF ReaderFields
  <2> HIDE DEF q
  <2>3. q.at = n + 1
    BY <1>1, <1>2, <1>4, <2>2 DEF n
  <2>4. PlaceFits(q)
    BY <1>2, <1>4, <2>2, <2>3 DEF PlaceFits, n
  <2>5. NextChar(r) = q
    BY <2>1 DEF q
  <2>6. ~(r.at <= n)
    BY <1>1, <1>2, <1>4 DEF n
  <2> QED BY <1>4, <2>2, <2>4, <2>5, <2>6 DEF n
<1>5. CASE ~r.lookahead /\ r.at <= n
  <2> DEFINE read == [r EXCEPT !.good = TRUE, !.c = json[r.at], !.at = @ + 1]
             q == [read EXCEPT !.loc = r.next_loc, !.next_loc = After(@, read.c)]
  <2>1. /\ DOMAIN read = ReaderFields /\ read = [f \in ReaderFields |-> read[f]] /\ read.at = r.at + 1
        /\ read.c = json[r.at] /\ read.good = TRUE /\ read.lookahead = r.lookahead
        /\ read.next_loc = r.next_loc
    BY <1>2 DEF ReaderFields
  <2>2. NextOf(r) = read
    BY <1>1, <1>2, <1>5 DEF NextOf, n
  <2> HIDE DEF read
  <2>3. NextChar(r) = q
    BY <1>5, <2>1, <2>2 DEF NextChar
  <2>4. /\ DOMAIN q = ReaderFields /\ q = [f \in ReaderFields |-> q[f]] /\ q.at = r.at + 1 /\ q.c = json[r.at]
        /\ q.good = TRUE /\ q.lookahead = FALSE /\ q.loc = r.next_loc
        /\ q.next_loc = After(r.next_loc, json[r.at])
    BY <1>2, <1>5, <2>1 DEF ReaderFields
  <2> HIDE DEF q
  <2>5. r.at - 1 \in Nat /\ (r.at - 1) + 1 = r.at /\ q.at - 1 = r.at /\ q.at - 2 = r.at - 1 /\ q.at \in 1..(n + 1)
        /\ q.at # 1
    BY <1>1, <1>2, <1>5, <2>4 DEF n
  <2>6. q.next_loc = LocationOf(q.at - 1)
    <3>1. LocationOf((r.at - 1) + 1) = After(LocationOf(r.at - 1), json[(r.at - 1) + 1])
      BY <2>5, LocationAfter
    <3> QED BY <1>2, <2>4, <2>5, <3>1
  <2>7. q.c = json[q.at - 1] /\ q.loc = LocationOf(q.at - 2)
    BY <1>2, <2>4, <2>5
  <2>8. PlaceFits(q)
    BY <2>4, <2>5, <2>6, <2>7 DEF PlaceFits, n
  <2> QED BY <1>1, <1>2, <1>5, <2>3, <2>4, <2>8 DEF n
<1> QED BY <1>1, <1>2, <1>3, <1>4, <1>5 DEF n

(* What the text alone decides stays.                                      *)
LEMMA TextStays ==
  ASSUME json' = json
  PROVE  /\ \A i : LocationOf(i)' = LocationOf(i)
         /\ \A i, j : AllBlank(i, j)' <=> AllBlank(i, j)
<1>1. \A i : LocationOf(i)' = LocationOf(i)
  BY DEF LocationOf
<1>2. \A i, j : AllBlank(i, j)' <=> AllBlank(i, j)
  BY DEF AllBlank
<1> QED BY <1>1, <1>2

LEMMA PlaceStays ==
  ASSUME json' = json, NEW r, PlaceFits(r), in_json' = r
  PROVE  PlaceFits(in_json)'
<1>1. \A i : LocationOf(i)' = LocationOf(i)
  BY TextStays
<1> QED BY <1>1 DEF PlaceFits

LEMMA TokensStay ==
  ASSUME TokensInv, json' = json, tokens' = tokens
  PROVE  TokensInv' /\ Lexed' = Lexed
<1>1. (\A i : LocationOf(i)' = LocationOf(i)) /\ (\A i, j : AllBlank(i, j)' <=> AllBlank(i, j))
  BY TextStays
<1>2. \A k : EndOf(k)' = EndOf(k) /\ BeginOf(k)' = BeginOf(k)
  BY DEF EndOf, BeginOf
<1>3. \A k : TokenFits(k)' <=> TokenFits(k)
  BY <1>1, <1>2 DEF TokenFits
<1> QED BY <1>2, <1>3 DEF TokensInv, Lexed

(* A token, which starts behind b characters and ends with the e-th, is a  *)
(* piece of the text behind the last one.                                  *)
NewToken(t, b, e) ==
  /\ t.from = LocationOf(b) /\ t.to = LocationOf(e - 1) /\ Spells(SubSeq(json, b + 1, e), t)
  /\ Lexed <= b /\ AllBlank(Lexed + 1, b)
  /\ t.type = "number" /\ e < Len(json) => json[e + 1] \notin DigitChars

LEMMA TokensGrow ==
  ASSUME TokensInv, json' = json, NEW t, tokens' = Append(tokens, t),
         NEW b \in Nat, NEW e \in Nat, e > 0, NewToken(t, b, e)
  PROVE  TokensInv' /\ Lexed' = e
<1>1. (\A i : LocationOf(i)' = LocationOf(i)) /\ (\A i, j : AllBlank(i, j)' <=> AllBlank(i, j))
  BY TextStays
<1>2. PICK T : tokens \in Seq(T)
  BY DEF TokensInv
<1>n. PICK n : n = Len(tokens)
  OBVIOUS
<1> DEFINE U == T \cup {t}
<1>3. tokens \in Seq(U) /\ t \in U
  <2>1. n \in Nat /\ DOMAIN tokens = 1..n /\ \A k \in 1..n : tokens[k] \in T
    BY <1>2, <1>n, SeqFacts
  <2>2. tokens = [k \in 1..n |-> tokens[k]]
    BY <1>2, <1>n
  <2> QED BY <2>1, <2>2
<1> HIDE DEF U
<1>4. /\ tokens' \in Seq(U) /\ Len(tokens') = n + 1 /\ tokens'[n + 1] = t
      /\ \A k \in 1..n : tokens'[k] = tokens[k]
  BY <1>3, <1>n, AppendProperties
<1>5. n \in Nat /\ DOMAIN tokens = 1..n /\ DOMAIN (tokens') = 1..(n + 1)
  <2>1. n \in Nat /\ DOMAIN tokens = 1..n
    BY <1>3, <1>n, SeqFacts
  <2> QED BY <1>4, <2>1, SeqFacts
<1>6. t.from.index = b /\ t.to.index = e - 1
  BY LocationIndex DEF NewToken
<1>7. EndOf(n + 1)' = e /\ BeginOf(n + 1)' = b
  <2>1. n + 1 # 0 /\ (e - 1) + 1 = e
    BY <1>5
  <2> QED BY <1>4, <1>6, <2>1 DEF EndOf, BeginOf
<1>8. \A k \in 0..n : EndOf(k)' = EndOf(k)
  <2>1. \A k \in 0..n : k = 0 \/ k \in 1..n
    BY <1>5
  <2> QED BY <1>4, <2>1 DEF EndOf
<1>9. \A k \in 1..n : BeginOf(k)' = BeginOf(k)
  BY <1>4 DEF BeginOf
<1>10. ASSUME NEW k \in 1..n
       PROVE  TokenFits(k)' /\ EndOf(k)' \in Nat /\ BeginOf(k)' \in Nat
  <2>1. TokenFits(k) /\ EndOf(k) \in Nat /\ BeginOf(k) \in Nat
    BY <1>5 DEF TokensInv
  <2>2. k \in 0..n /\ k - 1 \in 0..n
    BY <1>5
  <2>3. EndOf(k)' = EndOf(k) /\ EndOf(k - 1)' = EndOf(k - 1) /\ BeginOf(k)' = BeginOf(k) /\ tokens'[k] = tokens[k]
    BY <1>4, <1>8, <1>9, <2>2
  <2> QED BY <1>1, <2>1, <2>3 DEF TokenFits
<1>11. Lexed = EndOf(n) /\ Lexed' = EndOf(n + 1)'
  BY <1>4, <1>n DEF Lexed
<1>12. TokenFits(n + 1)'
  <2>1. (n + 1) - 1 = n /\ n \in 0..n
    BY <1>5
  <2>2. EndOf((n + 1) - 1)' = Lexed
    BY <1>8, <1>11, <2>1
  <2>3. tokens'[n + 1] = t
    BY <1>4
  <2> QED BY <1>1, <1>7, <2>2, <2>3 DEF TokenFits, NewToken
<1>13. \A k \in 1..(n + 1) : k \in 1..n \/ k = n + 1
  BY <1>5
<1>14. \A k \in DOMAIN (tokens') : TokenFits(k)' /\ EndOf(k)' \in Nat /\ BeginOf(k)' \in Nat
  BY <1>5, <1>7, <1>10, <1>12, <1>13
<1>15. TokensInv'
  BY <1>4, <1>14 DEF TokensInv
<1> QED BY <1>7, <1>11, <1>15

-----------------------------------------------------------------------------
(* r has read a character, or the end, behind the first e characters.      *)
Reading(r, e) ==
  /\ PlaceFits(r) /\ ~r.lookahead /\ e \in Nat /\ e <= Len(json)
  /\ r.good => r.at = e + 2 /\ e < Len(json) /\ r.c = json[e + 1] /\ r.loc = LocationOf(e)
  /\ ~r.good => r.at = e + 1 /\ e = Len(json)

LEMMA ReadingIs ==
  ASSUME NEW r, NEW e \in Nat, json \in Seq(Characters), PlaceFits(r), ~r.lookahead,
         r.good => r.at = e + 2, ~r.good => r.at = e + 1
  PROVE  Reading(r, e)
<1>1. Len(json) \in Nat
  OBVIOUS
<1>2. /\ r.at \in 1..(Len(json) + 1)
      /\ r.at > 1 => r.c = json[r.at - 1] /\ r.loc = LocationOf(r.at - 2)
      /\ ~r.good => r.at = Len(json) + 1
  BY DEF PlaceFits
<1>3. CASE r.good
  <2>1. r.at = e + 2 /\ r.at > 1 /\ r.at - 1 = e + 1 /\ r.at - 2 = e /\ e < Len(json) /\ e <= Len(json)
    BY <1>1, <1>2, <1>3
  <2>2. r.c = json[e + 1] /\ r.loc = LocationOf(e)
    BY <1>2, <2>1
  <2> QED BY <1>3, <2>1, <2>2 DEF Reading
<1>4. CASE ~r.good
  <2>1. r.at = e + 1 /\ e = Len(json)
    BY <1>1, <1>2, <1>4
  <2>2. e <= Len(json)
    BY <1>1, <2>1
  <2> QED BY <1>4, <2>1, <2>2 DEF Reading
<1> QED BY <1>3, <1>4

LEMMA ReadOn ==
  ASSUME NEW r, NEW e, Reading(r, e), r.good, json \in Seq(Characters)
  PROVE  Reading(NextChar(r), e + 1)
<1>1. PlaceFits(r) /\ ~r.lookahead /\ e \in Nat /\ r.at = e + 2 /\ e < Len(json) /\ Len(json) \in Nat
  BY DEF Reading
<1> DEFINE q == NextChar(r)
<1>2. /\ PlaceFits(q) /\ ~q.lookahead
      /\ r.at <= Len(json) => q.at = r.at + 1 /\ q.good
      /\ r.at > Len(json) => q.at = r.at /\ ~q.good
  BY <1>1, NextCharIs
<1> HIDE DEF q
<1>3. (q.good => q.at = (e + 1) + 2) /\ (~q.good => q.at = (e + 1) + 1) /\ e + 1 \in Nat
  BY <1>1, <1>2
<1>4. Reading(q, e + 1)
  BY <1>2, <1>3, ReadingIs
<1> QED BY <1>4 DEF q

LEMMA LexedIs == TokensInv => Lexed \in Nat
<1> SUFFICES ASSUME TokensInv PROVE Lexed \in Nat
  OBVIOUS
<1>1. PICK T : tokens \in Seq(T)
  BY DEF TokensInv
<1>2. Len(tokens) \in Nat /\ DOMAIN tokens = 1..Len(tokens)
  BY <1>1, SeqFacts
<1>3. CASE Len(tokens) = 0
  BY <1>3 DEF Lexed, EndOf
<1>4. CASE Len(tokens) # 0
  <2>1. Len(tokens) \in DOMAIN tokens
    BY <1>2, <1>4
  <2> QED BY <2>1 DEF TokensInv, Lexed
<1> QED BY <1>3, <1>4

LEMMA LiteralIs ==
  /\ NoLiteral.type = "none"
  /\ StringInv => literal.type = "string" /\ literal # NoLiteral
  /\ NumberInv => literal.type = "number" /\ literal # NoLiteral
<1>1. NoLiteral.type = "none"
  BY DEF NoLiteral
<1>2. StringInv => literal.type = "string"
  BY DEF StringInv
<1>3. NumberInv => literal.type = "number"
  BY DEF NumberInv
<1> QED BY <1>1, <1>2, <1>3

(* Between two tokens, what is read next is behind what is consumed.       *)
LEMMA BetweenReads ==
  ASSUME LexerInv, BetweenInv
  PROVE  \E e, r, l : /\ e = Consumed /\ l = Lexed /\ r = NextChar(in_json) /\ Reading(r, e)
                      /\ l \in Nat /\ l <= e /\ AllBlank(l + 1, e)
<1>1. json \in Seq(Characters) /\ PlaceFits(in_json) /\ literal.type = "none" /\ Lexed \in Nat
  BY LiteralIs, LexedIs DEF LexerInv, BetweenInv
<1>2. PICK p : p = in_json
  OBVIOUS
<1>3. PICK e : e = Consumed
  OBVIOUS
<1>4. /\ p.at \in 1..(Len(json) + 1) /\ p.good \in BOOLEAN /\ p.lookahead \in BOOLEAN
      /\ ~p.good => p.at = Len(json) + 1
      /\ p.at = 1 => ~p.lookahead
      /\ Len(json) \in Nat
  BY <1>1, <1>2 DEF PlaceFits
<1>5. e = IF p.lookahead /\ p.good THEN p.at - 2 ELSE p.at - 1
  BY <1>1, <1>2, <1>3 DEF Consumed, Held
<1>6. e \in Nat
  BY <1>4, <1>5
<1>7. PICK r : r = NextChar(p)
  OBVIOUS
<1>8. /\ PlaceFits(r) /\ ~r.lookahead
      /\ p.lookahead => r.at = p.at /\ r.good = p.good
      /\ ~p.lookahead /\ p.at <= Len(json) => r.at = p.at + 1 /\ r.good
      /\ ~p.lookahead /\ p.at > Len(json) => r.at = p.at /\ ~r.good
  BY <1>1, <1>2, <1>7, NextCharIs
<1>9. (r.good => r.at = e + 2) /\ (~r.good => r.at = e + 1)
  <2>1. CASE p.lookahead
    BY <1>4, <1>5, <1>8, <2>1
  <2>2. CASE ~p.lookahead
    BY <1>4, <1>5, <1>8, <2>2
  <2> QED BY <2>1, <2>2
<1>10. Reading(r, e)
  BY <1>1, <1>6, <1>8, <1>9, ReadingIs
<1> QED BY <1>1, <1>2, <1>3, <1>7, <1>10 DEF BetweenInv

(* In a literal, what was read last is behind what is consumed.            *)
LEMMA InLiteralReads ==
  ASSUME LexerInv, StringInv \/ NumberInv
  PROVE  \E e, r, b, l : /\ e = Consumed /\ r = in_json /\ b = literal.from.index /\ l = Lexed
                         /\ Reading(r, e) /\ b <= e /\ b \in Nat /\ l \in Nat /\ l <= b /\ AllBlank(l + 1, b)
                         /\ literal.from = LocationOf(b)
<1>1. json \in Seq(Characters) /\ PlaceFits(in_json) /\ literal.type # "none" /\ Lexed \in Nat
  BY LiteralIs, LexedIs DEF LexerInv
<1>2. PICK p, e, b : p = in_json /\ e = Consumed /\ b = literal.from.index
  OBVIOUS
<1>3. LiteralStarts(b) /\ b <= e
  <2>1. CASE StringInv
    <3>1. LiteralStarts(b) /\ b < Consumed
      BY <1>2, <2>1 DEF StringInv
    <3>2. Consumed \in Int /\ b \in Int
      <4>1. in_json.at \in Int
        BY <1>1 DEF PlaceFits
      <4> QED BY <3>1, <4>1 DEF Consumed, LiteralStarts
    <3>3. e \in Int /\ b < e
      BY <1>2, <3>1, <3>2
    <3> QED BY <3>1, <3>2, <3>3
  <2>2. CASE NumberInv
    BY <1>2, <2>2 DEF NumberInv
  <2> QED BY <2>1, <2>2
<1>4. /\ p.at \in 1..(Len(json) + 1) /\ p.good \in BOOLEAN /\ ~p.lookahead
      /\ b \in Nat /\ Len(json) \in Nat
  BY <1>1, <1>2, <1>3 DEF PlaceFits, LiteralStarts
<1>5. e = IF p.good THEN p.at - 2 ELSE p.at - 1
  BY <1>1, <1>2 DEF Consumed, Held
<1>6. e \in Nat /\ (p.good => p.at = e + 2) /\ (~p.good => p.at = e + 1)
  BY <1>3, <1>4, <1>5
<1>7. Reading(p, e)
  BY <1>1, <1>2, <1>4, <1>6, ReadingIs
<1>8. Lexed <= b /\ AllBlank(Lexed + 1, b) /\ literal.from = LocationOf(b)
  BY <1>3 DEF LiteralStarts
<1> QED BY <1>1, <1>2, <1>3, <1>4, <1>7, <1>8

(* What is consumed afterwards.                                            *)
LEMMA ConsumedIs ==
  ASSUME NEW r, NEW e, Reading(r, e), in_json' = r, NEW v, literal' = v
  PROVE  /\ v.type # "none" => Consumed' = e
         /\ v.type = "none" /\ r.good => Consumed' = e + 1
         /\ v.type = "none" /\ ~r.good => Consumed' = e
<1>1. /\ ~r.lookahead /\ e \in Nat
      /\ r.good => r.at = e + 2
      /\ ~r.good => r.at = e + 1
  BY DEF Reading
<1>2. Consumed' = IF (r.lookahead \/ v.type # "none") /\ r.good THEN r.at - 2 ELSE r.at - 1
  BY DEF Consumed, Held
<1> QED BY <1>1, <1>2

LEMMA BetweenHolds ==
  ASSUME json' = json, literal' = NoLiteral, NEW e, Consumed' = e, NEW l, Lexed' = l, l <= e, AllBlank(l + 1, e)
  PROVE  BetweenInv'
<1>1. AllBlank(l + 1, e)'
  BY TextStays
<1> QED BY <1>1 DEF BetweenInv

LEMMA StartsHolds ==
  ASSUME json' = json, NEW b \in Nat, NEW l, Lexed' = l, l <= b, AllBlank(l + 1, b), ~in_json'.lookahead,
         literal'.from = LocationOf(b)
  PROVE  LiteralStarts(b)'
BY TextStays DEF LiteralStarts

LEMMA StringHolds ==
  ASSUME json' = json, NEW b \in Nat, NEW e \in Nat, Consumed' = e, NEW v \in Seq(Characters),
         literal' = [type |-> "string", value |-> v, from |-> LocationOf(b)],
         NEW l, Lexed' = l, l <= b, AllBlank(l + 1, b), ~in_json'.lookahead,
         b < e, json[b + 1] = Quote,
         NEW s, s = SubSeq(json, b + 1, e), \A i \in DOMAIN s : ~Closes(s, i),
         in_json'.good => ~IsEscaped(s, Len(s) + 1) /\ Unescaped(s, v)
  PROVE  StringInv'
<1>1. PICK w : w = LocationOf(b)
  OBVIOUS
<1>2. w.index = b
  BY <1>1, LocationIndex
<1>3. literal'.from = w /\ literal'.value = v /\ literal'.from.index = b
      /\ literal' = [type |-> "string", value |-> literal'.value, from |-> literal'.from]
  BY <1>1, <1>2
<1>4. LiteralStarts(b)'
  BY <1>1, <1>3, StartsHolds
<1> QED BY <1>3, <1>4 DEF StringInv

LEMMA NumberHolds ==
  ASSUME json' = json, NEW b \in Nat, NEW e \in Nat, Consumed' = e, NEW v, NEW to,
         literal' = [type |-> "number", value |-> v, from |-> LocationOf(b), to |-> to],
         NEW l, Lexed' = l, l <= b, AllBlank(l + 1, b), ~in_json'.lookahead,
         b <= e, \A i \in (b + 1)..e : json[i] \in DigitChars, v = Decimal(SubSeq(json, b + 1, e)),
         e = b => InNumber', e > b => to = LocationOf(e - 1)
  PROVE  NumberInv'
<1>1. PICK w : w = LocationOf(b)
  OBVIOUS
<1>2. w.index = b
  BY <1>1, LocationIndex
<1>3. literal'.from = w /\ literal'.value = v /\ literal'.from.index = b /\ literal'.to = to
      /\ literal' = [type |-> "number", value |-> literal'.value, from |-> literal'.from, to |-> literal'.to]
  BY <1>1, <1>2
<1>4. LiteralStarts(b)'
  BY <1>1, <1>3, StartsHolds
<1>5. LocationOf(e - 1)' = LocationOf(e - 1)
  BY TextStays
<1> QED BY <1>3, <1>4, <1>5 DEF NumberInv

LEMMA BlankMore ==
  ASSUME NEW l \in Nat, NEW e \in Nat
  PROVE  /\ AllBlank(l + 1, e) /\ json[e + 1] \in Whitespace => AllBlank(l + 1, e + 1)
         /\ AllBlank(e + 1, e)
<1>1. \A k \in (l + 1)..(e + 1) : k \in (l + 1)..e \/ k = e + 1
  OBVIOUS
<1>2. (e + 1)..e = {}
  OBVIOUS
<1> QED BY <1>1, <1>2 DEF AllBlank

-----------------------------------------------------------------------------
(* What every step keeps.                                                  *)
LEMMA StepHolds ==
  ASSUME json' = json, json \in Seq(Characters), NEW r, in_json' = r, PlaceFits(r), TokensInv', StateInv'
  PROVE  LexerInv'
<1>1. PlaceFits(in_json)'
  BY PlaceStays
<1> QED BY <1>1 DEF LexerInv

LEMMA InBetween ==
  ASSUME LexerInv, lexing = "lexing", literal = NoLiteral
  PROVE  BetweenInv
BY LiteralIs DEF LexerInv, StateInv

LEMMA InALiteral ==
  ASSUME LexerInv, lexing = "lexing", literal.type = "string"
  PROVE  StringInv
BY LiteralIs DEF LexerInv, StateInv, BetweenInv

LEMMA InANumber ==
  ASSUME LexerInv, lexing = "lexing", literal.type = "number"
  PROVE  NumberInv
BY LiteralIs DEF LexerInv, StateInv, BetweenInv

LEMMA SkipWhitespaceKeeps ==
  ASSUME LexerInv, SkipWhitespace
  PROVE  LexerInv'
<1>1. /\ lexing = "lexing" /\ literal = NoLiteral /\ json' = json /\ in_json' = NextChar(in_json)
      /\ NextChar(in_json).good /\ NextChar(in_json).c \in Whitespace
      /\ literal' = literal /\ tokens' = tokens /\ lexing' = lexing
  BY DEF SkipWhitespace, Between
<1>2. BetweenInv
  BY <1>1, InBetween
<1>3. PICK e, r, l : /\ e = Consumed /\ l = Lexed /\ r = NextChar(in_json) /\ Reading(r, e)
                     /\ l \in Nat /\ l <= e /\ AllBlank(l + 1, e)
  BY <1>2, BetweenReads
<1>4. json \in Seq(Characters) /\ TokensInv
  BY DEF LexerInv
<1>5. r.good /\ r.c = json[e + 1] /\ e \in Nat /\ PlaceFits(r)
  BY <1>1, <1>3 DEF Reading
<1>6. Consumed' = e + 1
  BY <1>1, <1>3, <1>5, ConsumedIs, LiteralIs
<1>7. TokensInv' /\ Lexed' = l
  BY <1>1, <1>3, <1>4, TokensStay
<1>8. AllBlank(l + 1, e + 1) /\ l <= e + 1
  BY <1>1, <1>3, <1>5, BlankMore
<1>9. BetweenInv'
  BY <1>1, <1>6, <1>7, <1>8, BetweenHolds
<1>10. StateInv'
  BY <1>1, <1>9 DEF StateInv
<1> QED BY <1>1, <1>3, <1>4, <1>5, <1>7, <1>10, StepHolds

LEMMA LexPunctuationKeeps ==
  ASSUME LexerInv, LexPunctuation
  PROVE  LexerInv'
<1>1. /\ lexing = "lexing" /\ literal = NoLiteral /\ json' = json /\ in_json' = NextChar(in_json)
      /\ NextChar(in_json).good /\ NextChar(in_json).c \in Punctuation
      /\ literal' = literal /\ lexing' = lexing
      /\ tokens' = Append(tokens, [type |-> "punctuation", value |-> in_json'.c,
                                   from |-> in_json'.loc, to |-> in_json'.loc])
  BY DEF LexPunctuation, Between, Emit
<1>2. BetweenInv
  BY <1>1, InBetween
<1>3. PICK e, r, l : /\ e = Consumed /\ l = Lexed /\ r = NextChar(in_json) /\ Reading(r, e)
                     /\ l \in Nat /\ l <= e /\ AllBlank(l + 1, e)
  BY <1>2, BetweenReads
<1>4. json \in Seq(Characters) /\ TokensInv
  BY DEF LexerInv
<1>5. r.good /\ r.c = json[e + 1] /\ r.loc = LocationOf(e) /\ e \in Nat /\ PlaceFits(r) /\ e < Len(json)
      /\ Len(json) \in Nat
  BY <1>1, <1>3, <1>4 DEF Reading
<1>6. Consumed' = e + 1
  BY <1>1, <1>3, <1>5, ConsumedIs, LiteralIs
<1>7. PICK t : t = [type |-> "punctuation", value |-> r.c, from |-> r.loc, to |-> r.loc]
  OBVIOUS
<1>8. tokens' = Append(tokens, t)
  BY <1>1, <1>3, <1>7
<1>9. t.type = "punctuation" /\ t.value = r.c /\ t.from = r.loc /\ t.to = r.loc
  BY <1>7
<1>10. PICK s : s = SubSeq(json, e + 1, e + 1)
  OBVIOUS
<1>11. s = <<r.c>>
  <2>2. SubSeq(json, e + 1, e + 1) = <<json[e + 1]>>
    <3>1. e + 1 \in 1..Len(json) /\ json \in Seq(Characters)
      BY <1>4, <1>5
    <3> QED BY <3>1, PieceOfOne
  <2> QED BY <1>5, <1>10, <2>2
<1>12. Spells(s, t)
  <2>1. t.value \in Punctuation /\ s = <<t.value>>
    BY <1>1, <1>3, <1>9, <1>11
  <2> QED BY <1>9, <2>1, Zenon DEF Spells
<1>13. NewToken(t, e, e + 1)
  <2>1. (e + 1) - 1 = e
    BY <1>5
  <2> QED BY <1>3, <1>5, <1>9, <1>10, <1>12, <2>1 DEF NewToken
<1>14. TokensInv' /\ Lexed' = e + 1
  <2>1. e + 1 \in Nat /\ e + 1 > 0
    BY <1>5
  <2> QED BY <1>1, <1>4, <1>5, <1>8, <1>13, <2>1, TokensGrow
<1>15. BetweenInv'
  <2>1. AllBlank((e + 1) + 1, e + 1) /\ e + 1 <= e + 1
    BY <1>5, BlankMore
  <2> QED BY <1>1, <1>6, <1>14, <2>1, BetweenHolds
<1>16. StateInv'
  BY <1>1, <1>15 DEF StateInv
<1> QED BY <1>1, <1>3, <1>4, <1>5, <1>14, <1>16, StepHolds

LEMMA BeginStringKeeps ==
  ASSUME LexerInv, BeginString
  PROVE  LexerInv'
<1>1. /\ lexing = "lexing" /\ literal = NoLiteral /\ json' = json /\ in_json' = NextChar(NextChar(in_json))
      /\ NextChar(in_json).good /\ NextChar(in_json).c = Quote
      /\ literal' = [type |-> "string", value |-> <<>>, from |-> NextChar(in_json).loc]
      /\ tokens' = tokens /\ lexing' = lexing
  BY DEF BeginString, Between
<1>2. BetweenInv
  BY <1>1, InBetween
<1>3. PICK e, r, l : /\ e = Consumed /\ l = Lexed /\ r = NextChar(in_json) /\ Reading(r, e)
                     /\ l \in Nat /\ l <= e /\ AllBlank(l + 1, e)
  BY <1>2, BetweenReads
<1>4. json \in Seq(Characters) /\ TokensInv
  BY DEF LexerInv
<1>5. r.good /\ r.c = json[e + 1] /\ r.loc = LocationOf(e) /\ e \in Nat /\ e < Len(json) /\ Len(json) \in Nat
  BY <1>1, <1>3, <1>4 DEF Reading
<1>6. PICK q : q = NextChar(r)
  OBVIOUS
<1>7. Reading(q, e + 1)
  BY <1>3, <1>4, <1>5, <1>6, ReadOn
<1>8. in_json' = q /\ PlaceFits(q) /\ ~q.lookahead
  BY <1>1, <1>3, <1>6, <1>7 DEF Reading
<1>9. PICK v : v = [type |-> "string", value |-> <<>>, from |-> LocationOf(e)]
  OBVIOUS
<1>10. literal' = v /\ v.type # "none"
  BY <1>1, <1>3, <1>5, <1>9
<1>11. Consumed' = e + 1
  BY <1>7, <1>8, <1>10, ConsumedIs
<1>12. TokensInv' /\ Lexed' = l
  BY <1>1, <1>3, <1>4, TokensStay
<1>13. PICK s : s = SubSeq(json, e + 1, e + 1)
  OBVIOUS
<1>14. Len(s) = 1 /\ DOMAIN s = 1..1 /\ s[1] = Quote
  <2>1. e + 1 \in Nat /\ e <= e + 1 /\ e + 1 <= Len(json) /\ (e + 1) - e = 1
    BY <1>5
  <2>2. Len(s) = (e + 1) - e /\ DOMAIN s = 1..((e + 1) - e) /\ \A k \in 1..((e + 1) - e) : s[k] = json[e + k]
    BY <1>4, <1>5, <1>13, <2>1, PieceFacts
  <2>3. Len(s) = 1 /\ DOMAIN s = 1..1 /\ \A k \in 1..1 : s[k] = json[e + k]
    BY <2>1, <2>2
  <2> QED BY <1>1, <1>3, <1>5, <2>3
<1>15. \A i \in DOMAIN s : ~Closes(s, i)
  BY <1>14 DEF Closes
<1>16. ~IsEscaped(s, Len(s) + 1) /\ Unescaped(s, <<>>)
  <2>1. Quote # Backslash
    BY DEF Quote, Backslash
  <2>2. IsEscaped(s, 1 + 1) <=> s[1] = Backslash /\ ~IsEscaped(s, 1)
    BY EscapedIs
  <2> QED BY <1>14, <2>1, <2>2, UnescapedOfQuote
<1>17. StringInv'
  <2>1. e + 1 \in Nat /\ e < e + 1 /\ <<>> \in Seq(Characters) /\ ~in_json'.lookahead /\ json[e + 1] = Quote
    BY <1>1, <1>3, <1>5, <1>8
  <2> QED BY <1>1, <1>3, <1>5, <1>9, <1>10, <1>11, <1>12, <1>13, <1>15, <1>16, <2>1, StringHolds
<1>18. StateInv'
  BY <1>1, <1>17 DEF StateInv
<1> QED BY <1>1, <1>4, <1>8, <1>12, <1>18, StepHolds

LEMMA BeginNumberKeeps ==
  ASSUME LexerInv, BeginNumber
  PROVE  LexerInv'
<1>1. /\ lexing = "lexing" /\ literal = NoLiteral /\ json' = json /\ in_json' = NextChar(in_json)
      /\ NextChar(in_json).good /\ NextChar(in_json).c \in DigitChars
      /\ literal' = [type |-> "number", value |-> 0, from |-> in_json'.loc, to |-> in_json'.loc]
      /\ tokens' = tokens /\ lexing' = lexing
  BY DEF BeginNumber, Between
<1>2. BetweenInv
  BY <1>1, InBetween
<1>3. PICK e, r, l : /\ e = Consumed /\ l = Lexed /\ r = NextChar(in_json) /\ Reading(r, e)
                     /\ l \in Nat /\ l <= e /\ AllBlank(l + 1, e)
  BY <1>2, BetweenReads
<1>4. json \in Seq(Characters) /\ TokensInv
  BY DEF LexerInv
<1>5. r.good /\ r.loc = LocationOf(e) /\ e \in Nat /\ PlaceFits(r) /\ e < Len(json) /\ Len(json) \in Nat
      /\ ~r.lookahead /\ in_json' = r /\ r.c \in DigitChars
  BY <1>1, <1>3, <1>4 DEF Reading
<1>6. PICK v : v = [type |-> "number", value |-> 0, from |-> LocationOf(e), to |-> r.loc]
  OBVIOUS
<1>7. literal' = v /\ v.type = "number"
  BY <1>1, <1>5, <1>6
<1>8. Consumed' = e
  BY <1>3, <1>5, <1>7, ConsumedIs
<1>9. TokensInv' /\ Lexed' = l
  BY <1>1, <1>3, <1>4, TokensStay
<1>10. Decimal(SubSeq(json, e + 1, e)) = 0
  <2>1. e <= e /\ e <= Len(json) /\ e - e = 0
    BY <1>5
  <2>2. Len(SubSeq(json, e + 1, e)) = e - e
    BY <1>4, <1>5, <2>1, PieceFacts
  <2> QED BY <2>1, <2>2, DecimalOfNone
<1>11. InNumber'
  BY <1>5, <1>7 DEF InNumber
<1>12. NumberInv'
  <2>1. e <= e /\ ~(e > e) /\ \A i \in (e + 1)..e : json[i] \in DigitChars
    BY <1>5
  <2>2. ~in_json'.lookahead
    BY <1>5
  <2> QED BY <1>1, <1>3, <1>5, <1>6, <1>7, <1>8, <1>9, <1>10, <1>11, <2>1, <2>2, NumberHolds
<1>13. StateInv'
  BY <1>1, <1>12 DEF StateInv
<1> QED BY <1>1, <1>4, <1>5, <1>9, <1>13, StepHolds

LEMMA LexEndKeeps ==
  ASSUME LexerInv, LexEnd
  PROVE  LexerInv'
<1>1. /\ lexing = "lexing" /\ literal = NoLiteral /\ json' = json /\ in_json' = NextChar(in_json)
      /\ ~NextChar(in_json).good /\ literal' = literal /\ tokens' = tokens /\ lexing' = "end"
  BY DEF LexEnd
<1>2. BetweenInv
  BY <1>1, InBetween
<1>3. PICK e, r, l : /\ e = Consumed /\ l = Lexed /\ r = NextChar(in_json) /\ Reading(r, e)
                     /\ l \in Nat /\ l <= e /\ AllBlank(l + 1, e)
  BY <1>2, BetweenReads
<1>4. json \in Seq(Characters) /\ TokensInv
  BY DEF LexerInv
<1>5. ~r.good /\ e = Len(json) /\ PlaceFits(r)
  BY <1>1, <1>3 DEF Reading
<1>6. Consumed' = e
  BY <1>1, <1>3, <1>5, ConsumedIs, LiteralIs
<1>7. TokensInv' /\ Lexed' = l
  BY <1>1, <1>3, <1>4, TokensStay
<1>8. BetweenInv'
  BY <1>1, <1>3, <1>6, <1>7, BetweenHolds
<1>9. Consumed' = Len(json')
  BY <1>1, <1>5, <1>6
<1>10. StateInv'
  BY <1>1, <1>8, <1>9 DEF StateInv
<1> QED BY <1>1, <1>3, <1>4, <1>5, <1>7, <1>10, StepHolds

LEMMA InvalidCharacterKeeps ==
  ASSUME LexerInv, InvalidCharacter
  PROVE  LexerInv'
<1>1. /\ lexing = "lexing" /\ literal = NoLiteral /\ json' = json /\ in_json' = NextChar(in_json)
      /\ NextChar(in_json).good /\ literal' = literal /\ tokens' = tokens /\ lexing' = "invalid_character"
      /\ NextChar(in_json).c \notin Whitespace \cup Punctuation \cup {Quote} \cup DigitChars
  BY DEF InvalidCharacter
<1>2. BetweenInv
  BY <1>1, InBetween
<1>3. PICK e, r, l : /\ e = Consumed /\ l = Lexed /\ r = NextChar(in_json) /\ Reading(r, e)
                     /\ l \in Nat /\ l <= e /\ AllBlank(l + 1, e)
  BY <1>2, BetweenReads
<1>4. json \in Seq(Characters) /\ TokensInv
  BY DEF LexerInv
<1>5. r.good /\ r.c = json[e + 1] /\ r.at = e + 2 /\ e \in Nat /\ PlaceFits(r) /\ ~r.lookahead
  BY <1>1, <1>3 DEF Reading
<1>6. r.at > 1 /\ r.at - 1 = e + 1 /\ r.at - 2 = e
  BY <1>5
<1>7. TokensInv' /\ Lexed' = l
  BY <1>1, <1>3, <1>4, TokensStay
<1>8. InvalidInv'
  <2>1. in_json'.at = r.at /\ in_json' = r
    BY <1>1, <1>3
  <2>2. AllBlank(l + 1, e)'
    BY <1>1, <1>3, TextStays
  <2>3. json'[r.at - 1] \notin Whitespace \cup Punctuation \cup {Quote} \cup DigitChars
    BY <1>1, <1>3, <1>5, <1>6
  <2> QED BY <1>1, <1>3, <1>5, <1>6, <1>7, <2>1, <2>2, <2>3 DEF InvalidInv
<1>9. StateInv'
  BY <1>1, <1>8 DEF StateInv
<1> QED BY <1>1, <1>3, <1>4, <1>5, <1>7, <1>9, StepHolds

LEMMA LexStringCharKeeps ==
  ASSUME LexerInv, LexStringChar
  PROVE  LexerInv'
<1>1. /\ lexing = "lexing" /\ literal.type = "string" /\ in_json.good /\ in_json.c # Quote
      /\ json' = json /\ tokens' = tokens /\ lexing' = lexing
  BY DEF LexStringChar
<1>2. StringInv
  BY <1>1, InALiteral
<1>3. PICK e, r, b, l : /\ e = Consumed /\ r = in_json /\ b = literal.from.index /\ l = Lexed
                        /\ Reading(r, e) /\ b <= e /\ b \in Nat /\ l \in Nat /\ l <= b /\ AllBlank(l + 1, b)
                        /\ literal.from = LocationOf(b)
  BY <1>2, InLiteralReads
<1>4. PICK s, v : s = SubSeq(json, b + 1, e) /\ v = literal.value
  OBVIOUS
<1>5. /\ literal = [type |-> "string", value |-> v, from |-> LocationOf(b)]
      /\ b < e /\ json[b + 1] = Quote /\ v \in Seq(Characters)
      /\ \A i \in DOMAIN s : ~Closes(s, i)
      /\ ~IsEscaped(s, Len(s) + 1) /\ Unescaped(s, v)
  BY <1>1, <1>2, <1>3, <1>4 DEF StringInv
<1>6. json \in Seq(Characters) /\ TokensInv
  BY DEF LexerInv
<1>7. /\ r.c = json[e + 1] /\ e \in Nat /\ e < Len(json) /\ Len(json) \in Nat /\ r.good /\ r.c # Quote
      /\ r.c \in Characters
  <2>1. r.c = json[e + 1] /\ e \in Nat /\ e < Len(json) /\ r.good /\ r.c # Quote
    BY <1>1, <1>3 DEF Reading
  <2>2. Len(json) \in Nat /\ \A k \in 1..Len(json) : json[k] \in Characters
    BY <1>6, SeqFacts
  <2>3. e + 1 \in 1..Len(json)
    BY <2>1, <2>2
  <2> QED BY <2>1, <2>2, <2>3
<1>t. json \in Seq(Characters)
  BY <1>6
<1>b. b \in Nat /\ e \in Nat /\ b <= e /\ b < e /\ e < Len(json) /\ e <= Len(json) /\ Len(json) \in Nat
  BY <1>3, <1>5, <1>7
<1>8. TokensInv' /\ Lexed' = l
  BY <1>1, <1>3, <1>6, TokensStay
<1>9. PICK t : t = SubSeq(json, b + 1, e + 1)
  OBVIOUS
<1>10. Extends(t, s) /\ t[Len(t)] = r.c /\ Len(s) > 0 /\ Len(s) \in Nat
  <2>1. Extends(t, s) /\ t[e + 1 - b] = json[e + 1]
    <3>1. /\ Extends(SubSeq(json, b + 1, e + 1), SubSeq(json, b + 1, e))
          /\ SubSeq(json, b + 1, e + 1)[e + 1 - b] = json[e + 1]
      BY <1>t, <1>b, PieceExtends
    <3> QED BY <1>4, <1>9, <3>1
  <2>2. Len(s) = e - b
    <3>1. Len(SubSeq(json, b + 1, e)) = e - b
      BY <1>t, <1>b, PieceFacts
    <3> QED BY <1>4, <3>1
  <2>3. Len(t) = Len(s) + 1
    BY <2>1 DEF Extends
  <2>4. Len(t) = e + 1 - b /\ Len(s) > 0 /\ Len(s) \in Nat
    BY <1>b, <2>2, <2>3
  <2> QED BY <1>7, <2>1, <2>4
<1>11. Len(t) = Len(s) + 1 /\ DOMAIN s = 1..Len(s) /\ DOMAIN t = 1..Len(t)
  BY <1>10 DEF Extends
<1>12. \A i \in DOMAIN t : ~Closes(t, i)
  <2>1. ASSUME NEW i \in 1..Len(s)
        PROVE  ~Closes(t, i)
    BY <1>5, <1>10, <1>11, ClosesSame
  <2>2. ~Closes(t, Len(t))
    BY <1>7, <1>10 DEF Closes
  <2>3. \A i \in 1..Len(t) : i \in 1..Len(s) \/ i = Len(t)
    BY <1>10, <1>11
  <2> QED BY <1>11, <2>1, <2>2, <2>3
<1>13. /\ IsEscaped(t, Len(t) + 1) <=> r.c = Backslash
       /\ ~IsEscaped(s, Len(t))
  BY <1>5, <1>10, <1>11, EscapedOfMore
<1>14. PICK q : q = NextChar(r)
  OBVIOUS
<1>15. Reading(q, e + 1) /\ PlaceFits(q) /\ ~q.lookahead
  <2>1. Reading(q, e + 1)
    BY <1>3, <1>6, <1>7, <1>14, ReadOn
  <2> QED BY <2>1 DEF Reading
<1>16. b < e + 1 /\ e + 1 \in Nat
  BY <1>3, <1>5, <1>7
<1>17. CASE r.c # Backslash
  <2>1. in_json' = q /\ literal' = [literal EXCEPT !.value = Append(@, r.c)]
    BY <1>1, <1>3, <1>7, <1>14, <1>17 DEF LexStringChar
  <2>2. PICK w : w = Append(v, r.c)
    OBVIOUS
  <2>3. PICK x : x = [type |-> "string", value |-> w, from |-> LocationOf(b)]
    OBVIOUS
  <2>4. literal' = x /\ x.type # "none"
    <3>1. literal = [type |-> "string", value |-> v, from |-> LocationOf(b)]
      BY <1>5
    <3>2. [literal EXCEPT !.value = Append(@, r.c)]
          = [type |-> "string", value |-> Append(v, r.c), from |-> LocationOf(b)]
      BY <3>1
    <3> QED BY <2>1, <2>2, <2>3, <3>2
  <2>5. w \in Seq(Characters) /\ Unescaped(t, w)
    <3>1. w \in Seq(Characters)
      BY <1>5, <1>7, <2>2, AppendProperties
    <3>2. Unescaped(t, w)
      BY <1>5, <1>7, <1>10, <1>17, <2>2, UnescapedOfMore
    <3> QED BY <3>1, <3>2
  <2>6. Consumed' = e + 1
    BY <1>15, <2>1, <2>4, ConsumedIs
  <2>7. ~IsEscaped(t, Len(t) + 1)
    BY <1>13, <1>17
  <2>8. StringInv'
    <3>1. ~in_json'.lookahead
      BY <1>15, <2>1
    <3> QED BY <1>1, <1>3, <1>5, <1>8, <1>9, <1>12, <1>16, <2>3, <2>4, <2>5, <2>6, <2>7, <3>1, StringHolds
  <2>9. StateInv'
    BY <1>1, <2>8 DEF StateInv
  <2> QED BY <1>1, <1>6, <1>8, <1>15, <2>1, <2>9, StepHolds
<1>18. CASE r.c = Backslash /\ ~q.good
  <2>1. in_json' = q /\ literal' = literal
    BY <1>1, <1>3, <1>14, <1>18 DEF LexStringChar
  <2>2. PICK x : x = [type |-> "string", value |-> v, from |-> LocationOf(b)]
    OBVIOUS
  <2>3. literal' = x /\ x.type # "none"
    BY <1>5, <2>1, <2>2
  <2>4. Consumed' = e + 1
    BY <1>15, <2>1, <2>3, ConsumedIs
  <2>5. StringInv'
    <3>1. ~in_json'.lookahead /\ ~in_json'.good
      BY <1>15, <1>18, <2>1
    <3> QED BY <1>1, <1>3, <1>5, <1>8, <1>9, <1>12, <1>16, <2>2, <2>3, <2>4, <3>1, StringHolds
  <2>6. StateInv'
    BY <1>1, <2>5 DEF StateInv
  <2> QED BY <1>1, <1>6, <1>8, <1>15, <2>1, <2>6, StepHolds
<1>19. CASE r.c = Backslash /\ q.good
  <2>1. in_json' = NextChar(q) /\ literal' = [literal EXCEPT !.value = Append(@, q.c)]
    BY <1>1, <1>3, <1>14, <1>19 DEF LexStringChar
  <2>2. PICK p, w : p = NextChar(q) /\ w = Append(v, q.c)
    OBVIOUS
  <2>3. PICK x : x = [type |-> "string", value |-> w, from |-> LocationOf(b)]
    OBVIOUS
  <2>4. literal' = x /\ x.type # "none"
    <3>1. literal = [type |-> "string", value |-> v, from |-> LocationOf(b)]
      BY <1>5
    <3>2. [literal EXCEPT !.value = Append(@, q.c)]
          = [type |-> "string", value |-> Append(v, q.c), from |-> LocationOf(b)]
      BY <3>1
    <3> QED BY <2>1, <2>2, <2>3, <3>2
  <2>5. PICK d : d = e + 1
    OBVIOUS
  <2>6. d \in Nat /\ b <= d /\ Reading(q, d) /\ (e + 1) + 1 = d + 1
    <3>1. d \in Nat /\ b <= d /\ (e + 1) + 1 = d + 1
      BY <1>b, <2>5
    <3> QED BY <1>15, <2>5, <3>1
  <2>7. q.c = json[d + 1] /\ d < Len(json) /\ q.c \in Characters
    <3>1. q.c = json[d + 1] /\ d < Len(json)
      BY <1>19, <2>6 DEF Reading
    <3>2. Len(json) \in Nat /\ \A k \in 1..Len(json) : json[k] \in Characters
      BY <1>6, SeqFacts
    <3>3. d + 1 \in 1..Len(json)
      BY <2>6, <3>1, <3>2
    <3> QED BY <3>1, <3>2, <3>3
  <2>8. Reading(p, d + 1) /\ PlaceFits(p) /\ ~p.lookahead
    <3>1. Reading(p, d + 1)
      BY <1>6, <1>19, <2>2, <2>6, ReadOn
    <3> QED BY <3>1 DEF Reading
  <2>9. Consumed' = d + 1
    BY <2>1, <2>2, <2>4, <2>8, ConsumedIs
  <2>10. t = SubSeq(json, b + 1, d)
    BY <1>9, <2>5
  <2>11. PICK u : u = SubSeq(json, b + 1, d + 1)
    OBVIOUS
  <2>12. Extends(u, t) /\ Len(t) > 0 /\ Len(t) \in Nat /\ Len(u) = Len(t) + 1 /\ DOMAIN u = 1..Len(u)
         /\ u[Len(u)] = q.c
    <3>0. b \in Nat /\ d \in Nat /\ b <= d /\ d < Len(json) /\ d <= Len(json) /\ Len(json) \in Nat /\ b < d
      BY <1>b, <2>5, <2>7
    <3>1. Extends(u, t) /\ u[d + 1 - b] = json[d + 1]
      <4>1. /\ Extends(SubSeq(json, b + 1, d + 1), SubSeq(json, b + 1, d))
            /\ SubSeq(json, b + 1, d + 1)[d + 1 - b] = json[d + 1]
        BY <1>t, <3>0, PieceExtends
      <4> QED BY <2>10, <2>11, <4>1
    <3>2. Len(t) = d - b
      <4>1. Len(SubSeq(json, b + 1, d)) = d - b
        BY <1>t, <3>0, PieceFacts
      <4> QED BY <2>10, <4>1
    <3>3. Len(u) = Len(t) + 1 /\ DOMAIN u = 1..Len(u)
      BY <3>1 DEF Extends
    <3>4. Len(u) = d + 1 - b /\ Len(t) \in Nat /\ Len(t) > 0
      BY <3>0, <3>2, <3>3
    <3> QED BY <2>7, <3>1, <3>3, <3>4
  <2>13. IsEscaped(t, Len(u))
    BY <1>13, <1>19, <2>12
  <2>14. IsEscaped(u, Len(u)) /\ ~IsEscaped(u, Len(u) + 1)
    BY <2>12, <2>13, EscapedOfMore
  <2>15. \A i \in DOMAIN u : ~Closes(u, i)
    <3>1. ASSUME NEW i \in 1..Len(t)
          PROVE  ~Closes(u, i)
      BY <1>11, <1>12, <2>12, ClosesSame
    <3>2. ~Closes(u, Len(u))
      BY <2>14 DEF Closes
    <3>3. \A i \in 1..Len(u) : i \in 1..Len(t) \/ i = Len(u)
      BY <2>12
    <3> QED BY <2>12, <3>1, <3>2, <3>3
  <2>16. Unescaped(t, v)
    BY <1>5, <1>10, <1>13, <1>19, UnescapedOfBackslash
  <2>17. w \in Seq(Characters) /\ Unescaped(u, w)
    <3>1. w \in Seq(Characters)
      BY <1>5, <2>2, <2>7, AppendProperties
    <3>2. Unescaped(u, w)
      BY <1>5, <2>2, <2>7, <2>12, <2>13, <2>16, UnescapedOfMore
    <3> QED BY <3>1, <3>2
  <2>18. StringInv'
    <3>1. ~in_json'.lookahead /\ b < d + 1 /\ d + 1 \in Nat
      BY <1>3, <2>1, <2>2, <2>6, <2>8
    <3> QED BY <1>1, <1>3, <1>5, <1>8, <2>3, <2>4, <2>9, <2>11, <2>14, <2>15, <2>17, <3>1, StringHolds
  <2>19. StateInv'
    BY <1>1, <2>18 DEF StateInv
  <2> QED BY <1>1, <1>6, <1>8, <2>1, <2>2, <2>8, <2>19, StepHolds
<1> QED BY <1>17, <1>18, <1>19

(* A string that a quote ends is spelled by its characters.                *)
LEMMA SpelledString ==
  ASSUME NEW s, NEW u, Extends(u, s), Len(s) > 0, s[1] = Quote, \A i \in DOMAIN s : ~Closes(s, i),
         ~IsEscaped(s, Len(s) + 1), u[Len(u)] = Quote,
         NEW t, t.type = "string", Unescaped(s, t.value)
  PROVE  Spells(u, t)
<1>1. /\ Len(s) \in Nat /\ DOMAIN s = 1..Len(s) /\ Len(u) = Len(s) + 1 /\ DOMAIN u = 1..Len(u)
      /\ \A k \in 1..Len(s) : u[k] = s[k]
  BY DEF Extends
<1>2. u[1] = Quote
  BY <1>1
<1>3. {i \in DOMAIN u : Closes(u, i)} = {Len(u)}
  <2>1. ASSUME NEW i \in 1..Len(s)
        PROVE  ~Closes(u, i)
    BY <1>1, ClosesSame
  <2>2. Closes(u, Len(u))
    <3>1. ~IsEscaped(u, Len(u))
      BY <1>1, EscapedOfMore
    <3>2. Len(u) > 1
      BY <1>1
    <3> QED BY <3>1, <3>2 DEF Closes
  <2>3. \A i \in 1..Len(u) : i \in 1..Len(s) \/ i = Len(u)
    BY <1>1
  <2>4. Len(u) \in 1..Len(u)
    BY <1>1
  <2> QED BY <1>1, <2>1, <2>2, <2>3, <2>4
<1>4. PICK value : value = t.value
  OBVIOUS
<1>5. PICK at \in [DOMAIN value -> 2..Len(s)] :
        /\ \A j, k \in DOMAIN at : j < k => at[j] < at[k]
        /\ Range(at) = Places(s)
        /\ \A k \in DOMAIN at : value[k] = s[at[k]]
  BY <1>4, UnescapedIs
<1>6. Len(u) - 1 = Len(s) /\ \A i \in 2..Len(s) : i \in 1..Len(s)
  BY <1>1
<1>7. Places(s) = {i \in 2..(Len(u) - 1) : u[i] = Backslash => IsEscaped(u, i)}
  <2>1. ASSUME NEW i \in 2..Len(s)
        PROVE  IsEscaped(s, i) <=> IsEscaped(u, i)
    <3>1. i \in Nat /\ \A k \in 1..(i - 1) : s[k] = u[k]
      BY <1>1
    <3> QED BY <3>1, EscapedSame
  <2> QED BY <1>1, <1>6, <2>1 DEF Places
<1>8. /\ at \in [DOMAIN value -> 2..(Len(u) - 1)]
      /\ \A k \in DOMAIN at : value[k] = u[at[k]]
  <2>1. \A k \in DOMAIN at : at[k] \in 1..Len(s)
    BY <1>6
  <2> QED BY <1>1, <1>5, <1>6, <2>1
<1>9. \E to \in [DOMAIN value -> 2..(Len(u) - 1)] :
        /\ \A j, k \in DOMAIN to : j < k => to[j] < to[k]
        /\ Range(to) = {i \in 2..(Len(u) - 1) : u[i] = Backslash => IsEscaped(u, i)}
        /\ \A k \in DOMAIN to : value[k] = u[to[k]]
  BY <1>5, <1>7, <1>8
<1> QED BY <1>2, <1>3, <1>4, <1>9, Zenon DEF Spells

LEMMA EndStringKeeps ==
  ASSUME LexerInv, EndString
  PROVE  LexerInv'
<1>1. /\ lexing = "lexing" /\ literal.type = "string" /\ in_json.good /\ in_json.c = Quote
      /\ json' = json /\ in_json' = in_json /\ literal' = NoLiteral /\ lexing' = lexing
      /\ tokens' = Append(tokens, [type |-> "string", value |-> literal.value,
                                   from |-> literal.from, to |-> in_json.loc])
  BY DEF EndString, Emit
<1>2. StringInv
  BY <1>1, InALiteral
<1>3. PICK e, r, b, l : /\ e = Consumed /\ r = in_json /\ b = literal.from.index /\ l = Lexed
                        /\ Reading(r, e) /\ b <= e /\ b \in Nat /\ l \in Nat /\ l <= b /\ AllBlank(l + 1, b)
                        /\ literal.from = LocationOf(b)
  BY <1>2, InLiteralReads
<1>4. PICK s, v : s = SubSeq(json, b + 1, e) /\ v = literal.value
  OBVIOUS
<1>5. /\ b < e /\ json[b + 1] = Quote
      /\ \A i \in DOMAIN s : ~Closes(s, i)
      /\ ~IsEscaped(s, Len(s) + 1) /\ Unescaped(s, v)
  BY <1>1, <1>2, <1>3, <1>4 DEF StringInv
<1>6. json \in Seq(Characters) /\ TokensInv
  BY DEF LexerInv
<1>7. r.c = json[e + 1] /\ r.loc = LocationOf(e) /\ e \in Nat /\ e < Len(json) /\ r.good /\ r.c = Quote /\ PlaceFits(r)
  BY <1>1, <1>3 DEF Reading
<1>8. json \in Seq(Characters)
  BY <1>6
<1>9. b \in Nat /\ e \in Nat /\ b <= e /\ b < e /\ e < Len(json) /\ e <= Len(json) /\ Len(json) \in Nat
  BY <1>3, <1>5, <1>7, <1>8
<1>10. PICK u : u = SubSeq(json, b + 1, e + 1)
  OBVIOUS
<1>11. Extends(u, s) /\ u[Len(u)] = Quote /\ Len(s) > 0 /\ s[1] = Quote
  <2>1. Extends(u, s) /\ u[e + 1 - b] = json[e + 1]
    <3>1. /\ Extends(SubSeq(json, b + 1, e + 1), SubSeq(json, b + 1, e))
          /\ SubSeq(json, b + 1, e + 1)[e + 1 - b] = json[e + 1]
      BY <1>8, <1>9, PieceExtends
    <3> QED BY <1>4, <1>10, <3>1
  <2>2. Len(s) = e - b /\ \A k \in 1..(e - b) : s[k] = json[b + k]
    <3>1. /\ Len(SubSeq(json, b + 1, e)) = e - b
          /\ \A k \in 1..(e - b) : SubSeq(json, b + 1, e)[k] = json[b + k]
      BY <1>8, <1>9, PieceFacts
    <3> QED BY <1>4, <3>1
  <2>3. Len(u) = Len(s) + 1
    BY <2>1 DEF Extends
  <2>4. Len(u) = e + 1 - b /\ Len(s) > 0 /\ 1 \in 1..(e - b)
    BY <1>9, <2>2, <2>3
  <2> QED BY <1>5, <1>7, <2>1, <2>2, <2>4
<1>12. PICK t : t = [type |-> "string", value |-> v, from |-> LocationOf(b), to |-> r.loc]
  OBVIOUS
<1>13. tokens' = Append(tokens, t)
  BY <1>1, <1>3, <1>4, <1>12
<1>14. t.type = "string" /\ t.value = v /\ t.from = LocationOf(b) /\ t.to = LocationOf(e)
  BY <1>7, <1>12
<1>15. Spells(u, t)
  BY <1>5, <1>11, <1>14, SpelledString
<1>16. NewToken(t, b, e + 1)
  <2>1. (e + 1) - 1 = e
    BY <1>9
  <2> QED BY <1>3, <1>10, <1>14, <1>15, <2>1 DEF NewToken
<1>17. TokensInv' /\ Lexed' = e + 1
  <2>1. e + 1 \in Nat /\ e + 1 > 0
    BY <1>9
  <2> QED BY <1>1, <1>6, <1>9, <1>13, <1>16, <2>1, TokensGrow
<1>18. Consumed' = e + 1
  BY <1>1, <1>3, <1>7, ConsumedIs, LiteralIs
<1>19. BetweenInv'
  <2>1. AllBlank((e + 1) + 1, e + 1) /\ e + 1 <= e + 1
    BY <1>9, BlankMore
  <2> QED BY <1>1, <1>17, <1>18, <2>1, BetweenHolds
<1>20. StateInv'
  BY <1>1, <1>19 DEF StateInv
<1> QED BY <1>1, <1>3, <1>7, <1>8, <1>17, <1>20, StepHolds

LEMMA EndInStringKeeps ==
  ASSUME LexerInv, EndInString
  PROVE  LexerInv'
<1>1. /\ lexing = "lexing" /\ literal.type = "string" /\ ~in_json.good
      /\ json' = json /\ in_json' = in_json /\ literal' = literal /\ tokens' = tokens
      /\ lexing' = "unexpected_end_in_string"
  BY DEF EndInString
<1>2. StringInv
  BY <1>1, InALiteral
<1>3. PICK e, r, b, l : /\ e = Consumed /\ r = in_json /\ b = literal.from.index /\ l = Lexed
                        /\ Reading(r, e) /\ b <= e /\ b \in Nat /\ l \in Nat /\ l <= b /\ AllBlank(l + 1, b)
                        /\ literal.from = LocationOf(b)
  BY <1>2, InLiteralReads
<1>4. PICK s, v : s = SubSeq(json, b + 1, e) /\ v = literal.value
  OBVIOUS
<1>5. /\ literal = [type |-> "string", value |-> v, from |-> LocationOf(b)]
      /\ b < e /\ json[b + 1] = Quote /\ v \in Seq(Characters)
      /\ \A i \in DOMAIN s : ~Closes(s, i)
  BY <1>1, <1>2, <1>3, <1>4 DEF StringInv
<1>6. json \in Seq(Characters) /\ TokensInv
  BY DEF LexerInv
<1>7. PlaceFits(r) /\ ~r.lookahead /\ e \in Nat /\ ~r.good /\ in_json' = r
  BY <1>1, <1>3 DEF Reading
<1>8. TokensInv' /\ Lexed' = l
  BY <1>1, <1>3, <1>6, TokensStay
<1>9. PICK x : x = [type |-> "string", value |-> v, from |-> LocationOf(b)]
  OBVIOUS
<1>10. literal' = x /\ x.type # "none"
  BY <1>1, <1>5, <1>9
<1>11. Consumed' = e
  BY <1>3, <1>7, <1>10, ConsumedIs
<1>12. StringInv'
  <2>1. ~in_json'.lookahead /\ ~in_json'.good
    BY <1>7
  <2> QED BY <1>1, <1>3, <1>4, <1>5, <1>7, <1>8, <1>9, <1>10, <1>11, <2>1, StringHolds
<1>13. StateInv'
  <2>1. ~in_json'.good
    BY <1>7
  <2> QED BY <1>1, <1>12, <2>1 DEF StateInv
<1> QED BY <1>1, <1>6, <1>7, <1>8, <1>13, StepHolds

LEMMA LexDigitKeeps ==
  ASSUME LexerInv, LexDigit
  PROVE  LexerInv'
<1>1. /\ lexing = "lexing" /\ literal.type = "number" /\ in_json.good /\ in_json.c \in DigitChars
      /\ json' = json /\ in_json' = NextChar(in_json) /\ tokens' = tokens /\ lexing' = lexing
      /\ literal' = [literal EXCEPT !.value = @ * 10 + DigitValue(in_json.c), !.to = in_json.loc]
  BY DEF LexDigit, InNumber
<1>2. NumberInv
  BY <1>1, InANumber
<1>3. PICK e, r, b, l : /\ e = Consumed /\ r = in_json /\ b = literal.from.index /\ l = Lexed
                        /\ Reading(r, e) /\ b <= e /\ b \in Nat /\ l \in Nat /\ l <= b /\ AllBlank(l + 1, b)
                        /\ literal.from = LocationOf(b)
  BY <1>2, InLiteralReads
<1>4. PICK s, v, o : s = SubSeq(json, b + 1, e) /\ v = literal.value /\ o = literal.to
  OBVIOUS
<1>5. /\ literal = [type |-> "number", value |-> v, from |-> LocationOf(b), to |-> o]
      /\ v = Decimal(s) /\ \A i \in (b + 1)..e : json[i] \in DigitChars
  BY <1>2, <1>3, <1>4 DEF NumberInv
<1>6. json \in Seq(Characters) /\ TokensInv
  BY DEF LexerInv
<1>7. r.c = json[e + 1] /\ r.loc = LocationOf(e) /\ e \in Nat /\ e < Len(json) /\ r.good /\ r.c \in DigitChars
  BY <1>1, <1>3 DEF Reading
<1>8. json \in Seq(Characters)
  BY <1>6
<1>9. b \in Nat /\ e \in Nat /\ b <= e /\ e < Len(json) /\ e <= Len(json) /\ Len(json) \in Nat
  BY <1>3, <1>7, <1>8
<1>10. PICK t : t = SubSeq(json, b + 1, e + 1)
  OBVIOUS
<1>11. Extends(t, s) /\ t[Len(t)] = r.c
  <2>1. Extends(t, s) /\ t[e + 1 - b] = json[e + 1]
    <3>1. /\ Extends(SubSeq(json, b + 1, e + 1), SubSeq(json, b + 1, e))
          /\ SubSeq(json, b + 1, e + 1)[e + 1 - b] = json[e + 1]
      BY <1>8, <1>9, PieceExtends
    <3> QED BY <1>4, <1>10, <3>1
  <2>2. Len(s) = e - b
    <3>1. Len(SubSeq(json, b + 1, e)) = e - b
      BY <1>8, <1>9, PieceFacts
    <3> QED BY <1>4, <3>1
  <2>3. Len(t) = Len(s) + 1
    BY <2>1 DEF Extends
  <2>4. Len(t) = e + 1 - b
    BY <1>9, <2>2, <2>3
  <2> QED BY <1>7, <2>1, <2>4
<1>12. PICK w : w = v * 10 + DigitValue(r.c)
  OBVIOUS
<1>13. w = Decimal(SubSeq(json, b + 1, e + 1))
  <2>1. Decimal(t) = Decimal(s) * 10 + DigitValue(t[Len(t)])
    BY <1>11, DecimalOfMore
  <2> QED BY <1>5, <1>10, <1>11, <1>12, <2>1
<1>14. PICK q : q = NextChar(r)
  OBVIOUS
<1>15. Reading(q, e + 1) /\ PlaceFits(q) /\ ~q.lookahead /\ in_json' = q
  <2>1. Reading(q, e + 1)
    BY <1>3, <1>7, <1>8, <1>14, ReadOn
  <2> QED BY <1>1, <1>3, <1>14, <2>1 DEF Reading
<1>16. PICK x : x = [type |-> "number", value |-> w, from |-> LocationOf(b), to |-> r.loc]
  OBVIOUS
<1>17. literal' = x /\ x.type # "none"
  <2>1. literal' = [literal EXCEPT !.value = w, !.to = r.loc]
    <3>1. literal.value * 10 + DigitValue(r.c) = w
      BY <1>4, <1>12
    <3>2. literal' = [literal EXCEPT !.value = @ * 10 + DigitValue(r.c), !.to = r.loc]
      BY <1>1, <1>3
    <3> QED BY <3>1, <3>2
  <2>2. [literal EXCEPT !.value = w, !.to = r.loc]
        = [type |-> "number", value |-> w, from |-> LocationOf(b), to |-> r.loc]
    <3>1. literal = [type |-> "number", value |-> v, from |-> LocationOf(b), to |-> o]
      BY <1>5
    <3>2. PICK y, at, p : y = literal /\ at = LocationOf(b) /\ p = r.loc
      OBVIOUS
    <3>3. y = [type |-> "number", value |-> v, from |-> at, to |-> o]
      BY <3>1, <3>2
    <3>4. [y EXCEPT !.value = w, !.to = p] = [type |-> "number", value |-> w, from |-> at, to |-> p]
      <4> DEFINE z == [y EXCEPT !.value = w]
      <4>1. z = [type |-> "number", value |-> w, from |-> at, to |-> o]
        BY <3>3
      <4>2. [y EXCEPT !.value = w, !.to = p] = [z EXCEPT !.to = p]
        OBVIOUS
      <4> HIDE DEF z
      <4> QED BY <4>1, <4>2
    <3> QED BY <3>2, <3>4
  <2> QED BY <1>16, <2>1, <2>2
<1>18. TokensInv' /\ Lexed' = l
  BY <1>1, <1>3, <1>6, TokensStay
<1>19. Consumed' = e + 1
  BY <1>15, <1>17, ConsumedIs
<1>20. NumberInv'
  <2>1. /\ e + 1 \in Nat /\ b <= e + 1 /\ e + 1 # b /\ (e + 1) - 1 = e
        /\ \A i \in (b + 1)..(e + 1) : i \in (b + 1)..e \/ i = e + 1
    BY <1>9
  <2>2. \A i \in (b + 1)..(e + 1) : json[i] \in DigitChars
    BY <1>5, <1>7, <2>1
  <2>3. ~in_json'.lookahead
    BY <1>15
  <2>4. r.loc = LocationOf((e + 1) - 1)
    BY <1>7, <2>1
  <2> QED BY <1>1, <1>3, <1>13, <1>16, <1>17, <1>18, <1>19, <2>1, <2>2, <2>3, <2>4, NumberHolds
<1>21. StateInv'
  BY <1>1, <1>20 DEF StateInv
<1> QED BY <1>1, <1>8, <1>15, <1>18, <1>21, StepHolds

LEMMA EndNumberKeeps ==
  ASSUME LexerInv, EndNumber
  PROVE  LexerInv'
<1>1. /\ lexing = "lexing" /\ literal.type = "number" /\ ~InNumber
      /\ json' = json /\ in_json' = [in_json EXCEPT !.lookahead = TRUE]
      /\ literal' = NoLiteral /\ lexing' = lexing
      /\ tokens' = Append(tokens, [type |-> "number", value |-> literal.value,
                                   from |-> literal.from, to |-> literal.to])
  BY DEF EndNumber, Emit
<1>2. NumberInv
  BY <1>1, InANumber
<1>3. PICK e, r, b, l : /\ e = Consumed /\ r = in_json /\ b = literal.from.index /\ l = Lexed
                        /\ Reading(r, e) /\ b <= e /\ b \in Nat /\ l \in Nat /\ l <= b /\ AllBlank(l + 1, b)
                        /\ literal.from = LocationOf(b)
  BY <1>2, InLiteralReads
<1>4. PICK s, v, o : s = SubSeq(json, b + 1, e) /\ v = literal.value /\ o = literal.to
  OBVIOUS
<1>5. /\ v = Decimal(s) /\ \A i \in (b + 1)..e : json[i] \in DigitChars
      /\ e # b /\ (e > b => o = LocationOf(e - 1))
  BY <1>1, <1>2, <1>3, <1>4 DEF NumberInv
<1>6. json \in Seq(Characters) /\ TokensInv
  BY DEF LexerInv
<1>7. /\ PlaceFits(r) /\ ~r.lookahead /\ e \in Nat /\ e <= Len(json)
      /\ r.good => r.at = e + 2 /\ r.c = json[e + 1] /\ r.c \notin DigitChars
      /\ ~r.good => r.at = e + 1 /\ e = Len(json)
  BY <1>1, <1>3 DEF Reading, InNumber
<1>8. json \in Seq(Characters)
  BY <1>6
<1>9. b \in Nat /\ e \in Nat /\ b <= e /\ b < e /\ e > b /\ e > 0 /\ e <= Len(json) /\ Len(json) \in Nat
  <2>1. b \in Nat /\ e \in Nat /\ b <= e /\ e # b /\ e <= Len(json)
    BY <1>3, <1>5, <1>7
  <2> QED BY <1>8, <2>1
<1>10. PICK t : t = [type |-> "number", value |-> v, from |-> LocationOf(b), to |-> o]
  OBVIOUS
<1>11. tokens' = Append(tokens, t)
  BY <1>1, <1>3, <1>4, <1>10
<1>12. t.type = "number" /\ t.value = v /\ t.from = LocationOf(b) /\ t.to = LocationOf(e - 1)
  BY <1>5, <1>9, <1>10
<1>13. Spells(s, t)
  <2>1. \A i \in DOMAIN s : s[i] \in DigitChars
    <3>1. /\ DOMAIN SubSeq(json, b + 1, e) = 1..(e - b)
          /\ \A k \in 1..(e - b) : SubSeq(json, b + 1, e)[k] = json[b + k]
      BY <1>8, <1>9, PieceFacts
    <3>2. \A k \in 1..(e - b) : b + k \in (b + 1)..e
      BY <1>9
    <3> QED BY <1>4, <1>5, <3>1, <3>2
  <2>2. t.value = Decimal(s)
    BY <1>5, <1>12
  <2> QED BY <1>12, <2>1, <2>2, Zenon DEF Spells
<1>14. e < Len(json) => json[e + 1] \notin DigitChars
  <2>1. e < Len(json) => e # Len(json)
    BY <1>9
  <2> QED BY <1>7, <2>1
<1>15. NewToken(t, b, e)
  BY <1>3, <1>4, <1>12, <1>13, <1>14 DEF NewToken
<1>16. TokensInv' /\ Lexed' = e
  BY <1>1, <1>6, <1>9, <1>11, <1>15, TokensGrow
<1>17. PICK q : q = [r EXCEPT !.lookahead = TRUE]
  OBVIOUS
<1>18. in_json' = q
  BY <1>1, <1>3, <1>17
<1>19. DOMAIN r = ReaderFields /\ r = [f \in ReaderFields |-> r[f]]
  BY <1>7 DEF PlaceFits
<1>20. /\ DOMAIN q = ReaderFields /\ q = [f \in ReaderFields |-> q[f]] /\ q.at = r.at /\ q.c = r.c
       /\ q.good = r.good /\ q.lookahead = TRUE /\ q.loc = r.loc /\ q.next_loc = r.next_loc
  BY <1>17, <1>19 DEF ReaderFields
<1>21. r.at # 1
  BY <1>7, <1>9
<1>22. PlaceFits(q)
  BY <1>7, <1>20, <1>21 DEF PlaceFits
<1>23. Consumed' = e
  <2>1. Consumed' = IF q.good THEN q.at - 2 ELSE q.at - 1
    BY <1>18, <1>20 DEF Consumed, Held
  <2> QED BY <1>7, <1>9, <1>20, <2>1
<1>24. BetweenInv'
  <2>1. AllBlank(e + 1, e) /\ e <= e
    BY <1>9, BlankMore
  <2> QED BY <1>1, <1>16, <1>23, <2>1, BetweenHolds
<1>25. StateInv'
  BY <1>1, <1>24 DEF StateInv
<1> QED BY <1>1, <1>8, <1>16, <1>18, <1>22, <1>25, StepHolds

-----------------------------------------------------------------------------
(* The invariant holds at the start, and when nothing happens.             *)
LEMMA JsonInitHolds == JsonInit => LexerInv
<1> SUFFICES ASSUME JsonInit PROVE LexerInv
  OBVIOUS
<1>1. json \in Seq(Characters)
  BY JsonTextsAssumption DEF JsonInit, Characters
<1>2. /\ in_json = [at |-> 1, c |-> " ", good |-> TRUE, lookahead |-> FALSE, loc |-> Start, next_loc |-> Start]
      /\ literal = NoLiteral /\ tokens = <<>> /\ lexing = "lexing"
  BY DEF JsonInit
<1>3. Len(json) \in Nat /\ 1 \in 1..(Len(json) + 1) /\ 1 - 1 = 0
  BY <1>1
<1>4. PlaceFits(in_json)
  <2>1. PICK blank : blank = " "
    OBVIOUS
  <2>2. in_json = [at |-> 1, c |-> blank, good |-> TRUE, lookahead |-> FALSE, loc |-> Start, next_loc |-> Start]
    BY <1>2, <2>1, Zenon
  <2>3. /\ DOMAIN in_json = ReaderFields /\ in_json = [f \in ReaderFields |-> in_json[f]]
        /\ in_json.at = 1 /\ in_json.good = TRUE /\ in_json.lookahead = FALSE /\ in_json.next_loc = Start
    BY <2>2 DEF ReaderFields
  <2>4. in_json.next_loc = LocationOf(in_json.at - 1) /\ ~(in_json.at > 1)
    BY <1>3, <2>3, LocationZero
  <2>5. in_json.at \in 1..(Len(json) + 1)
    BY <1>3, <2>3
  <2> QED BY <2>3, <2>4, <2>5 DEF PlaceFits
<1>5. Len(tokens) = 0 /\ DOMAIN tokens = {} /\ tokens \in Seq(Nat)
  <2>1. tokens = <<>>
    BY <1>2, Zenon
  <2> QED BY <2>1
<1>6. TokensInv /\ Lexed = 0
  BY <1>5 DEF TokensInv, Lexed, EndOf
<1>7. Consumed = 0
  <2>1. literal.type = "none" /\ in_json.at = 1 /\ ~in_json.lookahead
    BY <1>2, LiteralIs
  <2> QED BY <2>1 DEF Consumed, Held
<1>8. BetweenInv
  <2>1. AllBlank(0 + 1, 0) /\ 0 <= 0
    BY BlankMore
  <2> QED BY <1>2, <1>6, <1>7, <2>1 DEF BetweenInv
<1> QED BY <1>1, <1>2, <1>4, <1>6, <1>8 DEF LexerInv, StateInv

LEMMA JsonStutterKeeps ==
  ASSUME LexerInv, UNCHANGED jsonVars
  PROVE  LexerInv'
<1>1. json' = json /\ in_json' = in_json /\ literal' = literal /\ tokens' = tokens /\ lexing' = lexing
  BY DEF jsonVars
<1>2. json \in Seq(Characters) /\ PlaceFits(in_json) /\ TokensInv /\ StateInv
  BY DEF LexerInv
<1>3. TokensInv' /\ Lexed' = Lexed
  BY <1>1, <1>2, TokensStay
<1>4. Consumed' = Consumed
  BY <1>1 DEF Consumed, Held
<1>5. (\A i : LocationOf(i)' = LocationOf(i)) /\ (\A i, j : AllBlank(i, j)' <=> AllBlank(i, j))
  BY <1>1, TextStays
<1>6. \A b : LiteralStarts(b) => LiteralStarts(b)'
  BY <1>1, <1>3, <1>5 DEF LiteralStarts
<1>7. BetweenInv => BetweenInv'
  BY <1>1, <1>3, <1>4, <1>5 DEF BetweenInv
<1>8. StringInv => StringInv'
  BY <1>1, <1>4, <1>6 DEF StringInv
<1>9. NumberInv => NumberInv'
  BY <1>1, <1>4, <1>5, <1>6 DEF NumberInv, InNumber
<1>10. InvalidInv => InvalidInv'
  BY <1>1, <1>3, <1>5 DEF InvalidInv
<1>11. StateInv'
  BY <1>1, <1>2, <1>4, <1>7, <1>8, <1>9, <1>10 DEF StateInv
<1> QED BY <1>1, <1>2, <1>3, <1>11, StepHolds

(* The inductive invariant of the lexer, for all texts: what is consumed   *)
(* is tokens with whitespace between them, and the literal being read.     *)
THEOREM LexerInvariant == JsonSpec => []LexerInv
<1>1. JsonInit => LexerInv
  BY JsonInitHolds
<1>2. LexerInv /\ [JsonNext]_jsonVars => LexerInv'
  <2> SUFFICES ASSUME LexerInv, [JsonNext]_jsonVars PROVE LexerInv'
    OBVIOUS
  <2>1. CASE SkipWhitespace
    BY <2>1, SkipWhitespaceKeeps
  <2>2. CASE LexPunctuation
    BY <2>2, LexPunctuationKeeps
  <2>3. CASE BeginString
    BY <2>3, BeginStringKeeps
  <2>4. CASE BeginNumber
    BY <2>4, BeginNumberKeeps
  <2>5. CASE LexEnd
    BY <2>5, LexEndKeeps
  <2>6. CASE InvalidCharacter
    BY <2>6, InvalidCharacterKeeps
  <2>7. CASE LexStringChar
    BY <2>7, LexStringCharKeeps
  <2>8. CASE EndString
    BY <2>8, EndStringKeeps
  <2>9. CASE EndInString
    BY <2>9, EndInStringKeeps
  <2>10. CASE LexDigit
    BY <2>10, LexDigitKeeps
  <2>11. CASE EndNumber
    BY <2>11, EndNumberKeeps
  <2>12. CASE UNCHANGED jsonVars
    BY <2>12, JsonStutterKeeps
  <2> QED BY <2>1, <2>2, <2>3, <2>4, <2>5, <2>6, <2>7, <2>8, <2>9, <2>10, <2>11, <2>12 DEF JsonNext
<1> QED BY <1>1, <1>2, PTL DEF JsonSpec

(* When the lexer has ended, its invariant is what is claimed of it.       *)
LEMMA InvariantMeansText == LexerInv => TokensAreTheText
<1> SUFFICES ASSUME LexerInv, lexing # "lexing" PROVE TokensAreTheText
  BY DEF TokensAreTheText
<1>1. json \in Seq(Characters) /\ PlaceFits(in_json) /\ TokensInv /\ StateInv
  BY DEF LexerInv
<1>2. PICK left : left = Lexed + 1
  OBVIOUS
<1>3. \A k \in DOMAIN tokens : TokenFits(k)
  BY <1>1 DEF TokensInv
<1>4. lexing = "end" => AllBlank(left, Len(json))
  <2> SUFFICES ASSUME lexing = "end" PROVE AllBlank(left, Len(json))
    OBVIOUS
  <2>1. BetweenInv /\ Consumed = Len(json)
    BY <1>1 DEF StateInv
  <2> QED BY <1>2, <2>1 DEF BetweenInv
<1>5. ASSUME lexing = "invalid_character"
      PROVE  /\ in_json.loc = LocationOf(in_json.loc.index) /\ left <= in_json.loc.index + 1
             /\ AllBlank(left, in_json.loc.index)
             /\ json[in_json.loc.index + 1] \notin Whitespace \cup Punctuation \cup {Quote} \cup DigitChars
  <2>1. InvalidInv
    BY <1>1, <1>5 DEF StateInv
  <2>2. PICK a : a = in_json.at - 2
    OBVIOUS
  <2>3. in_json.at > 1 /\ Lexed <= a /\ AllBlank(left, a)
        /\ json[in_json.at - 1] \notin Whitespace \cup Punctuation \cup {Quote} \cup DigitChars
    BY <1>2, <2>1, <2>2 DEF InvalidInv
  <2>4. in_json.at \in Nat /\ in_json.loc = LocationOf(a)
    <3>1. Len(json) \in Nat
      BY <1>1
    <3> QED BY <1>1, <2>2, <2>3, <3>1 DEF PlaceFits
  <2>5. in_json.loc.index = a
    BY <2>4, LocationIndex
  <2>6. a + 1 = in_json.at - 1 /\ left <= a + 1
    BY <1>1, <1>2, <2>2, <2>3, <2>4, LexedIs
  <2> QED BY <2>3, <2>4, <2>5, <2>6
<1>6. ASSUME lexing = "unexpected_end_in_string"
      PROVE  \E i \in left..Len(json) :
               LET s == SubSeq(json, i, Len(json))
               IN  s[1] = Quote /\ AllBlank(left, i - 1) /\ \A j \in DOMAIN s : ~Closes(s, j)
  <2>1. StringInv /\ ~in_json.good
    BY <1>1, <1>6 DEF StateInv
  <2>2. PICK e, r, b, l : /\ e = Consumed /\ r = in_json /\ b = literal.from.index /\ l = Lexed
                          /\ Reading(r, e) /\ b <= e /\ b \in Nat /\ l \in Nat /\ l <= b /\ AllBlank(l + 1, b)
                          /\ literal.from = LocationOf(b)
    BY <2>1, InLiteralReads
  <2>3. e = Len(json) /\ e \in Nat
    BY <2>1, <2>2 DEF Reading
  <2>4. b < e /\ json[b + 1] = Quote /\ \A j \in DOMAIN SubSeq(json, b + 1, e) : ~Closes(SubSeq(json, b + 1, e), j)
    BY <2>1, <2>2 DEF StringInv
  <2>5. b \in Nat /\ l \in Nat /\ e \in Nat /\ b < e /\ b <= e /\ l <= b /\ e <= Len(json)
    BY <2>2, <2>3, <2>4
  <2>6. b + 1 \in left..Len(json) /\ (b + 1) - 1 = b /\ 1 \in 1..(e - b) /\ left = l + 1
    BY <1>2, <2>2, <2>3, <2>5
  <2>7. SubSeq(json, b + 1, e)[1] = json[b + 1]
    <3>1. \A k \in 1..(e - b) : SubSeq(json, b + 1, e)[k] = json[b + k]
      BY <1>1, <2>5, PieceFacts
    <3> QED BY <2>6, <3>1
  <2>8. AllBlank(left, (b + 1) - 1)
    BY <2>2, <2>6
  <2> QED BY <2>3, <2>4, <2>6, <2>7, <2>8
<1>7. left = EndOf(Len(tokens)) + 1
  BY <1>2 DEF Lexed
<1> QED BY <1>3, <1>4, <1>5, <1>6, <1>7, Zenon DEF TokensAreTheText

(* Whatever text the lexer is given, its tokens are the text: each is      *)
(* spelled by the characters between its two locations, whose lines and    *)
(* columns are right, only whitespace is between them, and what is         *)
(* rejected is at the place that the error names.                          *)
THEOREM EveryTokenIsText == JsonSpec => []TokensAreTheText
BY LexerInvariant, InvariantMeansText, PTL


-----------------------------------------------------------------------------
(* The characters that the tokenizer tells apart.                          *)
LEMMA SyntaxIs ==
  /\ Space # Colon /\ Space # NewLine /\ Space # Escape /\ Colon # NewLine /\ Colon # Escape /\ NewLine # Escape
  /\ Escape \notin Syntax /\ Space \in Syntax /\ Colon \in Syntax /\ NewLine \in Syntax
<1>1. /\ Space # Colon /\ Space # NewLine /\ Space # Escape
      /\ Colon # NewLine /\ Colon # Escape /\ NewLine # Escape
  BY Zenon DEF Space, Colon, NewLine, Escape
<1> QED BY <1>1 DEF Syntax

(* The tokenizer behind o characters of the text, of which the last one    *)
(* read was c.                                                             *)
Behind(o, c) == [at |-> o + 1, c |-> c, good |-> TRUE, ok |-> TRUE]

LEMMA ReadUnescapedIs ==
  ASSUME NEW o \in Nat, NEW c, Len(text) \in Nat
  PROVE  /\ \A x : Holds(text, o, <<x>>) => ReadUnescaped(Behind(o, c)) = Behind(o + 1, x)
         /\ o = Len(text) => ReadUnescaped(Behind(o, c)) = [Behind(o, c) EXCEPT !.good = FALSE]
<1> DEFINE r == Behind(o, c)
<1>1. r.at = o + 1 /\ r = [at |-> o + 1, c |-> c, good |-> TRUE, ok |-> TRUE]
  BY DEF Behind
<1>2. ASSUME NEW x, Holds(text, o, <<x>>)
      PROVE  ReadUnescaped(r) = Behind(o + 1, x)
  <2>1. Len(<<x>>) = 1 /\ 1 \in 1..1 /\ <<x>>[1] = x
    OBVIOUS
  <2>2. o + 1 <= Len(text) /\ text[o + 1] = x
    BY <1>2, <2>1 DEF Holds
  <2> HIDE DEF r
  <2>3. ~(r.at > Len(text))
    BY <1>1, <2>2
  <2>4. ReadUnescaped(r) = [r EXCEPT !.c = text[r.at], !.at = @ + 1]
    BY <2>3 DEF ReadUnescaped
  <2>5. [r EXCEPT !.c = text[r.at], !.at = @ + 1] = [at |-> o + 1 + 1, c |-> x, good |-> TRUE, ok |-> TRUE]
    <3>1. PICK at, y, next, g : at = o + 1 /\ y = text[r.at] /\ next = o + 1 + 1 /\ g = TRUE
      OBVIOUS
    <3>2. r = [at |-> at, c |-> c, good |-> g, ok |-> g]
      BY <1>1, <3>1
    <3>3. [r EXCEPT !.c = y, !.at = next] = [at |-> next, c |-> y, good |-> g, ok |-> g]
      <4> DEFINE z == [r EXCEPT !.c = y]
      <4>1. z = [at |-> at, c |-> y, good |-> g, ok |-> g]
        BY <3>2
      <4>2. [r EXCEPT !.c = y, !.at = next] = [z EXCEPT !.at = next]
        BY <3>2
      <4> HIDE DEF z
      <4>3. [z EXCEPT !.at = next] = [at |-> next, c |-> y, good |-> g, ok |-> g]
        BY <4>1
      <4> QED BY <4>2, <4>3
    <3>4. y = x /\ r.at + 1 = next
      BY <1>1, <2>2, <3>1
    <3>5. [r EXCEPT !.c = text[r.at], !.at = @ + 1] = [r EXCEPT !.c = y, !.at = next]
      BY <3>1, <3>4
    <3> QED BY <3>1, <3>3, <3>4, <3>5
  <2> QED BY <2>4, <2>5 DEF Behind
<1>3. ASSUME o = Len(text)
      PROVE  ReadUnescaped(r) = [r EXCEPT !.good = FALSE]
  <2> HIDE DEF r
  <2>1. r.at > Len(text)
    BY <1>1, <1>3
  <2> QED BY <2>1 DEF ReadUnescaped
<1> QED BY <1>2, <1>3

(* What one call of read_() reads.                                         *)
LEMMA ReadPlain ==
  ASSUME NEW o \in Nat, NEW c, Len(text) \in Nat, NEW x, x # Escape, Holds(text, o, <<x>>)
  PROVE  Read(Behind(o, c)) = Behind(o + 1, x)
<1>1. PICK u : u = ReadUnescaped(Behind(o, c))
  OBVIOUS
<1>2. u = Behind(o + 1, x)
  BY <1>1, ReadUnescapedIs
<1>3. u.c = x
  BY <1>2 DEF Behind
<1> QED BY <1>1, <1>2, <1>3 DEF Read

LEMMA ReadEscaped ==
  ASSUME NEW o \in Nat, NEW c, Len(text) \in Nat, NEW x, Holds(text, o, <<Escape, x>>)
  PROVE  Read(Behind(o, c)) = Behind(o + 2, IF x = NewLine THEN Space ELSE x)
<1>1. PICK u : u = ReadUnescaped(Behind(o, c))
  OBVIOUS
<1>2. Holds(text, o, <<Escape>>) /\ Holds(text, o + 1, <<x>>)
  <2>1. Len(<<Escape, x>>) = 2 /\ <<Escape, x>>[1] = Escape /\ <<Escape, x>>[2] = x /\ 1 \in 1..2 /\ 2 \in 1..2
    OBVIOUS
  <2>2. o + 2 <= Len(text) /\ text[o + 1] = Escape /\ text[o + 2] = x
    BY <2>1 DEF Holds
  <2>3. o + 1 \in Nat /\ o + 1 <= Len(text) /\ (o + 1) + 1 <= Len(text) /\ (o + 1) + 1 = o + 2
    BY <2>2
  <2>4. \A y : Len(<<y>>) = 1 /\ \A n \in 1..1 : n = 1 /\ <<y>>[n] = y
    OBVIOUS
  <2> QED BY <2>2, <2>3, <2>4 DEF Holds
<1>3. u = Behind(o + 1, Escape)
  BY <1>1, <1>2, ReadUnescapedIs
<1>4. u.good /\ u.c = Escape
  BY <1>3 DEF Behind
<1>5. PICK v : v = ReadUnescaped(u)
  OBVIOUS
<1>6. v = Behind(o + 2, x)
  <2>1. o + 1 \in Nat /\ (o + 1) + 1 = o + 2
    OBVIOUS
  <2> QED BY <1>2, <1>3, <1>5, <2>1, ReadUnescapedIs
<1>7. v.good /\ v.c = x /\ [v EXCEPT !.c = Space] = Behind(o + 2, Space)
  <2>1. v = [at |-> o + 2 + 1, c |-> x, good |-> TRUE, ok |-> TRUE]
    BY <1>6 DEF Behind
  <2>2. [v EXCEPT !.c = Space] = [at |-> o + 2 + 1, c |-> Space, good |-> TRUE, ok |-> TRUE]
    <3>1. PICK at, g : at = o + 2 + 1 /\ g = TRUE
      OBVIOUS
    <3>2. v = [at |-> at, c |-> x, good |-> g, ok |-> g]
      BY <2>1, <3>1
    <3>3. [v EXCEPT !.c = Space] = [at |-> at, c |-> Space, good |-> g, ok |-> g]
      BY <3>2
    <3> QED BY <3>1, <3>3
  <2> QED BY <2>1, <2>2 DEF Behind
<1>8. Read(Behind(o, c)) = IF v.c = NewLine THEN [v EXCEPT !.c = Space] ELSE v
  BY <1>1, <1>4, <1>5, <1>7 DEF Read
<1> QED BY <1>6, <1>7, <1>8

LEMMA ReadEnd ==
  ASSUME NEW o \in Nat, NEW c, o = Len(text)
  PROVE  ~Read(Behind(o, c)).good /\ Read(Behind(o, c)).ok
<1>1. PICK r, u : r = Behind(o, c) /\ u = ReadUnescaped(r)
  OBVIOUS
<1>2. u = [r EXCEPT !.good = FALSE]
  BY <1>1, ReadUnescapedIs
<1>3. r = [at |-> o + 1, c |-> c, good |-> TRUE, ok |-> TRUE]
  BY <1>1 DEF Behind
<1>4. u.good = FALSE /\ u.ok = TRUE
  BY <1>2, <1>3
<1>5. Read(r) = u
  BY <1>1, <1>4 DEF Read
<1> QED BY <1>1, <1>4, <1>5

(* A character of a name, read as the loop over a string does.             *)
InName(r) == IF r.c = Escape THEN Read(r) ELSE r

LEMMA ReadNameChar ==
  ASSUME NEW o \in Nat, NEW c, Len(text) \in Nat, NEW x, Holds(text, o, EscapedChar(x)),
         NEW r, r = Read(Behind(o, c))
  PROVE  /\ r.good /\ r.ok /\ r.c \notin Syntax
         /\ InName(r) = Behind(o + Len(EscapedChar(x)), x)
<1>0. \A p, y : Behind(p, y).good /\ Behind(p, y).ok /\ Behind(p, y).c = y
  BY DEF Behind
<1>1. CASE x \in Syntax
  <2>1. EscapedChar(x) = <<Escape, Escape, x>>
    BY <1>1, SyntaxIs DEF EscapedChar
  <2>2. Len(<<Escape, Escape, x>>) = 3
    OBVIOUS
  <2>3. Holds(text, o, <<Escape, Escape>>) /\ Holds(text, o + 2, <<x>>)
    <3>1. /\ <<Escape, Escape, x>>[1] = Escape /\ <<Escape, Escape, x>>[2] = Escape
          /\ <<Escape, Escape, x>>[3] = x /\ 1 \in 1..3 /\ 2 \in 1..3 /\ 3 \in 1..3
      OBVIOUS
    <3>2. o + 3 <= Len(text) /\ text[o + 1] = Escape /\ text[o + 2] = Escape /\ text[o + 3] = x
      BY <2>1, <2>2, <3>1 DEF Holds
    <3>3. o + 2 \in Nat /\ o + 2 <= Len(text) /\ (o + 2) + 1 <= Len(text) /\ (o + 2) + 1 = o + 3
      BY <3>2
    <3>4. Len(<<x>>) = 1 /\ \A n \in 1..1 : n = 1 /\ <<x>>[n] = x
      OBVIOUS
    <3>5. Len(<<Escape, Escape>>) = 2 /\ \A n \in 1..2 : (n = 1 \/ n = 2) /\ <<Escape, Escape>>[n] = Escape
      OBVIOUS
    <3> QED BY <3>2, <3>3, <3>4, <3>5 DEF Holds
  <2>4. r = Behind(o + 2, Escape)
    BY <2>3, ReadEscaped, SyntaxIs
  <2>5. x # Escape
    BY <1>1, SyntaxIs
  <2>6. Read(r) = Behind(o + 3, x)
    <3>1. o + 2 \in Nat /\ (o + 2) + 1 = o + 3
      OBVIOUS
    <3> QED BY <2>3, <2>4, <2>5, <3>1, ReadPlain
  <2> QED BY <1>0, <2>1, <2>2, <2>4, <2>6, SyntaxIs DEF InName
<1>2. CASE x = Escape
  <2>1. EscapedChar(x) = <<Escape, Escape, Escape, Escape>>
    BY <1>2, SyntaxIs DEF EscapedChar
  <2>2. Len(<<Escape, Escape, Escape, Escape>>) = 4
    OBVIOUS
  <2>3. Holds(text, o, <<Escape, Escape>>) /\ Holds(text, o + 2, <<Escape, Escape>>)
    <3>1. \A n \in 1..4 : <<Escape, Escape, Escape, Escape>>[n] = Escape
      OBVIOUS
    <3>2. o + 4 <= Len(text) /\ \A n \in 1..4 : text[o + n] = Escape
      BY <2>1, <2>2, <3>1 DEF Holds
    <3>3. /\ o + 2 \in Nat /\ o + 2 <= Len(text) /\ (o + 2) + 2 <= Len(text)
          /\ \A n \in 1..2 : n \in 1..4 /\ n + 2 \in 1..4 /\ (o + 2) + n = o + (n + 2)
      BY <3>2
    <3>4. Len(<<Escape, Escape>>) = 2 /\ \A n \in 1..2 : <<Escape, Escape>>[n] = Escape
      OBVIOUS
    <3>5. \A n \in 1..2 : text[o + n] = Escape /\ text[(o + 2) + n] = Escape
      BY <3>2, <3>3
    <3> QED BY <3>3, <3>4, <3>5 DEF Holds
  <2>4. r = Behind(o + 2, Escape)
    BY <2>3, ReadEscaped, SyntaxIs
  <2>5. Read(r) = Behind(o + 4, Escape)
    <3>1. o + 2 \in Nat /\ (o + 2) + 2 = o + 4
      OBVIOUS
    <3> QED BY <2>3, <2>4, <3>1, ReadEscaped, SyntaxIs
  <2> QED BY <1>0, <1>2, <2>1, <2>2, <2>4, <2>5, SyntaxIs DEF InName
<1>3. CASE x \notin Syntax /\ x # Escape
  <2>1. EscapedChar(x) = <<x>> /\ Len(<<x>>) = 1
    BY <1>3 DEF EscapedChar
  <2>2. r = Behind(o + 1, x)
    BY <1>3, <2>1, ReadPlain
  <2> QED BY <1>0, <1>3, <2>1, <2>2 DEF InName
<1> QED BY <1>1, <1>2, <1>3
(* What a sequence has at a place, a sequence that holds it has there.     *)
LEMMA HoldsAt ==
  ASSUME NEW s, NEW t, NEW i, NEW n \in Nat, Len(s) \in Nat, Len(t) \in Nat, Holds(s, i, t)
  PROVE  /\ n + 1 <= Len(t) => Holds(s, i + n, <<t[n + 1]>>)
         /\ n + 2 <= Len(t) => Holds(s, i + n, <<t[n + 1], t[n + 2]>>)
<1>0. i \in Nat /\ i + Len(t) <= Len(s) /\ \A m \in 1..Len(t) : s[i + m] = t[m]
  BY DEF Holds
<1>1. i + n \in Nat /\ i + (n + 1) = (i + n) + 1 /\ i + (n + 2) = (i + n) + 2
  BY <1>0
<1>2. ASSUME n + 1 <= Len(t)
      PROVE  Holds(s, i + n, <<t[n + 1]>>)
  <2>1. n + 1 \in 1..Len(t) /\ (i + n) + 1 <= Len(s)
    BY <1>0, <1>2
  <2>2. s[(i + n) + 1] = t[n + 1]
    BY <1>0, <1>1, <2>1
  <2>3. Len(<<t[n + 1]>>) = 1 /\ \A m \in 1..1 : m = 1 /\ <<t[n + 1]>>[m] = t[n + 1]
    OBVIOUS
  <2> QED BY <1>1, <2>1, <2>2, <2>3 DEF Holds
<1>3. ASSUME n + 2 <= Len(t)
      PROVE  Holds(s, i + n, <<t[n + 1], t[n + 2]>>)
  <2>1. n + 1 \in 1..Len(t) /\ n + 2 \in 1..Len(t) /\ (i + n) + 2 <= Len(s)
    BY <1>0, <1>3
  <2>2. s[(i + n) + 1] = t[n + 1] /\ s[(i + n) + 2] = t[n + 2]
    BY <1>0, <1>1, <2>1
  <2>3. PICK x, y : x = t[n + 1] /\ y = t[n + 2]
    OBVIOUS
  <2>4. /\ Len(<<x, y>>) = 2
        /\ \A m \in 1..2 : \/ m = 1 /\ <<x, y>>[m] = x
                           \/ m = 2 /\ <<x, y>>[m] = y
    OBVIOUS
  <2>5. Holds(s, i + n, <<x, y>>)
    BY <1>1, <2>1, <2>2, <2>3, <2>4 DEF Holds
  <2> QED BY <2>3, <2>5
<1> QED BY <1>2, <1>3

(* Where the tokenizer can go on.                                          *)
Legible(o) == \/ \E x : x # Escape /\ Holds(text, o, <<x>>)
              \/ \E x : Holds(text, o, <<Escape, x>>)
              \/ o = Len(text)

LEMMA LegibleIsOk ==
  ASSUME NEW o \in Nat, Len(text) \in Nat, Legible(o), NEW c
  PROVE  Read(Behind(o, c)).ok
<1>0. \A p, y : Behind(p, y).ok
  BY DEF Behind
<1>1. CASE \E x : x # Escape /\ Holds(text, o, <<x>>)
  BY <1>0, <1>1, ReadPlain
<1>2. CASE \E x : Holds(text, o, <<Escape, x>>)
  BY <1>0, <1>2, ReadEscaped
<1>3. CASE o = Len(text)
  BY <1>3, ReadEnd
<1> QED BY <1>1, <1>2, <1>3 DEF Legible

(* The characters of a depfile.                                            *)
DepCharacters == STRING \cup Syntax \cup {Escape}

LEMMA TupleFacts ==
  ASSUME NEW T, NEW x \in T, NEW y \in T
  PROVE  /\ <<x>> \in Seq(T) /\ Len(<<x>>) = 1
         /\ <<x, x, y>> \in Seq(T) /\ Len(<<x, x, y>>) = 3
         /\ <<x, x, x, x>> \in Seq(T) /\ Len(<<x, x, x, x>>) = 4
OBVIOUS

LEMMA EscapedCharIs ==
  ASSUME NEW x \in DepCharacters
  PROVE  /\ EscapedChar(x) \in Seq(DepCharacters) /\ Len(EscapedChar(x)) \in Nat \ {0}
         /\ \A o \in Nat : Len(text) \in Nat /\ Holds(text, o, EscapedChar(x)) => Legible(o)
<1>0. Escape \in DepCharacters
  BY DEF DepCharacters
<1>1. CASE x \in Syntax
  <2>1. EscapedChar(x) = <<Escape, Escape, x>>
    BY <1>1, SyntaxIs DEF EscapedChar
  <2>2. <<Escape, Escape, x>> \in Seq(DepCharacters) /\ Len(<<Escape, Escape, x>>) = 3
    BY <1>0, TupleFacts, Zenon
  <2>3. <<Escape, Escape, x>>[1] = Escape /\ <<Escape, Escape, x>>[2] = Escape
    OBVIOUS
  <2>4. PICK t : t = <<Escape, Escape, x>>
    OBVIOUS
  <2>5. Len(t) = 3 /\ t[0 + 1] = Escape /\ t[0 + 2] = Escape /\ 0 \in Nat /\ 0 + 2 <= 3 /\ 3 \in Nat
    BY <2>2, <2>3, <2>4
  <2>6. ASSUME NEW o \in Nat, Len(text) \in Nat, Holds(text, o, t)
        PROVE  Legible(o)
    <3>1. Holds(text, o + 0, <<t[0 + 1], t[0 + 2]>>)
      BY <2>5, <2>6, HoldsAt
    <3>2. o + 0 = o
      OBVIOUS
    <3>3. Holds(text, o, <<Escape, Escape>>)
      BY <2>5, <3>1, <3>2
    <3> QED BY <3>3 DEF Legible
  <2> QED BY <2>1, <2>2, <2>4, <2>6
<1>2. CASE x = Escape
  <2>1. EscapedChar(x) = <<Escape, Escape, Escape, Escape>>
    BY <1>2, SyntaxIs DEF EscapedChar
  <2>2. <<Escape, Escape, Escape, Escape>> \in Seq(DepCharacters) /\ Len(<<Escape, Escape, Escape, Escape>>) = 4
    BY <1>0, TupleFacts, Zenon
  <2>3. <<Escape, Escape, Escape, Escape>>[1] = Escape /\ <<Escape, Escape, Escape, Escape>>[2] = Escape
    OBVIOUS
  <2>4. PICK t : t = <<Escape, Escape, Escape, Escape>>
    OBVIOUS
  <2>5. Len(t) = 4 /\ t[0 + 1] = Escape /\ t[0 + 2] = Escape /\ 0 \in Nat /\ 0 + 2 <= 4 /\ 4 \in Nat
    BY <2>2, <2>3, <2>4
  <2>6. ASSUME NEW o \in Nat, Len(text) \in Nat, Holds(text, o, t)
        PROVE  Legible(o)
    <3>1. Holds(text, o + 0, <<t[0 + 1], t[0 + 2]>>)
      BY <2>5, <2>6, HoldsAt
    <3>2. o + 0 = o
      OBVIOUS
    <3>3. Holds(text, o, <<Escape, Escape>>)
      BY <2>5, <3>1, <3>2
    <3> QED BY <3>3 DEF Legible
  <2> QED BY <2>1, <2>2, <2>4, <2>6
<1>3. CASE x \notin Syntax /\ x # Escape
  <2>1. EscapedChar(x) = <<x>>
    BY <1>3 DEF EscapedChar
  <2>2. <<x>> \in Seq(DepCharacters) /\ Len(<<x>>) = 1
    BY TupleFacts, Zenon
  <2>3. \A o \in Nat : Holds(text, o, EscapedChar(x)) => Legible(o)
    BY <1>3, <2>1 DEF Legible
  <2> QED BY <2>1, <2>2, <2>3
<1> QED BY <1>1, <1>2, <1>3

(* A name as it is written: its characters, one after the other.           *)
CharsOf(n) == [k \in DOMAIN n |-> EscapedChar(n[k])]
CharAt(n, i) == Place(CharsOf(n), i)

LEMMA NameLayout ==
  ASSUME NEW n \in Seq(DepCharacters)
  PROVE  /\ EscapedName(n) \in Seq(DepCharacters)
         /\ CharAt(n, 0) = 0 /\ CharAt(n, Len(n)) = Len(EscapedName(n))
         /\ \A i \in 0..Len(n) : CharAt(n, i) \in Nat
         /\ \A i \in 0..(Len(n) - 1) : /\ CharAt(n, i + 1) = CharAt(n, i) + Len(EscapedChar(n[i + 1]))
                                       /\ Holds(EscapedName(n), CharAt(n, i), EscapedChar(n[i + 1]))
<1>0. Len(n) \in Nat /\ DOMAIN n = 1..Len(n) /\ \A k \in 1..Len(n) : n[k] \in DepCharacters
  BY SeqFacts
<1>1. PICK ss : ss = CharsOf(n)
  OBVIOUS
<1>2. \A k \in 1..Len(n) : EscapedChar(n[k]) \in Seq(DepCharacters)
  BY <1>0, EscapedCharIs
<1>3. ss = [k \in 1..Len(n) |-> EscapedChar(n[k])]
  BY <1>0, <1>1 DEF CharsOf
<1>4. ss \in Seq(Seq(DepCharacters)) /\ Len(ss) = Len(n) /\ \A k \in 1..Len(n) : ss[k] = EscapedChar(n[k])
  BY <1>0, <1>2, <1>3
<1>5. EscapedName(n) = FlattenSeq(ss)
  BY <1>1 DEF EscapedName, CharsOf
<1>6. \A i : CharAt(n, i) = Place(ss, i)
  BY <1>1 DEF CharAt
<1>7. /\ FlattenSeq(ss) \in Seq(DepCharacters)
      /\ Place(ss, 0) = 0 /\ Place(ss, Len(ss)) = Len(FlattenSeq(ss))
      /\ \A k \in 0..Len(ss) : Place(ss, k) \in Nat
      /\ \A k \in 0..(Len(ss) - 1) : /\ Place(ss, k + 1) = Place(ss, k) + Len(ss[k + 1])
                                    /\ Holds(FlattenSeq(ss), Place(ss, k), ss[k + 1])
  BY <1>4, Pieces
<1>8. \A i \in 0..(Len(n) - 1) : i + 1 \in 1..Len(n)
  BY <1>0
<1> QED BY <1>4, <1>5, <1>6, <1>7, <1>8

LEMMA WiderSeq ==
  ASSUME NEW S, NEW T, S \subseteq T
  PROVE  \A s \in Seq(S) : s \in Seq(T)
OBVIOUS

LEMMA SpellingIsWider == \A s \in Seq(STRING) : s \in Seq(DepCharacters)
<1>1. STRING \subseteq DepCharacters
  BY DEF DepCharacters
<1> QED BY <1>1, WiderSeq

LEMMA RuleFacts ==
  ASSUME NEW rule \in Rules
  PROVE  /\ rule = [target |-> rule.target, deps |-> rule.deps]
         /\ rule.target \in Seq(DepCharacters) /\ Len(rule.target) \in Nat \ {0}
         /\ Len(rule.deps) \in Nat /\ DOMAIN rule.deps = 1..Len(rule.deps)
         /\ SubSeq(rule.deps, 1, 0) = <<>> /\ SubSeq(rule.deps, 1, Len(rule.deps)) = rule.deps
         /\ \A k \in 0..(Len(rule.deps) - 1) :
              /\ k + 1 \in 1..Len(rule.deps)
              /\ rule.deps[k + 1] \in Seq(DepCharacters) /\ Len(rule.deps[k + 1]) \in Nat \ {0}
              /\ Append(SubSeq(rule.deps, 1, k), rule.deps[k + 1]) = SubSeq(rule.deps, 1, k + 1)
<1>1. PICK NameOfFile : NameOfFile = Seq(STRING) \ {<<>>}
  OBVIOUS
<1>2. rule \in [target : NameOfFile, deps : Seq(NameOfFile)]
  BY <1>1, NamesAssumption
<1>3. /\ rule = [target |-> rule.target, deps |-> rule.deps]
      /\ rule.target \in NameOfFile /\ rule.deps \in Seq(NameOfFile)
  BY <1>2
<1>4. ASSUME NEW n \in NameOfFile
      PROVE  n \in Seq(DepCharacters) /\ Len(n) \in Nat \ {0}
  <2>1. n \in Seq(DepCharacters) /\ n # <<>>
    BY <1>1, SpellingIsWider
  <2> QED BY <2>1
<1>5. PICK ds : ds = rule.deps
  OBVIOUS
<1>6. /\ Len(ds) \in Nat /\ DOMAIN ds = 1..Len(ds)
      /\ SubSeq(ds, 1, 0) = <<>> /\ SubSeq(ds, 1, Len(ds)) = ds
      /\ \A k \in 0..(Len(ds) - 1) : /\ k + 1 \in 1..Len(ds) /\ ds[k + 1] \in NameOfFile
                                    /\ Append(SubSeq(ds, 1, k), ds[k + 1]) = SubSeq(ds, 1, k + 1)
  <2>1. ds \in Seq(NameOfFile)
    BY <1>3, <1>5
  <2>2. /\ Len(ds) \in Nat /\ DOMAIN ds = 1..Len(ds)
        /\ SubSeq(ds, 1, 0) = <<>> /\ SubSeq(ds, 1, Len(ds)) = ds
    BY <2>1
  <2>3. ASSUME NEW k \in 0..(Len(ds) - 1)
        PROVE  /\ k + 1 \in 1..Len(ds) /\ ds[k + 1] \in NameOfFile
               /\ Append(SubSeq(ds, 1, k), ds[k + 1]) = SubSeq(ds, 1, k + 1)
    BY <2>1
  <2> QED BY <2>2, <2>3
<1> QED BY <1>3, <1>4, <1>5, <1>6

LEMMA SeparatorFacts ==
  ASSUME NEW sep \in Separators
  PROVE  /\ sep \in Seq(DepCharacters) /\ Len(sep) \in Nat \ {0}
         /\ \A i \in 1..Len(sep) : \/ sep[i] = Space
                                   \/ sep[i] = Escape /\ i < Len(sep) /\ sep[i + 1] = NewLine
                                   \/ sep[i] = NewLine /\ i > 1 /\ sep[i - 1] = Escape
<1>1. sep \in Seq(STRING) /\ sep # <<>>
  BY SeparatorsAssumption
<1>2. sep \in Seq(DepCharacters) /\ DOMAIN sep = 1..Len(sep) /\ Len(sep) \in Nat \ {0}
  BY <1>1, SpellingIsWider
<1> QED BY <1>2, SeparatorsAssumption

(* A rule as it is written: where its colon and its dependencies are.      *)
ChunksOf(rule, sep) == [k \in DOMAIN rule.deps |-> sep \o EscapedName(rule.deps[k])]
ColonAt(rule)       == Len(EscapedName(rule.target))
DepAt(rule, sep, k) == ColonAt(rule) + 1 + Place(ChunksOf(rule, sep), k)

LEMMA ChunksLayout ==
  ASSUME NEW rule \in Rules, NEW sep \in Separators, NEW ss, ss = ChunksOf(rule, sep)
  PROVE  /\ ss \in Seq(Seq(DepCharacters)) /\ Len(ss) = Len(rule.deps)
         /\ \A k \in 0..(Len(rule.deps) - 1) : ss[k + 1] = sep \o EscapedName(rule.deps[k + 1])
<1>1. PICK m : m = Len(rule.deps)
  OBVIOUS
<1>2. ss = [k \in 1..m |-> sep \o EscapedName(rule.deps[k])] /\ m \in Nat
  BY <1>1, RuleFacts DEF ChunksOf
<1>3. ASSUME NEW k \in 1..m
      PROVE  sep \o EscapedName(rule.deps[k]) \in Seq(DepCharacters)
  <2>1. k - 1 \in 0..(m - 1) /\ (k - 1) + 1 = k
    BY <1>2
  <2>2. rule.deps[k] \in Seq(DepCharacters)
    BY <1>1, <2>1, RuleFacts
  <2>3. EscapedName(rule.deps[k]) \in Seq(DepCharacters)
    BY <2>2, NameLayout
  <2>4. sep \in Seq(DepCharacters)
    BY SeparatorFacts
  <2> QED BY <2>3, <2>4, ConcatFacts
<1>4. ss \in Seq(Seq(DepCharacters)) /\ Len(ss) = m
  BY <1>2, <1>3
<1>5. \A k \in 0..(m - 1) : k + 1 \in 1..m
  BY <1>2
<1> QED BY <1>1, <1>2, <1>4, <1>5

LEMMA Layout ==
  ASSUME NEW rule \in Rules, NEW sep \in Separators, text = Written(rule, sep)
  PROVE  /\ text \in Seq(DepCharacters) /\ Len(text) \in Nat /\ ColonAt(rule) \in Nat
         /\ Holds(text, 0, EscapedName(rule.target)) /\ Holds(text, ColonAt(rule), <<Colon>>)
         /\ DepAt(rule, sep, 0) = ColonAt(rule) + 1
         /\ \A k \in 0..Len(rule.deps) : DepAt(rule, sep, k) \in Nat
         /\ \A k \in 0..(Len(rule.deps) - 1) :
              /\ Holds(text, DepAt(rule, sep, k), sep)
              /\ Holds(text, DepAt(rule, sep, k) + Len(sep), EscapedName(rule.deps[k + 1]))
              /\ DepAt(rule, sep, k + 1) = DepAt(rule, sep, k) + Len(sep) + Len(EscapedName(rule.deps[k + 1]))
         /\ Holds(text, DepAt(rule, sep, Len(rule.deps)), <<NewLine>>)
         /\ Len(text) = DepAt(rule, sep, Len(rule.deps)) + 1
<1>1. PICK ss, t, m : ss = ChunksOf(rule, sep) /\ t = EscapedName(rule.target) /\ m = Len(rule.deps)
  OBVIOUS
<1>2. /\ ss \in Seq(Seq(DepCharacters)) /\ Len(ss) = m /\ m \in Nat
      /\ \A k \in 0..(m - 1) : ss[k + 1] = sep \o EscapedName(rule.deps[k + 1])
  <2>1. ss \in Seq(Seq(DepCharacters)) /\ Len(ss) = Len(rule.deps)
    BY <1>1, ChunksLayout
  <2>2. \A k \in 0..(Len(rule.deps) - 1) : ss[k + 1] = sep \o EscapedName(rule.deps[k + 1])
    BY <1>1, ChunksLayout
  <2>3. Len(rule.deps) \in Nat
    BY RuleFacts
  <2> QED BY <1>1, <2>1, <2>2, <2>3
<1>3. t \in Seq(DepCharacters) /\ sep \in Seq(DepCharacters)
  <2>1. rule.target \in Seq(DepCharacters)
    BY RuleFacts
  <2> QED BY <1>1, <2>1, NameLayout, SeparatorFacts
<1>4. Colon \in DepCharacters /\ NewLine \in DepCharacters
  BY SyntaxIs DEF DepCharacters
<1>5. PICK f, co, nl : f = FlattenSeq(ss) /\ co = <<Colon>> /\ nl = <<NewLine>>
  OBVIOUS
<1>6. co \in Seq(DepCharacters) /\ nl \in Seq(DepCharacters) /\ Len(co) = 1 /\ Len(nl) = 1
  BY <1>4, <1>5, TupleFacts, Zenon
<1>7. /\ f \in Seq(DepCharacters) /\ Place(ss, 0) = 0 /\ Place(ss, m) = Len(f)
      /\ \A k \in 0..m : Place(ss, k) \in Nat
      /\ \A k \in 0..(m - 1) : /\ Place(ss, k + 1) = Place(ss, k) + Len(ss[k + 1])
                              /\ Holds(f, Place(ss, k), ss[k + 1])
  BY <1>2, <1>5, Pieces
<1>8. text = t \o co \o f \o nl
  BY <1>1, <1>5 DEF Written, ChunksOf
<1>9. PICK a, b : a = t \o co /\ b = (t \o co) \o f
  OBVIOUS
<1>10. /\ a \in Seq(DepCharacters) /\ Len(a) = Len(t) + 1 /\ Len(t) \in Nat
       /\ Holds(a, 0, t) /\ Holds(a, Len(t), co)
  BY <1>3, <1>6, <1>9, HoldsConcat, SeqFacts
<1>11. /\ b \in Seq(DepCharacters) /\ Len(b) = Len(a) + Len(f) /\ Len(f) \in Nat
       /\ Holds(b, 0, a) /\ Holds(b, Len(a), f)
  BY <1>7, <1>9, <1>10, HoldsConcat, SeqFacts
<1>12. /\ text \in Seq(DepCharacters) /\ Len(text) = Len(b) + 1 /\ Len(b) \in Nat
       /\ Holds(text, 0, b) /\ Holds(text, Len(b), nl)
  <2>1. text = b \o nl
    BY <1>8, <1>9
  <2>2. Len(b) \in Nat
    BY <1>11, SeqFacts
  <2>3. /\ b \o nl \in Seq(DepCharacters) /\ Len(b \o nl) = Len(b) + Len(nl)
        /\ Holds(b \o nl, 0, b) /\ Holds(b \o nl, Len(b), nl)
    BY <1>6, <1>11, HoldsConcat
  <2> QED BY <1>6, <2>1, <2>2, <2>3
<1>13. Holds(text, 0, a) /\ Holds(text, Len(a), f)
  <2>1. 0 \in Nat /\ 0 + 0 = 0 /\ Len(a) \in Nat /\ 0 + Len(a) = Len(a)
    BY <1>10
  <2>2. Holds(text, 0 + 0, a) /\ Holds(text, 0 + Len(a), f)
    BY <1>7, <1>10, <1>11, <1>12, <2>1, HoldsPart
  <2> QED BY <2>1, <2>2
<1>14. Holds(text, 0, t) /\ Holds(text, Len(t), co)
  <2>1. 0 \in Nat /\ 0 + 0 = 0 /\ 0 + Len(t) = Len(t)
    BY <1>10
  <2>2. Holds(text, 0 + 0, t) /\ Holds(text, 0 + Len(t), co)
    BY <1>3, <1>6, <1>10, <1>12, <1>13, <2>1, HoldsPart
  <2> QED BY <2>1, <2>2
<1>15. \A k : DepAt(rule, sep, k) = Len(a) + Place(ss, k)
  <2>1. ColonAt(rule) = Len(t)
    BY <1>1 DEF ColonAt
  <2> QED BY <1>1, <1>10, <2>1 DEF DepAt
<1>16. ASSUME NEW k \in 0..(m - 1)
       PROVE  /\ Holds(text, Len(a) + Place(ss, k), sep)
              /\ Holds(text, Len(a) + Place(ss, k) + Len(sep), EscapedName(rule.deps[k + 1]))
              /\ Len(a) + Place(ss, k + 1) = Len(a) + Place(ss, k) + Len(sep) + Len(EscapedName(rule.deps[k + 1]))
  <2>1. PICK d, p : d = EscapedName(rule.deps[k + 1]) /\ p = Place(ss, k)
    OBVIOUS
  <2>2. d \in Seq(DepCharacters)
    <3>1. rule.deps[k + 1] \in Seq(DepCharacters)
      BY <1>1, RuleFacts
    <3> QED BY <2>1, <3>1, NameLayout
  <2>3. p \in Nat /\ k \in 0..m /\ Len(a) \in Nat /\ Len(sep) \in Nat /\ Len(d) \in Nat
    <3>1. m \in Nat
      BY <1>2
    <3>2. k \in 0..m
      BY <3>1
    <3>3. p \in Nat
      BY <1>7, <2>1, <3>2
    <3>4. Len(a) \in Nat
      BY <1>10
    <3>5. Len(sep) \in Nat /\ Len(d) \in Nat
      BY <1>3, <2>2, SeqFacts
    <3> QED BY <3>2, <3>3, <3>4, <3>5
  <2>4. ss[k + 1] = sep \o d
    BY <1>2, <2>1
  <2>5. /\ sep \o d \in Seq(DepCharacters) /\ Len(sep \o d) = Len(sep) + Len(d)
        /\ Holds(sep \o d, 0, sep) /\ Holds(sep \o d, Len(sep), d)
    BY <1>3, <2>2, HoldsConcat
  <2>6. Place(ss, k + 1) = p + Len(sep \o d) /\ Holds(f, p, sep \o d)
    BY <1>7, <2>1, <2>4
  <2>7. Holds(text, Len(a) + p, sep \o d)
    BY <1>7, <1>12, <1>13, <2>3, <2>5, <2>6, HoldsPart
  <2>8. Len(a) + p \in Nat /\ 0 \in Nat /\ Len(a) + p + 0 = Len(a) + p
    BY <2>3
  <2>9. Holds(text, Len(a) + p + 0, sep) /\ Holds(text, Len(a) + p + Len(sep), d)
    BY <1>3, <1>12, <2>2, <2>3, <2>5, <2>7, <2>8, HoldsPart
  <2>10. Len(a) + (p + (Len(sep) + Len(d))) = Len(a) + p + Len(sep) + Len(d)
    BY <2>3
  <2> QED BY <2>1, <2>5, <2>6, <2>8, <2>9, <2>10
<1>17. Len(a) + Place(ss, m) = Len(b) /\ Len(a) + Place(ss, 0) = Len(t) + 1
  BY <1>7, <1>10, <1>11
<1>18. \A k \in 0..m : Len(a) + Place(ss, k) \in Nat
  BY <1>7, <1>10
<1>19. ColonAt(rule) = Len(t)
  BY <1>1 DEF ColonAt
<1> QED BY <1>1, <1>5, <1>10, <1>12, <1>14, <1>15, <1>16, <1>17, <1>18, <1>19

-----------------------------------------------------------------------------
(* What the reader does next, by what it has read.                         *)
LEMMA ReadUnchanged ==
  ASSUME text' = text, NEW r
  PROVE  Read(r)' = Read(r)
BY DEF Read, ReadUnescaped

LEMMA NextKeepsText == DepfileNext => text' = text
BY DEF DepfileNext, SkipSpace, End, TakeColon, TakeNewLine, StringChar, TakeString

LEMMA NameStep ==
  ASSUME NEW o \in Nat, NEW c, Len(text) \in Nat, NEW x, Holds(text, o, EscapedChar(x)),
         in = Read(Behind(o, c)), outcome = "reading",
         NEW p \in Nat, p = o + Len(EscapedChar(x)), Legible(p), DepfileNext
  PROVE  in' = Read(Behind(p, x)) /\ name' = Append(name, x) /\ UNCHANGED <<state, data, outcome>>
<1>1. in.good /\ in.c \notin Syntax /\ InName(in) = Behind(p, x)
  BY ReadNameChar
<1>2. StringChar
  BY <1>1 DEF DepfileNext, SkipSpace, End, TakeColon, TakeNewLine, TakeString, InString, Syntax
<1>3. PICK q : q = IF in.c = Escape THEN Read(in) ELSE in
  OBVIOUS
<1>4. q = Behind(p, x)
  BY <1>1, <1>3 DEF InName
<1>5. q.ok /\ q.c = x
  BY <1>4 DEF Behind
<1>6. Read(q).ok
  BY <1>4, LegibleIsOk
<1>7. Reads(IF q.ok THEN Read(q) ELSE q, UNCHANGED <<state, data, outcome>>) /\ name' = Append(name, q.c)
  BY <1>2, <1>3 DEF StringChar
<1>8. in' = Read(q) /\ UNCHANGED <<state, data, outcome>>
  BY <1>5, <1>6, <1>7 DEF Reads
<1> QED BY <1>4, <1>5, <1>7, <1>8

LEMMA SpaceStep ==
  ASSUME in.good, in.c = Space, Read(in).ok, outcome = "reading", name = <<>>, DepfileNext
  PROVE  in' = Read(in) /\ UNCHANGED <<name, state, data, outcome>>
<1>1. in.c \in Syntax /\ in.c # Colon /\ in.c # NewLine
  BY SyntaxIs
<1>2. SkipSpace
  BY <1>1 DEF DepfileNext, StringChar, End, TakeColon, TakeNewLine, TakeString, InString
<1> QED BY <1>2 DEF SkipSpace, Reads

LEMMA ColonStep ==
  ASSUME in.good, in.c = Colon, Read(in).ok, outcome = "reading", name = <<>>, state = "read_colon", DepfileNext
  PROVE  in' = Read(in) /\ state' = "read_dep" /\ UNCHANGED <<name, data, outcome>>
<1>1. in.c \in Syntax /\ in.c # Space /\ in.c # NewLine
  BY SyntaxIs
<1>2. TakeColon
  BY <1>1 DEF DepfileNext, StringChar, End, SkipSpace, TakeNewLine, TakeString, InString
<1> QED BY <1>2 DEF TakeColon, Reads

LEMMA NewLineStep ==
  ASSUME in.good, in.c = NewLine, Read(in).ok, outcome = "reading", name = <<>>, state = "read_dep", DepfileNext
  PROVE  in' = Read(in) /\ state' = "done" /\ UNCHANGED <<name, data, outcome>>
<1>1. in.c \in Syntax /\ in.c # Space /\ in.c # Colon
  BY SyntaxIs
<1>2. TakeNewLine
  BY <1>1 DEF DepfileNext, StringChar, End, SkipSpace, TakeColon, TakeString, InString
<1>3. /\ Reads(Read(in),
               CASE state = "read_target" -> UNCHANGED <<state, data, outcome>>
                 [] state = "read_dep"    -> state' = "done" /\ UNCHANGED <<data, outcome>>
                 [] OTHER                 -> Throw("unexpected newline"))
      /\ UNCHANGED name
  BY <1>2 DEF TakeNewLine
<1> QED BY <1>3 DEF Reads

LEMMA TokenStep ==
  ASSUME in.good, in.c \in Syntax, outcome = "reading", name # <<>>, DepfileNext
  PROVE  /\ in' = in /\ name' = <<>>
         /\ state = "read_target" => /\ data' = [target |-> name, deps |-> <<>>]
                                     /\ state' = "read_colon" /\ outcome' = "reading"
         /\ state = "read_dep" => /\ data' = [data EXCEPT !.deps = Append(@, name)]
                                  /\ UNCHANGED <<state, outcome>>
<1>1. TakeString
  BY DEF DepfileNext, StringChar, End, SkipSpace, TakeColon, TakeNewLine, AtToken, InString
<1>2. /\ CASE state = "read_target" -> /\ data' = [target |-> name, deps |-> <<>>]
                                       /\ state' = "read_colon" /\ UNCHANGED outcome
           [] state = "read_dep"    -> /\ data' = [data EXCEPT !.deps = Append(@, name)]
                                       /\ UNCHANGED <<state, outcome>>
           [] OTHER                 -> Throw("unexpected string")
      /\ name' = <<>> /\ UNCHANGED in
  BY <1>1 DEF TakeString
<1>3. state = "read_target" => state # "read_dep"
  OBVIOUS
<1>4. ASSUME state = "read_target"
      PROVE  data' = [target |-> name, deps |-> <<>>] /\ state' = "read_colon" /\ outcome' = "reading"
  BY <1>2, <1>3, <1>4
<1>5. ASSUME state = "read_dep"
      PROVE  data' = [data EXCEPT !.deps = Append(@, name)] /\ UNCHANGED <<state, outcome>>
  BY <1>2, <1>3, <1>5
<1> QED BY <1>2, <1>4, <1>5

LEMMA EndStep ==
  ASSUME ~in.good, outcome = "reading", name = <<>>, state = "done", DepfileNext
  PROVE  outcome' = "read" /\ UNCHANGED data
<1>1. End
  BY DEF DepfileNext, StringChar, TakeString, SkipSpace, TakeColon, TakeNewLine, InString
<1> QED BY <1>1 DEF End

LEMMA NothingStep ==
  ASSUME outcome # "reading"
  PROVE  ~DepfileNext
BY DEF DepfileNext, StringChar, TakeString, SkipSpace, TakeColon, TakeNewLine, End, AtToken

(* The tokenizer has read o characters and one more, or an escape.         *)
InAt(o) == \E c : in = Read(Behind(o, c))

(* Where a name, written from o on, or a rule has been read to.            *)
Spelling(n, i, o) == name = SubSeq(n, 1, i) /\ InAt(o + CharAt(n, i))
Reported(rule, k)    == [target |-> rule.target, deps |-> SubSeq(rule.deps, 1, k)]

ReadingTarget(rule) ==
  /\ state = "read_target" /\ data = NoData /\ outcome = "reading"
  /\ \E i \in 0..Len(rule.target) : Spelling(rule.target, i, 0)

HasTarget(rule) ==
  /\ state = "read_colon" /\ data = Reported(rule, 0) /\ outcome = "reading"
  /\ name = <<>> /\ InAt(ColonAt(rule))

Separating(rule, sep) ==
  /\ state = "read_dep" /\ name = <<>> /\ outcome = "reading"
  /\ \E k \in 0..(Len(rule.deps) - 1), j \in 0..(Len(sep) - 1) :
       /\ data = Reported(rule, k)
       /\ j = 0 \/ sep[j] # Escape
       /\ InAt(DepAt(rule, sep, k) + j)

ReadingDep(rule, sep) ==
  /\ state = "read_dep" /\ outcome = "reading"
  /\ \E k \in 0..(Len(rule.deps) - 1) : \E i \in 0..Len(rule.deps[k + 1]) :
       /\ data = Reported(rule, k)
       /\ Spelling(rule.deps[k + 1], i, DepAt(rule, sep, k) + Len(sep))

HasDeps(rule, sep) ==
  /\ state = "read_dep" /\ name = <<>> /\ outcome = "reading"
  /\ data = Reported(rule, Len(rule.deps)) /\ InAt(DepAt(rule, sep, Len(rule.deps)))

AtTheEnd(rule) == state = "done" /\ name = <<>> /\ outcome = "reading" /\ ~in.good /\ data = rule
HasRead(rule)  == outcome = "read" /\ data = rule

ReadSoFar(rule, sep) ==
  \/ ReadingTarget(rule) \/ HasTarget(rule) \/ Separating(rule, sep) \/ ReadingDep(rule, sep)
  \/ HasDeps(rule, sep) \/ AtTheEnd(rule) \/ HasRead(rule)

(* A text that is a rule is, at every step, one that has been read up to   *)
(* some place of the rule, with what comes before it in data and name.     *)
DepInv == \A rule \in Rules, sep \in Separators : text = Written(rule, sep) => ReadSoFar(rule, sep)

LEMMA InAtNext ==
  ASSUME text' = text, NEW o, NEW c, in' = Read(Behind(o, c))
  PROVE  InAt(o)'
<1>1. Read(Behind(o, c))' = Read(Behind(o, c))
  <2>1. PICK r : r = Behind(o, c)
    OBVIOUS
  <2>2. Read(r)' = Read(r)
    BY ReadUnchanged
  <2>3. Behind(o, c)' = r
    BY <2>1 DEF Behind
  <2> QED BY <2>1, <2>2, <2>3
<1> QED BY <1>1 DEF InAt

LEMMA InAtUnchanged ==
  ASSUME text' = text, in' = in, NEW o, InAt(o)
  PROVE  InAt(o)'
<1>1. PICK c : in = Read(Behind(o, c))
  BY DEF InAt
<1>2. in' = Read(Behind(o, c))
  BY <1>1
<1> QED BY <1>2, InAtNext

(* Where a name ends.                                                      *)
Breaks(o) == \/ \E x \in Syntax : Holds(text, o, <<x>>)
             \/ Holds(text, o, <<Escape, NewLine>>)

LEMMA BreakFacts ==
  ASSUME NEW o \in Nat, Len(text) \in Nat, Breaks(o)
  PROVE  /\ Legible(o)
         /\ InAt(o) => in.good /\ in.c \in Syntax
<1>0. \A p, y : Behind(p, y).good /\ Behind(p, y).c = y
  BY DEF Behind
<1>1. CASE \E x \in Syntax : Holds(text, o, <<x>>)
  <2>1. PICK x \in Syntax : Holds(text, o, <<x>>)
    BY <1>1
  <2>2. x # Escape
    BY SyntaxIs
  <2>3. Legible(o)
    BY <2>1, <2>2 DEF Legible
  <2>4. \A c : Read(Behind(o, c)) = Behind(o + 1, x)
    BY <2>1, <2>2, ReadPlain
  <2> QED BY <1>0, <2>3, <2>4 DEF InAt
<1>2. CASE Holds(text, o, <<Escape, NewLine>>)
  <2>1. Legible(o)
    BY <1>2 DEF Legible
  <2>2. \A c : Read(Behind(o, c)) = Behind(o + 2, Space)
    BY <1>2, ReadEscaped
  <2> QED BY <1>0, <2>1, <2>2, SyntaxIs DEF InAt
<1> QED BY <1>1, <1>2 DEF Breaks

LEMMA SpellingBegins ==
  ASSUME NEW n \in Seq(DepCharacters), Len(n) # 0, NEW o \in Nat, text \in Seq(DepCharacters),
         Holds(text, o, EscapedName(n)), NEW i \in 0..(Len(n) - 1)
  PROVE  /\ o + CharAt(n, i) \in Nat
         /\ Holds(text, o + CharAt(n, i), EscapedChar(n[i + 1]))
         /\ Legible(o + CharAt(n, i))
<1>0. Len(n) \in Nat /\ Len(text) \in Nat
  BY SeqFacts
<1>1. PICK x, p, w : x = n[i + 1] /\ p = CharAt(n, i) /\ w = EscapedName(n)
  OBVIOUS
<1>2. x \in DepCharacters
  <2>1. i + 1 \in 1..Len(n)
    BY <1>0
  <2> QED BY <1>1, <2>1, SeqFacts
<1>3. w \in Seq(DepCharacters) /\ p \in Nat /\ Holds(w, p, EscapedChar(x))
  <2>1. i \in 0..Len(n)
    BY <1>0
  <2> QED BY <1>1, <2>1, NameLayout
<1>4. EscapedChar(x) \in Seq(DepCharacters)
  BY <1>2, EscapedCharIs
<1>5. o + p \in Nat
  BY <1>3
<1>6. Holds(text, o + p, EscapedChar(x))
  BY <1>1, <1>3, <1>4, HoldsPart
<1>7. Legible(o + p)
  BY <1>0, <1>2, <1>5, <1>6, EscapedCharIs
<1> QED BY <1>1, <1>5, <1>6, <1>7

(* A character of a name is read.                                          *)
LEMMA SpellingStep ==
  ASSUME NEW n \in Seq(DepCharacters), NEW o \in Nat, text \in Seq(DepCharacters),
         Holds(text, o, EscapedName(n)), Breaks(o + Len(EscapedName(n))),
         NEW i \in 0..(Len(n) - 1), Spelling(n, i, o), outcome = "reading", DepfileNext
  PROVE  Spelling(n, i + 1, o)' /\ UNCHANGED <<state, data, outcome>>
<1>0. Len(n) \in Nat /\ Len(n) # 0 /\ Len(text) \in Nat /\ i + 1 \in 0..Len(n)
  BY SeqFacts
<1>1. PICK x, p, q : x = n[i + 1] /\ p = o + CharAt(n, i) /\ q = o + CharAt(n, i + 1)
  OBVIOUS
<1>2. p \in Nat /\ Holds(text, p, EscapedChar(x))
  BY <1>0, <1>1, SpellingBegins
<1>3. q \in Nat /\ q = p + Len(EscapedChar(x))
  <2>1. CharAt(n, i + 1) = CharAt(n, i) + Len(EscapedChar(x)) /\ CharAt(n, i) \in Nat /\ CharAt(n, i + 1) \in Nat
    <3>1. i \in 0..Len(n)
      BY <1>0
    <3> QED BY <1>0, <1>1, <3>1, NameLayout
  <2>2. Len(EscapedChar(x)) \in Nat
    <3>1. i + 1 \in 1..Len(n)
      BY <1>0
    <3>2. x \in DepCharacters
      BY <1>1, <3>1, SeqFacts
    <3> QED BY <3>2, EscapedCharIs
  <2> QED BY <1>1, <2>1, <2>2
<1>4. Legible(q)
  <2>1. CASE i + 1 = Len(n)
    <3>1. q = o + Len(EscapedName(n))
      BY <1>1, <2>1, NameLayout
    <3> QED BY <1>0, <1>3, <3>1, BreakFacts
  <2>2. CASE i + 1 # Len(n)
    <3>1. i + 1 \in 0..(Len(n) - 1)
      BY <1>0, <2>2
    <3> QED BY <1>0, <1>1, <3>1, SpellingBegins
  <2> QED BY <2>1, <2>2
<1>5. PICK c : in = Read(Behind(p, c))
  BY <1>1 DEF Spelling, InAt
<1>6. in' = Read(Behind(q, x)) /\ name' = Append(name, x) /\ UNCHANGED <<state, data, outcome>>
  BY <1>0, <1>2, <1>3, <1>4, <1>5, NameStep
<1>7. text' = text
  BY NextKeepsText
<1>8. InAt(q)'
  BY <1>6, <1>7, InAtNext
<1>9. name' = SubSeq(n, 1, i + 1)
  <2>1. name = SubSeq(n, 1, i)
    BY DEF Spelling
  <2>2. Append(SubSeq(n, 1, i), n[i + 1]) = SubSeq(n, 1, i + 1)
    BY SubSeqFacts
  <2> QED BY <1>1, <1>6, <2>1, <2>2
<1> QED BY <1>1, <1>6, <1>8, <1>9 DEF Spelling

(* A name has been read.                                                   *)
LEMMA SpellingEnds ==
  ASSUME NEW n \in Seq(DepCharacters), Len(n) # 0, NEW o \in Nat, text \in Seq(DepCharacters),
         Holds(text, o, EscapedName(n)), Breaks(o + Len(EscapedName(n))), Spelling(n, Len(n), o)
  PROVE  /\ name = n /\ name # <<>> /\ in.good /\ in.c \in Syntax
         /\ InAt(o + Len(EscapedName(n)))
<1>1. CharAt(n, Len(n)) = Len(EscapedName(n)) /\ Len(EscapedName(n)) \in Nat
  <2>1. Len(n) \in 0..Len(n)
    BY SeqFacts
  <2> QED BY <2>1, NameLayout
<1>2. InAt(o + Len(EscapedName(n))) /\ name = n
  BY <1>1, SubSeqFacts DEF Spelling
<1>3. o + Len(EscapedName(n)) \in Nat /\ Len(text) \in Nat
  BY <1>1, SeqFacts
<1>4. in.good /\ in.c \in Syntax
  BY <1>2, <1>3, BreakFacts
<1> QED BY <1>2, <1>4

(* What separates names, from any of its characters but an escaped one.    *)
LEMMA SeparatorBreaks ==
  ASSUME NEW sep \in Separators, NEW p, text \in Seq(DepCharacters), Holds(text, p, sep),
         NEW j \in 0..(Len(sep) - 1), j = 0 \/ sep[j] # Escape
  PROVE  /\ p + j \in Nat /\ Breaks(p + j)
         /\ \/ sep[j + 1] = Space /\ Holds(text, p + j, <<Space>>)
            \/ /\ sep[j + 1] = Escape /\ j + 2 <= Len(sep) /\ sep[j + 2] = NewLine
               /\ Holds(text, p + j, <<Escape, NewLine>>)
<1>0. /\ Len(sep) \in Nat /\ Len(text) \in Nat
      /\ \A i \in 1..Len(sep) : \/ sep[i] = Space
                                \/ sep[i] = Escape /\ i < Len(sep) /\ sep[i + 1] = NewLine
                                \/ sep[i] = NewLine /\ i > 1 /\ sep[i - 1] = Escape
  BY SeparatorFacts, SeqFacts
<1>1. j \in Nat /\ j + 1 \in 1..Len(sep) /\ p \in Nat /\ (j + 1) + 1 = j + 2 /\ (j + 1) - 1 = j
  BY <1>0 DEF Holds
<1>2. \/ sep[j + 1] = Space
      \/ sep[j + 1] = Escape /\ j + 1 < Len(sep) /\ sep[j + 2] = NewLine
  <2>1. \/ sep[j + 1] = Space
        \/ sep[j + 1] = Escape /\ j + 1 < Len(sep) /\ sep[(j + 1) + 1] = NewLine
        \/ sep[j + 1] = NewLine /\ j + 1 > 1 /\ sep[(j + 1) - 1] = Escape
    BY <1>0, <1>1
  <2>2. ~ (j + 1 > 1 /\ sep[j] = Escape)
    OBVIOUS
  <2> QED BY <1>1, <2>1, <2>2
<1>3. CASE sep[j + 1] = Space
  <2>1. j + 1 <= Len(sep)
    BY <1>0, <1>1
  <2>2. Holds(text, p + j, <<sep[j + 1]>>)
    BY <1>0, <1>1, <2>1, HoldsAt
  <2> QED BY <1>1, <1>3, <2>2, SyntaxIs DEF Breaks
<1>4. CASE sep[j + 1] = Escape /\ j + 1 < Len(sep) /\ sep[j + 2] = NewLine
  <2>1. j + 2 <= Len(sep)
    BY <1>0, <1>1, <1>4
  <2>2. Holds(text, p + j, <<sep[j + 1], sep[j + 2]>>)
    BY <1>0, <1>1, <2>1, HoldsAt
  <2> QED BY <1>1, <1>4, <2>1, <2>2 DEF Breaks
<1> QED BY <1>2, <1>3, <1>4

(* What comes behind a dependency, or the colon.                           *)
LEMMA DepAtBreaks ==
  ASSUME NEW rule \in Rules, NEW sep \in Separators, text = Written(rule, sep), NEW k \in 0..Len(rule.deps)
  PROVE  DepAt(rule, sep, k) \in Nat /\ Breaks(DepAt(rule, sep, k))
<1>1. text \in Seq(DepCharacters) /\ DepAt(rule, sep, k) \in Nat /\ Len(rule.deps) \in Nat
  BY Layout, RuleFacts
<1>2. CASE k = Len(rule.deps)
  <2>1. Holds(text, DepAt(rule, sep, k), <<NewLine>>)
    BY <1>2, Layout
  <2> QED BY <1>1, <2>1, SyntaxIs DEF Breaks
<1>3. CASE k # Len(rule.deps)
  <2>1. k \in 0..(Len(rule.deps) - 1)
    BY <1>1, <1>3
  <2>2. Holds(text, DepAt(rule, sep, k), sep)
    BY <2>1, Layout
  <2>3. 0 \in 0..(Len(sep) - 1) /\ DepAt(rule, sep, k) + 0 = DepAt(rule, sep, k)
    BY <1>1, SeparatorFacts
  <2>4. Breaks(DepAt(rule, sep, k) + 0)
    BY <1>1, <2>2, <2>3, SeparatorBreaks
  <2> QED BY <1>1, <2>3, <2>4
<1> QED BY <1>2, <1>3

(* There is another dependency or there is none.                           *)
LEMMA AfterDep ==
  ASSUME NEW rule \in Rules, NEW sep \in Separators, text = Written(rule, sep), NEW k \in 0..Len(rule.deps),
         state' = "read_dep", name' = <<>>, outcome' = "reading", data' = Reported(rule, k),
         InAt(DepAt(rule, sep, k))'
  PROVE  Separating(rule, sep)' \/ HasDeps(rule, sep)'
<1>1. CASE k = Len(rule.deps)
  BY <1>1 DEF HasDeps
<1>2. CASE k # Len(rule.deps)
  <2>1. k \in 0..(Len(rule.deps) - 1) /\ 0 \in 0..(Len(sep) - 1) /\ DepAt(rule, sep, k) + 0 = DepAt(rule, sep, k)
    BY <1>2, RuleFacts, SeparatorFacts, Layout
  <2>2. InAt(DepAt(rule, sep, k) + 0)'
    BY <2>1
  <2> QED BY <2>1, <2>2 DEF Separating
<1> QED BY <1>1, <1>2

LEMMA TargetIsRead ==
  ASSUME NEW rule \in Rules, NEW sep \in Separators, text = Written(rule, sep), ReadingTarget(rule), DepfileNext
  PROVE  ReadingTarget(rule)' \/ HasTarget(rule)'
<1>1. PICK n, i : n = rule.target /\ i \in 0..Len(n) /\ Spelling(n, i, 0)
  BY DEF ReadingTarget
<1>2. /\ n \in Seq(DepCharacters) /\ Len(n) \in Nat \ {0} /\ text \in Seq(DepCharacters) /\ Len(text) \in Nat
      /\ Holds(text, 0, EscapedName(n)) /\ ColonAt(rule) = Len(EscapedName(n)) /\ ColonAt(rule) \in Nat
  BY <1>1, RuleFacts, Layout DEF ColonAt
<1>3. 0 \in Nat /\ 0 + Len(EscapedName(n)) = ColonAt(rule)
  BY <1>2
<1>4. Breaks(0 + Len(EscapedName(n)))
  <2>1. Holds(text, ColonAt(rule), <<Colon>>)
    BY Layout
  <2> QED BY <1>3, <2>1, SyntaxIs DEF Breaks
<1>5. state = "read_target" /\ data = NoData /\ outcome = "reading"
  BY DEF ReadingTarget
<1>6. CASE i = Len(n)
  <2>1. name = n /\ name # <<>> /\ in.good /\ in.c \in Syntax /\ InAt(0 + Len(EscapedName(n)))
    BY <1>1, <1>2, <1>3, <1>4, <1>6, SpellingEnds
  <2>2. /\ in' = in /\ name' = <<>> /\ data' = [target |-> name, deps |-> <<>>]
        /\ state' = "read_colon" /\ outcome' = "reading"
    BY <1>5, <2>1, TokenStep
  <2>3. data' = Reported(rule, 0)
    BY <1>1, <2>1, <2>2, RuleFacts DEF Reported
  <2>4. InAt(ColonAt(rule))
    BY <1>3, <2>1
  <2>5. InAt(ColonAt(rule))'
    BY <2>2, <2>4, NextKeepsText, InAtUnchanged
  <2> QED BY <2>2, <2>3, <2>5 DEF HasTarget
<1>7. CASE i # Len(n)
  <2>1. i \in 0..(Len(n) - 1) /\ i + 1 \in 0..Len(n)
    BY <1>1, <1>2, <1>7
  <2>2. Spelling(n, i + 1, 0)' /\ UNCHANGED <<state, data, outcome>>
    BY <1>1, <1>2, <1>3, <1>4, <1>5, <2>1, SpellingStep
  <2>3. ReadingTarget(rule)'
    BY <1>1, <1>5, <2>1, <2>2 DEF ReadingTarget, NoData
  <2> QED BY <2>3
<1> QED BY <1>6, <1>7

LEMMA ColonIsRead ==
  ASSUME NEW rule \in Rules, NEW sep \in Separators, text = Written(rule, sep), HasTarget(rule), DepfileNext
  PROVE  Separating(rule, sep)' \/ HasDeps(rule, sep)'
<1>1. PICK c : in = Read(Behind(ColonAt(rule), c))
  BY DEF HasTarget, InAt
<1>2. /\ ColonAt(rule) \in Nat /\ Holds(text, ColonAt(rule), <<Colon>>) /\ Len(text) \in Nat
      /\ DepAt(rule, sep, 0) = ColonAt(rule) + 1 /\ 0 \in 0..Len(rule.deps)
  <2>1. Len(rule.deps) \in Nat
    BY RuleFacts
  <2>2. 0 \in 0..Len(rule.deps)
    BY <2>1
  <2> QED BY <2>2, Layout
<1>3. in = Behind(DepAt(rule, sep, 0), Colon)
  BY <1>1, <1>2, ReadPlain, SyntaxIs
<1>4. in.good /\ in.c = Colon
  BY <1>3 DEF Behind
<1>5. Read(in).ok
  BY <1>2, <1>3, DepAtBreaks, BreakFacts, LegibleIsOk
<1>6. in' = Read(in) /\ state' = "read_dep" /\ UNCHANGED <<name, data, outcome>>
  BY <1>4, <1>5, ColonStep DEF HasTarget
<1>7. InAt(DepAt(rule, sep, 0))'
  BY <1>3, <1>6, NextKeepsText, InAtNext
<1>8. name' = <<>> /\ data' = Reported(rule, 0) /\ outcome' = "reading"
  BY <1>6 DEF HasTarget
<1> QED BY <1>2, <1>6, <1>7, <1>8, AfterDep

LEMMA SpaceIsSkipped ==
  ASSUME NEW rule \in Rules, NEW sep \in Separators, text = Written(rule, sep), Separating(rule, sep), DepfileNext
  PROVE  Separating(rule, sep)' \/ ReadingDep(rule, sep)'
<1>1. PICK k \in 0..(Len(rule.deps) - 1), j \in 0..(Len(sep) - 1) :
        /\ data = Reported(rule, k)
        /\ j = 0 \/ sep[j] # Escape
        /\ InAt(DepAt(rule, sep, k) + j)
  BY DEF Separating
<1>2. PICK p, n : p = DepAt(rule, sep, k) /\ n = rule.deps[k + 1]
  OBVIOUS
<1>3. /\ text \in Seq(DepCharacters) /\ Len(text) \in Nat /\ Len(sep) \in Nat \ {0} /\ p \in Nat
      /\ Holds(text, p, sep) /\ Holds(text, p + Len(sep), EscapedName(n))
      /\ n \in Seq(DepCharacters) /\ Len(n) \in Nat \ {0}
  <2>1. k \in 0..Len(rule.deps)
    BY RuleFacts
  <2> QED BY <1>2, <2>1, Layout, RuleFacts, SeparatorFacts
<1>4. /\ p + j \in Nat
      /\ \/ sep[j + 1] = Space /\ Holds(text, p + j, <<Space>>)
         \/ /\ sep[j + 1] = Escape /\ j + 2 <= Len(sep) /\ sep[j + 2] = NewLine
            /\ Holds(text, p + j, <<Escape, NewLine>>)
  BY <1>1, <1>3, SeparatorBreaks
<1>5. PICK c : in = Read(Behind(p + j, c))
  BY <1>1, <1>2 DEF InAt
<1>6. PICK l \in 1..Len(sep) : (l = Len(sep) \/ sep[l] # Escape) /\ in = Behind(p + l, Space)
  <2>1. CASE sep[j + 1] = Space /\ Holds(text, p + j, <<Space>>)
    <3>1. in = Behind((p + j) + 1, Space)
      BY <1>3, <1>4, <1>5, <2>1, ReadPlain, SyntaxIs
    <3>2. j + 1 \in 1..Len(sep) /\ (p + j) + 1 = p + (j + 1) /\ sep[j + 1] # Escape
      BY <1>3, <2>1, SyntaxIs
    <3> QED BY <3>1, <3>2
  <2>2. CASE /\ sep[j + 1] = Escape /\ j + 2 <= Len(sep) /\ sep[j + 2] = NewLine
             /\ Holds(text, p + j, <<Escape, NewLine>>)
    <3>1. in = Behind((p + j) + 2, Space)
      BY <1>3, <1>4, <1>5, <2>2, ReadEscaped
    <3>2. j + 2 \in 1..Len(sep) /\ (p + j) + 2 = p + (j + 2) /\ sep[j + 2] # Escape
      BY <1>3, <2>2, SyntaxIs
    <3> QED BY <3>1, <3>2
  <2> QED BY <1>4, <2>1, <2>2
<1>7. in.good /\ in.c = Space
  BY <1>6 DEF Behind
<1>8. p + l \in Nat /\ Legible(p + l)
  <2>1. CASE l = Len(sep)
    <3>1. p + Len(sep) \in Nat /\ 0 \in 0..(Len(n) - 1) /\ p + Len(sep) + 0 = p + Len(sep)
      BY <1>3
    <3>2. CharAt(n, 0) = 0
      BY <1>3, NameLayout
    <3>3. Legible(p + Len(sep) + CharAt(n, 0))
      BY <1>3, <3>1, SpellingBegins
    <3> QED BY <2>1, <3>1, <3>2, <3>3
  <2>2. CASE l # Len(sep)
    <3>1. l \in 0..(Len(sep) - 1) /\ sep[l] # Escape
      BY <1>3, <1>6, <2>2
    <3>2. p + l \in Nat /\ Breaks(p + l)
      BY <1>3, <3>1, SeparatorBreaks
    <3> QED BY <1>3, <3>2, BreakFacts
  <2> QED BY <2>1, <2>2
<1>9. Read(in).ok
  BY <1>3, <1>6, <1>8, LegibleIsOk
<1>10. in' = Read(in) /\ UNCHANGED <<name, state, data, outcome>>
  BY <1>7, <1>9, SpaceStep DEF Separating
<1>11. InAt(p + l)'
  BY <1>6, <1>10, NextKeepsText, InAtNext
<1>12. state' = "read_dep" /\ name' = <<>> /\ outcome' = "reading" /\ data' = Reported(rule, k)
  BY <1>1, <1>10 DEF Separating
<1>13. CASE l = Len(sep)
  <2>1. 0 \in 0..Len(n) /\ CharAt(n, 0) = 0 /\ p + Len(sep) + 0 = p + Len(sep) /\ SubSeq(n, 1, 0) = <<>>
    BY <1>3, NameLayout, SubSeqFacts
  <2>2. InAt(p + Len(sep) + CharAt(n, 0))'
    BY <1>11, <1>13, <2>1
  <2>3. Spelling(n, 0, p + Len(sep))'
    BY <1>12, <2>1, <2>2 DEF Spelling
  <2> QED BY <1>2, <1>12, <2>1, <2>3 DEF ReadingDep
<1>14. CASE l # Len(sep)
  <2>1. l \in 0..(Len(sep) - 1) /\ sep[l] # Escape
    BY <1>3, <1>6, <1>14
  <2> QED BY <1>2, <1>11, <1>12, <2>1 DEF Separating
<1> QED BY <1>13, <1>14

LEMMA DepIsRead ==
  ASSUME NEW rule \in Rules, NEW sep \in Separators, text = Written(rule, sep), ReadingDep(rule, sep), DepfileNext
  PROVE  ReadingDep(rule, sep)' \/ Separating(rule, sep)' \/ HasDeps(rule, sep)'
<1>1. PICK k \in 0..(Len(rule.deps) - 1) : \E i \in 0..Len(rule.deps[k + 1]) :
        data = Reported(rule, k) /\ Spelling(rule.deps[k + 1], i, DepAt(rule, sep, k) + Len(sep))
  BY DEF ReadingDep
<1>2. PICK n, o : n = rule.deps[k + 1] /\ o = DepAt(rule, sep, k) + Len(sep)
  OBVIOUS
<1>3. PICK i \in 0..Len(n) : data = Reported(rule, k) /\ Spelling(n, i, o)
  BY <1>1, <1>2
<1>4. /\ text \in Seq(DepCharacters) /\ Len(text) \in Nat /\ o \in Nat
      /\ Holds(text, o, EscapedName(n)) /\ DepAt(rule, sep, k + 1) = o + Len(EscapedName(n))
      /\ n \in Seq(DepCharacters) /\ Len(n) \in Nat \ {0} /\ k + 1 \in 0..Len(rule.deps)
      /\ Append(SubSeq(rule.deps, 1, k), n) = SubSeq(rule.deps, 1, k + 1)
  <2>1. k \in 0..Len(rule.deps) /\ k + 1 \in 0..Len(rule.deps)
    BY RuleFacts
  <2>2. DepAt(rule, sep, k) \in Nat /\ Len(sep) \in Nat
    BY <2>1, Layout, SeparatorFacts
  <2>3. /\ Holds(text, o, EscapedName(n))
        /\ DepAt(rule, sep, k + 1) = o + Len(EscapedName(n))
    BY <1>2, Layout
  <2>4. /\ n \in Seq(DepCharacters) /\ Len(n) \in Nat \ {0}
        /\ Append(SubSeq(rule.deps, 1, k), n) = SubSeq(rule.deps, 1, k + 1)
    BY <1>2, RuleFacts
  <2>5. text \in Seq(DepCharacters) /\ Len(text) \in Nat /\ o \in Nat
    BY <1>2, <2>2, Layout
  <2> QED BY <2>1, <2>3, <2>4, <2>5
<1>5. Breaks(o + Len(EscapedName(n)))
  BY <1>4, DepAtBreaks
<1>6. state = "read_dep" /\ outcome = "reading"
  BY DEF ReadingDep
<1>7. CASE i = Len(n)
  <2>1. name = n /\ name # <<>> /\ in.good /\ in.c \in Syntax /\ InAt(o + Len(EscapedName(n)))
    BY <1>3, <1>4, <1>5, <1>7, SpellingEnds
  <2>2. /\ in' = in /\ name' = <<>> /\ data' = [data EXCEPT !.deps = Append(@, name)]
        /\ UNCHANGED <<state, outcome>>
    BY <1>6, <2>1, TokenStep
  <2>3. data' = Reported(rule, k + 1)
    BY <1>3, <1>4, <2>1, <2>2 DEF Reported
  <2>4. InAt(DepAt(rule, sep, k + 1))
    BY <1>4, <2>1
  <2>5. InAt(DepAt(rule, sep, k + 1))'
    BY <2>2, <2>4, NextKeepsText, InAtUnchanged
  <2>6. state' = "read_dep" /\ outcome' = "reading"
    BY <1>6, <2>2
  <2> QED BY <1>4, <2>2, <2>3, <2>5, <2>6, AfterDep
<1>8. CASE i # Len(n)
  <2>1. i \in 0..(Len(n) - 1) /\ i + 1 \in 0..Len(n)
    BY <1>4, <1>8
  <2>2. Spelling(n, i + 1, o)' /\ UNCHANGED <<state, data, outcome>>
    BY <1>3, <1>4, <1>5, <1>6, <2>1, SpellingStep
  <2>3. state' = "read_dep" /\ outcome' = "reading" /\ data' = Reported(rule, k)
    BY <1>3, <1>6, <2>2
  <2> QED BY <1>2, <2>1, <2>2, <2>3 DEF ReadingDep
<1> QED BY <1>7, <1>8

LEMMA NewLineIsRead ==
  ASSUME NEW rule \in Rules, NEW sep \in Separators, text = Written(rule, sep), HasDeps(rule, sep), DepfileNext
  PROVE  AtTheEnd(rule)'
<1>1. PICK m, p : m = Len(rule.deps) /\ p = DepAt(rule, sep, m)
  OBVIOUS
<1>2. PICK c : in = Read(Behind(p, c))
  BY <1>1 DEF HasDeps, InAt
<1>3. p \in Nat /\ Holds(text, p, <<NewLine>>) /\ Len(text) = p + 1 /\ Len(text) \in Nat
  <2>1. m \in 0..Len(rule.deps)
    BY <1>1, RuleFacts
  <2> QED BY <1>1, <2>1, Layout
<1>4. in = Behind(p + 1, NewLine)
  BY <1>2, <1>3, ReadPlain, SyntaxIs
<1>5. in.good /\ in.c = NewLine
  BY <1>4 DEF Behind
<1>6. Read(in).ok /\ ~Read(in).good
  BY <1>3, <1>4, ReadEnd
<1>7. in' = Read(in) /\ state' = "done" /\ UNCHANGED <<name, data, outcome>>
  BY <1>5, <1>6, NewLineStep DEF HasDeps
<1>8. data = rule
  BY RuleFacts DEF HasDeps, Reported
<1>9. data' = rule /\ name' = <<>> /\ outcome' = "reading"
  BY <1>7, <1>8 DEF HasDeps
<1> QED BY <1>6, <1>7, <1>9 DEF AtTheEnd

-----------------------------------------------------------------------------
(* Before the first step, a rule is read from its first character on.      *)
LEMMA DepfileInitInv == DepfileInit => DepInv
<1> SUFFICES ASSUME DepfileInit, NEW rule \in Rules, NEW sep \in Separators, text = Written(rule, sep)
             PROVE  ReadingTarget(rule)
  BY DEF DepInv, ReadSoFar
<1>1. PICK n : n = rule.target
  OBVIOUS
<1>2. /\ n \in Seq(DepCharacters) /\ Len(n) \in Nat \ {0} /\ text \in Seq(DepCharacters) /\ Len(text) \in Nat
      /\ Holds(text, 0, EscapedName(n))
  BY <1>1, RuleFacts, Layout
<1>3. 0 \in Nat /\ 0 \in 0..(Len(n) - 1) /\ 0 \in 0..Len(n) /\ CharAt(n, 0) = 0 /\ SubSeq(n, 1, 0) = <<>>
  BY <1>2, NameLayout, SubSeqFacts
<1>4. Legible(0)
  <2>1. Legible(0 + CharAt(n, 0))
    BY <1>2, <1>3, SpellingBegins
  <2> QED BY <1>3, <2>1
<1>5. in = Read(Behind(0, Space))
  <2>1. Behind(0, Space) = [at |-> 1, c |-> Space, good |-> TRUE, ok |-> TRUE]
    BY DEF Behind
  <2> QED BY <2>1 DEF DepfileInit
<1>6. in.ok
  BY <1>2, <1>3, <1>4, <1>5, LegibleIsOk
<1>7. InAt(0 + CharAt(n, 0))
  BY <1>3, <1>5 DEF InAt
<1>8. name = <<>> /\ state = "read_target" /\ data = NoData /\ outcome = "reading"
  BY <1>6 DEF DepfileInit
<1>9. Spelling(n, 0, 0)
  BY <1>3, <1>7, <1>8 DEF Spelling
<1> QED BY <1>1, <1>3, <1>8, <1>9 DEF ReadingTarget

(* Every step of the reader leads from one place of the rule to the next.  *)
LEMMA DepfileStep ==
  ASSUME NEW rule \in Rules, NEW sep \in Separators, text = Written(rule, sep), ReadSoFar(rule, sep), DepfileNext
  PROVE  ReadSoFar(rule, sep)'
<1>1. CASE ReadingTarget(rule)
  BY <1>1, TargetIsRead DEF ReadSoFar
<1>2. CASE HasTarget(rule)
  BY <1>2, ColonIsRead DEF ReadSoFar
<1>3. CASE Separating(rule, sep)
  BY <1>3, SpaceIsSkipped DEF ReadSoFar
<1>4. CASE ReadingDep(rule, sep)
  BY <1>4, DepIsRead DEF ReadSoFar
<1>5. CASE HasDeps(rule, sep)
  BY <1>5, NewLineIsRead DEF ReadSoFar
<1>6. CASE AtTheEnd(rule)
  <2>1. outcome' = "read" /\ data' = rule
    BY <1>6, EndStep DEF AtTheEnd
  <2> QED BY <2>1 DEF ReadSoFar, HasRead
<1>7. CASE HasRead(rule)
  BY <1>7, NothingStep DEF HasRead
<1> QED BY <1>1, <1>2, <1>3, <1>4, <1>5, <1>6, <1>7 DEF ReadSoFar

LEMMA DepfileUnchanged ==
  ASSUME NEW rule \in Rules, NEW sep \in Separators, ReadSoFar(rule, sep), UNCHANGED depfileVars
  PROVE  ReadSoFar(rule, sep)'
<1>0. text' = text /\ in' = in /\ name' = name /\ state' = state /\ data' = data /\ outcome' = outcome
  BY DEF depfileVars
<1>1. \A o : InAt(o) => InAt(o)'
  BY <1>0, InAtUnchanged
<1>2. \A n, i, o : Spelling(n, i, o) => Spelling(n, i, o)'
  BY <1>0, <1>1 DEF Spelling
<1>3. ReadingTarget(rule) => ReadingTarget(rule)'
  BY <1>0, <1>2 DEF ReadingTarget, NoData
<1>4. HasTarget(rule) => HasTarget(rule)'
  BY <1>0, <1>1 DEF HasTarget
<1>5. Separating(rule, sep) => Separating(rule, sep)'
  BY <1>0, <1>1 DEF Separating
<1>6. ReadingDep(rule, sep) => ReadingDep(rule, sep)'
  BY <1>0, <1>2 DEF ReadingDep
<1>7. HasDeps(rule, sep) => HasDeps(rule, sep)'
  BY <1>0, <1>1 DEF HasDeps
<1>8. (AtTheEnd(rule) => AtTheEnd(rule)') /\ (HasRead(rule) => HasRead(rule)')
  BY <1>0 DEF AtTheEnd, HasRead
<1> QED BY <1>3, <1>4, <1>5, <1>6, <1>7, <1>8 DEF ReadSoFar

(* However a rule is written, at every step of tokenizer.h and its handler *)
(* it has been read up to some place: what comes before it is in data and  *)
(* in the token being read, and the next character that is looked at is    *)
(* the first one behind it.                                                *)
THEOREM DepfileInvariant == DepfileSpec => []DepInv
<1>1. DepfileInit => DepInv
  BY DepfileInitInv
<1>2. DepInv /\ [DepfileNext]_depfileVars => DepInv'
  <2> SUFFICES ASSUME DepInv, [DepfileNext]_depfileVars, NEW rule \in Rules, NEW sep \in Separators,
                      text' = Written(rule, sep)
               PROVE  ReadSoFar(rule, sep)'
    BY DEF DepInv
  <2>1. text' = text
    BY NextKeepsText DEF depfileVars
  <2>2. ReadSoFar(rule, sep) /\ text = Written(rule, sep)
    BY <2>1 DEF DepInv
  <2> QED BY <2>2, DepfileStep, DepfileUnchanged
<1> QED BY <1>1, <1>2, PTL DEF DepfileSpec

(* Every rule that is written as the comment on read_() (tokenizer.h:46)   *)
(* says, whatever characters its names have and however many there are,    *)
(* comes back from parse() as it was written.                              *)
THEOREM EveryRuleIsRead == DepfileSpec => []WrittenIsRead
<1>1. DepInv => WrittenIsRead
  BY DEF DepInv, ReadSoFar, ReadingTarget, HasTarget, Separating, ReadingDep, HasDeps, AtTheEnd, HasRead, WrittenIsRead
<1> QED BY <1>1, DepfileInvariant, PTL

-----------------------------------------------------------------------------
(* What is left of a sequence without some of its places.                  *)
IsThinned(T, ss, m, D, x) ==
  /\ m \in Nat /\ \A i \in 1..m : i \notin D => x[i] \in T
  /\ ss = [i \in 1..m |-> IF i \in D THEN <<>> ELSE <<x[i]>>]

LEMMA Thinned ==
  ASSUME NEW T, NEW m, NEW D, NEW x, NEW ss, IsThinned(T, ss, m, D, x)
  PROVE  /\ FlattenSeq(ss) \in Seq(T) /\ Len(FlattenSeq(ss)) \in Nat
         /\ Place(ss, 0) = 0 /\ Place(ss, m) = Len(FlattenSeq(ss))
         /\ \A i \in 0..m : Place(ss, i) \in 0..Len(FlattenSeq(ss))
         /\ \A i \in 0..(m - 1) :
              /\ i + 1 \in D => Place(ss, i + 1) = Place(ss, i)
              /\ i + 1 \notin D => /\ Place(ss, i + 1) = Place(ss, i) + 1
                                   /\ Place(ss, i) < Len(FlattenSeq(ss))
                                   /\ FlattenSeq(ss)[Place(ss, i) + 1] = x[i + 1]
<1>0. /\ m \in Nat /\ \A i \in 1..m : i \notin D => x[i] \in T
      /\ ss = [i \in 1..m |-> IF i \in D THEN <<>> ELSE <<x[i]>>]
  BY DEF IsThinned
<1>1. \A i \in 1..m : /\ ss[i] \in Seq(T)
                      /\ i \in D => Len(ss[i]) = 0
                      /\ i \notin D => ss[i] = <<x[i]>> /\ Len(ss[i]) = 1
  <2>1. ASSUME NEW i \in 1..m, i \in D
        PROVE  ss[i] \in Seq(T) /\ Len(ss[i]) = 0
    <3>1. ss[i] = <<>>
      BY <1>0, <2>1
    <3>2. <<>> \in Seq(T) /\ Len(<<>>) = 0
      OBVIOUS
    <3> QED BY <3>1, <3>2
  <2>2. ASSUME NEW i \in 1..m, i \notin D
        PROVE  ss[i] \in Seq(T) /\ ss[i] = <<x[i]>> /\ Len(ss[i]) = 1
    <3>1. ss[i] = <<x[i]>> /\ x[i] \in T
      BY <1>0, <2>2
    <3>2. <<x[i]>> \in Seq(T) /\ Len(<<x[i]>>) = 1
      BY <3>1, TupleFacts, Zenon
    <3> QED BY <3>1, <3>2
  <2> QED BY <2>1, <2>2
<1>2. ss \in Seq(Seq(T)) /\ Len(ss) = m
  <2>1. \A i \in 1..m : ss[i] \in Seq(T)
    BY <1>1
  <2> QED BY <1>0, <2>1
<1>3. PICK f : f = FlattenSeq(ss)
  OBVIOUS
<1>4. /\ f \in Seq(T)
      /\ Place(ss, 0) = 0 /\ Place(ss, m) = Len(f)
      /\ \A k \in 0..m : Place(ss, k) \in Nat
      /\ \A k \in 0..(m - 1) : Place(ss, k + 1) = Place(ss, k) + Len(ss[k + 1]) /\ Holds(f, Place(ss, k), ss[k + 1])
      /\ \A k \in 0..m : Holds(f, 0, FlattenSeq(SubSeq(ss, 1, k)))
  BY <1>2, <1>3, Pieces
<1>5. Len(f) \in Nat
  BY <1>4
<1>6. ASSUME NEW i \in 0..m
      PROVE  Place(ss, i) \in 0..Len(f)
  <2>1. 0 + Place(ss, i) <= Len(f)
    BY <1>4 DEF Holds, Place
  <2>2. Place(ss, i) \in Nat
    BY <1>4
  <2> QED BY <1>5, <2>1, <2>2
<1>7. ASSUME NEW i \in 0..(m - 1)
      PROVE  /\ i + 1 \in D => Place(ss, i + 1) = Place(ss, i)
             /\ i + 1 \notin D => /\ Place(ss, i + 1) = Place(ss, i) + 1
                                  /\ Place(ss, i) < Len(f)
                                  /\ f[Place(ss, i) + 1] = x[i + 1]
  <2>1. PICK p : p = Place(ss, i)
    OBVIOUS
  <2>2. i + 1 \in 1..m /\ i \in 0..m /\ p \in Nat
    BY <1>0, <1>4, <2>1
  <2>3. Place(ss, i + 1) = p + Len(ss[i + 1]) /\ Holds(f, p, ss[i + 1])
    BY <1>4, <2>1
  <2>4. i + 1 \in D => Place(ss, i + 1) = p
    BY <1>1, <2>2, <2>3
  <2>5. ASSUME i + 1 \notin D
        PROVE  Place(ss, i + 1) = p + 1 /\ p < Len(f) /\ f[p + 1] = x[i + 1]
    <3>1. ss[i + 1] = <<x[i + 1]>> /\ Len(ss[i + 1]) = 1
      BY <1>1, <2>2, <2>5
    <3>2. p + 1 <= Len(f) /\ f[p + 1] = ss[i + 1][1]
      <4>1. 1 \in 1..1
        OBVIOUS
      <4> QED BY <2>3, <3>1, <4>1 DEF Holds
    <3> QED BY <1>5, <2>2, <2>3, <3>1, <3>2
  <2> QED BY <2>1, <2>4, <2>5
<1> QED BY <1>3, <1>4, <1>5, <1>6, <1>7

(* A backslash escapes what follows unless it is itself escaped.           *)
LEMMA EscapesAre ==
  ASSUME NEW T, NEW s \in Seq(T)
  PROVE  /\ 0 \notin Escapes(s) /\ \A i \in Escapes(s) : i \in 1..Len(s)
         /\ \A i \in 1..Len(s) : i \in Escapes(s) <=> s[i] = Escape /\ i - 1 \notin Escapes(s)
<1>0. DOMAIN s = 1..Len(s) /\ Len(s) \in Nat
  BY SeqFacts
<1> DEFINE S == {k \in Nat : s[k] = Escape}
<1>1. \A i \in Nat : {j \in 1..i : \A k \in j..i : s[k] = Escape} = RunTo(S, i)
  <2>1. \A i \in Nat : \A j \in 1..i : \A k \in j..i : k \in Nat
    OBVIOUS
  <2>2. \A i \in Nat : \A j \in 1..i : (\A k \in j..i : s[k] = Escape) <=> (\A k \in j..i : k \in S)
    BY <2>1
  <2> HIDE DEF S
  <2> QED BY <2>2 DEF RunTo
<1>2. \A i \in 1..Len(s) : i \in S <=> s[i] = Escape
  BY <1>0
<1> HIDE DEF S
<1>3. \A i \in 1..Len(s) : i \in Escapes(s) <=> Cardinality(RunTo(S, i)) % 2 = 1
  <2>1. ASSUME NEW i \in 1..Len(s)
        PROVE  i \in Escapes(s) <=> Cardinality(RunTo(S, i)) % 2 = 1
    <3>1. PICK run : run = {j \in 1..i : \A k \in j..i : s[k] = Escape}
      OBVIOUS
    <3>2. run = RunTo(S, i)
      <4>1. i \in Nat
        BY <1>0
      <4> QED BY <1>1, <3>1, <4>1
    <3>3. i \in Escapes(s) <=> i \in DOMAIN s /\ Cardinality(run) % 2 = 1
      BY <3>1 DEF Escapes
    <3> QED BY <1>0, <3>2, <3>3
  <2> QED BY <2>1
<1>4. \A i \in Escapes(s) : i \in 1..Len(s)
  BY <1>0 DEF Escapes
<1>5. 0 \notin Escapes(s)
  BY <1>0, <1>4
<1>6. ASSUME NEW i \in 1..Len(s)
      PROVE  i \in Escapes(s) <=> s[i] = Escape /\ i - 1 \notin Escapes(s)
  <2>1. PICK n, p : n = Cardinality(RunTo(S, i - 1)) /\ p = Cardinality(RunTo(S, i))
    OBVIOUS
  <2>2. i - 1 \in Nat /\ (i - 1) + 1 = i
    BY <1>0
  <2>3. n \in Nat /\ (i \in S => p = n + 1) /\ (i \notin S => p = 0)
    BY <2>1, <2>2, RunFacts
  <2>4. i - 1 \in Escapes(s) <=> n % 2 = 1
    <3>1. CASE i = 1
      <4>1. n = 0 /\ i - 1 = 0
        BY <2>1, <3>1, RunFacts
      <4> QED BY <1>5, <4>1
    <3>2. CASE i # 1
      <4>1. i - 1 \in 1..Len(s)
        BY <1>0, <3>2
      <4> QED BY <1>3, <2>1, <4>1
    <3> QED BY <3>1, <3>2
  <2>5. i \in Escapes(s) <=> p % 2 = 1
    BY <1>3, <2>1
  <2>6. (n + 1) % 2 = 1 <=> n % 2 # 1
    BY <2>3
  <2>7. 0 % 2 # 1
    OBVIOUS
  <2> QED BY <1>2, <2>3, <2>4, <2>5, <2>6, <2>7
<1> QED BY <1>4, <1>5, <1>6

(* The text once its backslashes have been carried out, and how much of it *)
(* comes from the first i characters.                                      *)
PlainPieces(s) == [i \in DOMAIN s |->
                     IF i \in Escapes(s) THEN <<>>
                     ELSE IF i - 1 \in Escapes(s) /\ s[i] = NewLine THEN <<Space>> ELSE <<s[i]>>]
PlainAt(s, i)  == Place(PlainPieces(s), i)

LEMMA PlainLayout ==
  ASSUME NEW s \in Seq(DepCharacters)
  PROVE  /\ Plain(s) \in Seq(DepCharacters) /\ Len(Plain(s)) \in Nat
         /\ PlainAt(s, 0) = 0 /\ PlainAt(s, Len(s)) = Len(Plain(s))
         /\ \A i \in 0..Len(s) : PlainAt(s, i) \in 0..Len(Plain(s))
         /\ \A i \in 0..(Len(s) - 1) :
              /\ i + 1 \in Escapes(s) => PlainAt(s, i + 1) = PlainAt(s, i)
              /\ i + 1 \notin Escapes(s) =>
                   /\ PlainAt(s, i + 1) = PlainAt(s, i) + 1
                   /\ PlainAt(s, i) < Len(Plain(s))
                   /\ Plain(s)[PlainAt(s, i) + 1] =
                        IF i \in Escapes(s) /\ s[i + 1] = NewLine THEN Space ELSE s[i + 1]
<1>0. DOMAIN s = 1..Len(s) /\ Len(s) \in Nat /\ \A i \in 1..Len(s) : s[i] \in DepCharacters
  BY SeqFacts
<1>1. PICK m, D, x, ss :
        /\ m = Len(s) /\ D = Escapes(s) /\ ss = PlainPieces(s)
        /\ x = [i \in 1..m |-> IF i - 1 \in D /\ s[i] = NewLine THEN Space ELSE s[i]]
  OBVIOUS
<1>2. m \in Nat /\ \A i \in 1..m : x[i] = IF i - 1 \in D /\ s[i] = NewLine THEN Space ELSE s[i]
  BY <1>0, <1>1
<1>3. \A i \in 1..m : x[i] \in DepCharacters
  <2>1. Space \in DepCharacters
    BY SyntaxIs DEF DepCharacters
  <2> QED BY <1>0, <1>1, <1>2, <2>1
<1>4. IsThinned(DepCharacters, ss, m, D, x)
  <2>1. ss = [i \in 1..m |-> IF i \in D THEN <<>>
                             ELSE IF i - 1 \in D /\ s[i] = NewLine THEN <<Space>> ELSE <<s[i]>>]
    BY <1>0, <1>1 DEF PlainPieces
  <2>2. \A i \in 1..m : (IF i - 1 \in D /\ s[i] = NewLine THEN <<Space>> ELSE <<s[i]>>) = <<x[i]>>
    BY <1>2
  <2> QED BY <1>2, <1>3, <2>1, <2>2 DEF IsThinned
<1>5. Plain(s) = FlattenSeq(ss) /\ \A i : PlainAt(s, i) = Place(ss, i)
  BY <1>1 DEF Plain, PlainPieces, PlainAt
<1>6. /\ FlattenSeq(ss) \in Seq(DepCharacters) /\ Len(FlattenSeq(ss)) \in Nat
      /\ Place(ss, 0) = 0 /\ Place(ss, m) = Len(FlattenSeq(ss))
      /\ \A i \in 0..m : Place(ss, i) \in 0..Len(FlattenSeq(ss))
      /\ \A i \in 0..(m - 1) :
           /\ i + 1 \in D => Place(ss, i + 1) = Place(ss, i)
           /\ i + 1 \notin D => /\ Place(ss, i + 1) = Place(ss, i) + 1
                                /\ Place(ss, i) < Len(FlattenSeq(ss))
                                /\ FlattenSeq(ss)[Place(ss, i) + 1] = x[i + 1]
  BY <1>4, Thinned
<1>7. \A i \in 0..(m - 1) : x[i + 1] = IF i \in D /\ s[i + 1] = NewLine THEN Space ELSE s[i + 1]
  <2>1. \A i \in 0..(m - 1) : i + 1 \in 1..m /\ (i + 1) - 1 = i
    BY <1>2
  <2> QED BY <1>2, <2>1
<1> QED BY <1>1, <1>5, <1>6, <1>7

(* The characters with whether they belong to names, likewise.             *)
Escaping(s)   == Escapes(s) \ {Len(s)}
MarkOf(s, i)  == IF i - 1 \in Escaping(s) \/ s[i] \notin Syntax THEN [c |-> s[i], of |-> "name"]
                 ELSE [c |-> s[i], of |-> "rule"]
MarkPieces(s) == [i \in DOMAIN s |->
                    IF i \in Escaping(s) THEN <<>>
                    ELSE IF i - 1 \in Escaping(s) \/ s[i] \notin Syntax THEN <<[c |-> s[i], of |-> "name"]>>
                    ELSE <<[c |-> s[i], of |-> "rule"]>>]
MarkAt(s, i)  == Place(MarkPieces(s), i)
AllMarks      == [c : DepCharacters, of : {"name"}] \cup [c : Syntax, of : {"rule"}]

LEMMA MarkLayout ==
  ASSUME NEW s \in Seq(DepCharacters)
  PROVE  /\ Marks(s) \in Seq(AllMarks) /\ Len(Marks(s)) \in Nat
         /\ MarkAt(s, 0) = 0 /\ MarkAt(s, Len(s)) = Len(Marks(s))
         /\ \A i \in 0..Len(s) : MarkAt(s, i) \in 0..Len(Marks(s))
         /\ \A i \in 0..(Len(s) - 1) :
              /\ i + 1 \in Escaping(s) => MarkAt(s, i + 1) = MarkAt(s, i)
              /\ i + 1 \notin Escaping(s) =>
                   /\ MarkAt(s, i + 1) = MarkAt(s, i) + 1
                   /\ MarkAt(s, i) < Len(Marks(s))
                   /\ Marks(s)[MarkAt(s, i) + 1] = MarkOf(s, i + 1)
<1>0. DOMAIN s = 1..Len(s) /\ Len(s) \in Nat /\ \A i \in 1..Len(s) : s[i] \in DepCharacters
  BY SeqFacts
<1>1. PICK m, D, x, ss :
        /\ m = Len(s) /\ D = Escaping(s) /\ ss = MarkPieces(s)
        /\ x = [i \in 1..m |-> MarkOf(s, i)]
  OBVIOUS
<1>2. m \in Nat /\ \A i \in 1..m : x[i] = MarkOf(s, i)
  BY <1>0, <1>1
<1>3. \A i \in 1..m : x[i] \in AllMarks
  BY <1>0, <1>1, <1>2 DEF MarkOf, AllMarks
<1>4. IsThinned(AllMarks, ss, m, D, x)
  <2>1. ss = [i \in 1..m |-> IF i \in D THEN <<>>
                             ELSE IF i - 1 \in D \/ s[i] \notin Syntax THEN <<[c |-> s[i], of |-> "name"]>>
                             ELSE <<[c |-> s[i], of |-> "rule"]>>]
    BY <1>0, <1>1 DEF MarkPieces
  <2>2. \A i \in 1..m : (IF i - 1 \in D \/ s[i] \notin Syntax THEN <<[c |-> s[i], of |-> "name"]>>
                         ELSE <<[c |-> s[i], of |-> "rule"]>>) = <<x[i]>>
    BY <1>1, <1>2 DEF MarkOf
  <2>3. ss = [i \in 1..m |-> IF i \in D THEN <<>> ELSE <<x[i]>>]
    BY <2>1, <2>2
  <2> QED BY <1>2, <1>3, <2>3 DEF IsThinned
<1>5. Marks(s) = FlattenSeq(ss) /\ \A i : MarkAt(s, i) = Place(ss, i)
  BY <1>1 DEF Marks, MarkPieces, MarkAt, Escaping
<1>6. /\ FlattenSeq(ss) \in Seq(AllMarks) /\ Len(FlattenSeq(ss)) \in Nat
      /\ Place(ss, 0) = 0 /\ Place(ss, m) = Len(FlattenSeq(ss))
      /\ \A i \in 0..m : Place(ss, i) \in 0..Len(FlattenSeq(ss))
      /\ \A i \in 0..(m - 1) :
           /\ i + 1 \in D => Place(ss, i + 1) = Place(ss, i)
           /\ i + 1 \notin D => /\ Place(ss, i + 1) = Place(ss, i) + 1
                                /\ Place(ss, i) < Len(FlattenSeq(ss))
                                /\ FlattenSeq(ss)[Place(ss, i) + 1] = x[i + 1]
  BY <1>4, Thinned
<1>7. \A i \in 0..(m - 1) : x[i + 1] = MarkOf(s, i + 1)
  <2>1. \A i \in 0..(m - 1) : i + 1 \in 1..m
    BY <1>2
  <2> QED BY <1>2, <2>1
<1> QED BY <1>1, <1>5, <1>6, <1>7

-----------------------------------------------------------------------------
(* The tokenizer at the end of t, and with the n-th character of what t is *)
(* once its backslashes have been carried out in front of it.              *)
Ended(t, c)    == [at |-> Len(t) + 1, c |-> c, good |-> FALSE, ok |-> TRUE]
Dangling(t)    == Len(t) \in Escapes(t)
Shows(t, r, n) ==
  \/ /\ n \in 1..Len(Plain(t))
     /\ \E o \in 1..Len(t) : o \notin Escapes(t) /\ PlainAt(t, o) = n /\ r = Behind(o, Plain(t)[n])
  \/ n = Len(Plain(t)) + 1 /\ ~Dangling(t) /\ \E c : r = Ended(t, c)

LEMMA ReadAtEnd ==
  ASSUME Len(text) \in Nat, NEW c
  PROVE  Read(Behind(Len(text), c)) = Ended(text, c) /\ Read(Ended(text, c)) = Ended(text, c)
<1>1. PICK p, f, g : p = Len(text) + 1 /\ f = FALSE /\ g = TRUE
  OBVIOUS
<1>2. Behind(Len(text), c) = [at |-> p, c |-> c, good |-> g, ok |-> g]
  BY <1>1 DEF Behind
<1>3. Ended(text, c) = [at |-> p, c |-> c, good |-> f, ok |-> g]
  BY <1>1 DEF Ended
<1>4. ASSUME NEW r, NEW h, r = [at |-> p, c |-> c, good |-> h, ok |-> g]
      PROVE  Read(r) = [at |-> p, c |-> c, good |-> f, ok |-> g]
  <2>1. r.at = p
    BY <1>4
  <2>2. r.at > Len(text)
    BY <1>1, <2>1
  <2>3. PICK u : u = ReadUnescaped(r)
    OBVIOUS
  <2>4. u = [r EXCEPT !.good = f]
    BY <1>1, <2>2, <2>3 DEF ReadUnescaped
  <2>5. u = [at |-> p, c |-> c, good |-> f, ok |-> g]
    BY <1>4, <2>4
  <2>6. ~u.good
    BY <1>1, <2>5
  <2>7. Read(r) = u
    BY <2>3, <2>6 DEF Read
  <2> QED BY <2>5, <2>7
<1> QED BY <1>2, <1>3, <1>4

LEMMA ReadDangling ==
  ASSUME Len(text) \in Nat, NEW o \in Nat, NEW c, o + 1 = Len(text), text[o + 1] = Escape
  PROVE  ~Read(Behind(o, c)).ok
<1>1. Holds(text, o, <<Escape>>)
  <2>1. Len(<<Escape>>) = 1 /\ \A n \in 1..1 : n = 1 /\ <<Escape>>[n] = Escape
    OBVIOUS
  <2> QED BY <2>1 DEF Holds
<1>2. PICK u, v : u = ReadUnescaped(Behind(o, c)) /\ v = ReadUnescaped(u)
  OBVIOUS
<1>3. u = Behind(o + 1, Escape)
  BY <1>1, <1>2, ReadUnescapedIs
<1>4. u.good /\ u.c = Escape
  BY <1>3 DEF Behind
<1>5. PICK p, f, g : p = o + 1 + 1 /\ f = FALSE /\ g = TRUE
  OBVIOUS
<1>6. u = [at |-> p, c |-> Escape, good |-> g, ok |-> g]
  BY <1>3, <1>5 DEF Behind
<1>7. v = [u EXCEPT !.good = f]
  <2>1. v = [Behind(o + 1, Escape) EXCEPT !.good = FALSE]
    BY <1>2, <1>3, ReadUnescapedIs
  <2> QED BY <1>3, <1>5, <2>1
<1>8. v = [at |-> p, c |-> Escape, good |-> f, ok |-> g]
  BY <1>6, <1>7
<1>9. ~v.good
  BY <1>5, <1>8
<1>10. Read(Behind(o, c)) = [v EXCEPT !.ok = FALSE]
  BY <1>2, <1>4, <1>9 DEF Read
<1>11. [v EXCEPT !.ok = FALSE] = [at |-> p, c |-> Escape, good |-> f, ok |-> f]
  <2>1. [v EXCEPT !.ok = f] = [at |-> p, c |-> Escape, good |-> f, ok |-> f]
    BY <1>8
  <2> QED BY <1>5, <2>1
<1>12. [at |-> p, c |-> Escape, good |-> f, ok |-> f].ok = f
  OBVIOUS
<1> QED BY <1>5, <1>10, <1>11, <1>12

(* One call of read_() shows the next character, or the end, or throws.    *)
LEMMA ReadNext ==
  ASSUME text \in Seq(DepCharacters), NEW o \in 0..Len(text), o \notin Escapes(text), NEW c,
         NEW n, n = PlainAt(text, o), NEW r, r = Read(Behind(o, c))
  PROVE  /\ \/ r.ok /\ Shows(text, r, n + 1)
            \/ ~r.ok /\ Dangling(text)
         /\ r.ok /\ n = Len(Plain(text)) => r = Ended(text, c)
<1>0. /\ Len(text) \in Nat /\ DOMAIN text = 1..Len(text)
      /\ 0 \notin Escapes(text) /\ \A i \in Escapes(text) : i \in 1..Len(text)
      /\ \A i \in 1..Len(text) : i \in Escapes(text) <=> text[i] = Escape /\ i - 1 \notin Escapes(text)
  BY SeqFacts, EscapesAre
<1>00. \A p, y : Behind(p, y).ok
  BY DEF Behind
<1>1. PICK Q : Q = Plain(text)
  OBVIOUS
<1>2. /\ Len(Q) \in Nat /\ PlainAt(text, Len(text)) = Len(Q)
      /\ \A i \in 0..Len(text) : PlainAt(text, i) \in 0..Len(Q)
      /\ \A i \in 0..(Len(text) - 1) :
           /\ i + 1 \in Escapes(text) => PlainAt(text, i + 1) = PlainAt(text, i)
           /\ i + 1 \notin Escapes(text) =>
                /\ PlainAt(text, i + 1) = PlainAt(text, i) + 1
                /\ PlainAt(text, i) < Len(Q)
                /\ Q[PlainAt(text, i) + 1] = IF i \in Escapes(text) /\ text[i + 1] = NewLine THEN Space ELSE text[i + 1]
  BY <1>1, PlainLayout
<1>3. n \in 0..Len(Q) /\ o \in Nat
  BY <1>0, <1>2
<1>4. CASE o = Len(text)
  <2>1. n = Len(Q) /\ r = Ended(text, c)
    BY <1>0, <1>2, <1>4, ReadAtEnd
  <2>2. r.ok
    BY <2>1 DEF Ended
  <2>3. ~Dangling(text)
    BY <1>4 DEF Dangling
  <2> QED BY <1>1, <2>1, <2>2, <2>3 DEF Shows
<1>5. CASE o + 1 <= Len(text) /\ o + 1 \notin Escapes(text)
  <2>1. o \in 0..(Len(text) - 1) /\ o + 1 \in 1..Len(text) /\ (o + 1) - 1 = o
    BY <1>0, <1>3, <1>5
  <2>2. text[o + 1] # Escape
    BY <1>0, <1>5, <2>1
  <2>3. Holds(text, o, <<text[o + 1]>>)
    <3>1. PICK x : x = text[o + 1]
      OBVIOUS
    <3>2. Len(<<x>>) = 1 /\ \A k \in 1..1 : k = 1 /\ <<x>>[k] = x
      OBVIOUS
    <3> QED BY <1>3, <1>5, <3>1, <3>2 DEF Holds
  <2>4. r = Behind(o + 1, text[o + 1])
    BY <1>0, <1>3, <2>2, <2>3, ReadPlain
  <2>5. PlainAt(text, o + 1) = n + 1 /\ n < Len(Q) /\ Q[n + 1] = text[o + 1]
    BY <1>2, <1>5, <2>1
  <2>6. n + 1 \in 1..Len(Q) /\ n # Len(Q)
    BY <1>2, <1>3, <2>5
  <2> QED BY <1>00, <1>1, <1>5, <2>1, <2>4, <2>5, <2>6 DEF Shows
<1>6. CASE o + 1 <= Len(text) /\ o + 1 \in Escapes(text) /\ o + 2 <= Len(text)
  <2>1. /\ o \in 0..(Len(text) - 1) /\ o + 1 \in 0..(Len(text) - 1)
        /\ o + 1 \in 1..Len(text) /\ o + 2 \in 1..Len(text) /\ (o + 2) - 1 = o + 1 /\ (o + 1) + 1 = o + 2
    BY <1>0, <1>3, <1>6
  <2>2. text[o + 1] = Escape /\ o + 2 \notin Escapes(text)
    BY <1>0, <1>6, <2>1
  <2>3. Holds(text, o, <<Escape, text[o + 2]>>)
    <3>1. PICK x : x = text[o + 2]
      OBVIOUS
    <3>2. /\ Len(<<Escape, x>>) = 2
          /\ \A k \in 1..2 : \/ k = 1 /\ <<Escape, x>>[k] = Escape
                             \/ k = 2 /\ <<Escape, x>>[k] = x
      OBVIOUS
    <3> QED BY <1>3, <1>6, <2>2, <3>1, <3>2 DEF Holds
  <2>4. PICK y : y = IF text[o + 2] = NewLine THEN Space ELSE text[o + 2]
    OBVIOUS
  <2>5. r = Behind(o + 2, y)
    BY <1>0, <1>3, <2>3, <2>4, ReadEscaped
  <2>6. PlainAt(text, o + 1) = n
    BY <1>2, <1>6, <2>1
  <2>7. PlainAt(text, o + 2) = n + 1 /\ n < Len(Q) /\ Q[n + 1] = y
    BY <1>2, <1>6, <2>1, <2>2, <2>4, <2>6
  <2>8. n + 1 \in 1..Len(Q) /\ n # Len(Q)
    BY <1>2, <1>3, <2>7
  <2> QED BY <1>00, <1>1, <2>1, <2>2, <2>5, <2>7, <2>8 DEF Shows
<1>7. CASE o + 1 = Len(text) /\ o + 1 \in Escapes(text)
  <2>1. text[o + 1] = Escape
    BY <1>0, <1>7
  <2>2. ~r.ok
    BY <1>0, <1>3, <1>7, <2>1, ReadDangling
  <2> QED BY <1>7, <2>2 DEF Dangling
<1>8. \/ o = Len(text)
      \/ o + 1 <= Len(text) /\ o + 2 <= Len(text)
      \/ o + 1 = Len(text)
  <2>1. PICK l : l = Len(text)
    OBVIOUS
  <2>2. l \in Nat /\ o \in Nat /\ o <= l
    BY <1>0, <1>3, <2>1
  <2>3. \/ o = l
        \/ o + 1 <= l /\ o + 2 <= l
        \/ o + 1 = l
    BY <2>2
  <2> QED BY <2>1, <2>3
<1>9. o + 1 = Len(text) => o + 1 <= Len(text)
  BY <1>0, <1>3
<1> QED BY <1>4, <1>5, <1>6, <1>7, <1>8, <1>9

(* The tokenizer is in front of the next mark of t.                        *)
Facing(t, r, m) ==
  \E n \in 0..Len(Plain(t)) : n \notin Escaping(Plain(t)) /\ MarkAt(Plain(t), n) = m /\ Shows(t, r, n + 1)

LEMMA EscapingAre ==
  ASSUME NEW s \in Seq(DepCharacters)
  PROVE  /\ 0 \notin Escaping(s)
         /\ \A n \in 0..(Len(s) - 1) :
              /\ n + 1 \in Escaping(s) => s[n + 1] = Escape /\ n + 2 <= Len(s) /\ n + 2 \notin Escaping(s)
              /\ n \notin Escaping(s) /\ n + 1 \notin Escaping(s) /\ s[n + 1] = Escape => n + 1 = Len(s)
<1>0. /\ Len(s) \in Nat
      /\ 0 \notin Escapes(s) /\ \A i \in Escapes(s) : i \in 1..Len(s)
      /\ \A i \in 1..Len(s) : i \in Escapes(s) <=> s[i] = Escape /\ i - 1 \notin Escapes(s)
  BY SeqFacts, EscapesAre
<1>1. ASSUME NEW n \in 0..(Len(s) - 1)
      PROVE  /\ n + 1 \in Escaping(s) => s[n + 1] = Escape /\ n + 2 <= Len(s) /\ n + 2 \notin Escaping(s)
             /\ n \notin Escaping(s) /\ n + 1 \notin Escaping(s) /\ s[n + 1] = Escape => n + 1 = Len(s)
  <2>1. n \in Nat /\ n # Len(s) /\ n + 1 \in 1..Len(s) /\ (n + 1) - 1 = n /\ (n + 2) - 1 = n + 1
    BY <1>0
  <2>2. n + 1 # Len(s) => n + 2 <= Len(s) /\ n + 2 \in 1..Len(s)
    BY <1>0, <2>1
  <2> QED BY <1>0, <2>1, <2>2 DEF Escaping
<1> QED BY <1>0, <1>1 DEF Escaping

LEMMA FacingFacts ==
  ASSUME NEW t \in Seq(DepCharacters), NEW r, NEW m, Facing(t, r, m), NEW ms, ms = Marks(Plain(t))
  PROVE  /\ m \in 0..Len(ms) /\ r.ok
         /\ \/ /\ r.good /\ m < Len(ms)
               /\ ms[m + 1].of = "rule" => r.c = ms[m + 1].c /\ r.c \in Syntax
               /\ ms[m + 1].of # "rule" => ms[m + 1].of = "name" /\ r.c \notin Syntax
            \/ ~r.good /\ m = Len(ms) /\ ~Dangling(t)
<1>1. PICK Q : Q = Plain(t)
  OBVIOUS
<1>2. PICK n \in 0..Len(Q) : n \notin Escaping(Q) /\ MarkAt(Q, n) = m /\ Shows(t, r, n + 1)
  BY <1>1 DEF Facing
<1>3. Q \in Seq(DepCharacters) /\ Len(Q) \in Nat
  BY <1>1, PlainLayout
<1>4. /\ Len(ms) \in Nat /\ MarkAt(Q, Len(Q)) = Len(ms)
      /\ \A i \in 0..Len(Q) : MarkAt(Q, i) \in 0..Len(ms)
      /\ \A i \in 0..(Len(Q) - 1) :
           /\ i + 1 \in Escaping(Q) => MarkAt(Q, i + 1) = MarkAt(Q, i)
           /\ i + 1 \notin Escaping(Q) =>
                /\ MarkAt(Q, i + 1) = MarkAt(Q, i) + 1
                /\ MarkAt(Q, i) < Len(ms)
                /\ ms[MarkAt(Q, i) + 1] = MarkOf(Q, i + 1)
  BY <1>1, <1>3, MarkLayout
<1>5. m \in 0..Len(ms)
  BY <1>2, <1>4
<1>6. CASE n = Len(Q)
  <2>1. m = Len(ms)
    BY <1>2, <1>4, <1>6
  <2>2. n + 1 \notin 1..Len(Q)
    BY <1>3, <1>6
  <2>3. ~Dangling(t) /\ \E c : r = Ended(t, c)
    BY <1>1, <1>2, <2>2 DEF Shows
  <2>4. ~r.good /\ r.ok
    BY <2>3 DEF Ended
  <2> QED BY <1>5, <2>1, <2>3, <2>4
<1>7. CASE n # Len(Q)
  <2>1. n \in 0..(Len(Q) - 1) /\ n + 1 # Len(Q) + 1 /\ n \in Nat
    BY <1>3, <1>7
  <2>2. PICK o \in 1..Len(t) : r = Behind(o, Q[n + 1])
    BY <1>1, <1>2, <2>1 DEF Shows
  <2>3. r.good /\ r.ok /\ r.c = Q[n + 1]
    BY <2>2 DEF Behind
  <2>4. CASE n + 1 \notin Escaping(Q)
    <3>1. m < Len(ms) /\ ms[m + 1] = MarkOf(Q, n + 1)
      BY <1>2, <1>4, <2>1, <2>4
    <3>2. (n + 1) - 1 = n
      BY <2>1
    <3>3. CASE Q[n + 1] \in Syntax
      <4>1. ms[m + 1] = [c |-> Q[n + 1], of |-> "rule"]
        BY <1>2, <3>1, <3>2, <3>3 DEF MarkOf
      <4>2. ms[m + 1].c = Q[n + 1] /\ ms[m + 1].of = "rule"
        BY <4>1
      <4> QED BY <1>5, <2>3, <3>1, <3>3, <4>2
    <3>4. CASE Q[n + 1] \notin Syntax
      <4>1. ms[m + 1] = [c |-> Q[n + 1], of |-> "name"]
        BY <1>2, <3>1, <3>2, <3>4 DEF MarkOf
      <4>2. ms[m + 1].of = "name"
        BY <4>1
      <4> QED BY <1>5, <2>3, <3>1, <3>4, <4>2
    <3> QED BY <3>3, <3>4
  <2>5. CASE n + 1 \in Escaping(Q)
    <3>1. Q[n + 1] = Escape /\ n + 2 <= Len(Q) /\ n + 2 \notin Escaping(Q)
      BY <1>3, <2>1, <2>5, EscapingAre
    <3>2. n + 1 \in 0..(Len(Q) - 1) /\ (n + 1) + 1 = n + 2 /\ (n + 2) - 1 = n + 1
      BY <1>3, <2>1, <3>1
    <3>3. MarkAt(Q, n + 1) = m
      BY <1>2, <1>4, <2>1, <2>5
    <3>4. m < Len(ms) /\ ms[m + 1] = MarkOf(Q, n + 2)
      BY <1>4, <3>1, <3>2, <3>3
    <3>5. ms[m + 1] = [c |-> Q[n + 2], of |-> "name"]
      BY <2>5, <3>2, <3>4 DEF MarkOf
    <3>6. ms[m + 1].of = "name"
      BY <3>5
    <3> QED BY <1>5, <2>3, <3>1, <3>4, <3>6, SyntaxIs
  <2> QED BY <2>4, <2>5
<1> QED BY <1>6, <1>7

(* Where the tokenizer gets by reading on.                                 *)
Goes(r, m) == \/ r.ok /\ Facing(text, r, m)
              \/ ~r.ok /\ Dangling(text)

LEMMA RuleMark ==
  ASSUME text \in Seq(DepCharacters), NEW q, NEW m, Facing(text, q, m), NEW ms, ms = Marks(Plain(text)),
         m < Len(ms), ms[m + 1].of = "rule"
  PROVE  Goes(Read(q), m + 1)
<1>1. PICK Q : Q = Plain(text)
  OBVIOUS
<1>2. PICK n \in 0..Len(Q) : n \notin Escaping(Q) /\ MarkAt(Q, n) = m /\ Shows(text, q, n + 1)
  BY <1>1 DEF Facing
<1>3. Q \in Seq(DepCharacters) /\ Len(Q) \in Nat
  BY <1>1, PlainLayout
<1>4. /\ Len(ms) \in Nat /\ MarkAt(Q, Len(Q)) = Len(ms)
      /\ \A i \in 0..(Len(Q) - 1) :
           /\ i + 1 \in Escaping(Q) => MarkAt(Q, i + 1) = MarkAt(Q, i)
           /\ i + 1 \notin Escaping(Q) =>
                /\ MarkAt(Q, i + 1) = MarkAt(Q, i) + 1
                /\ ms[MarkAt(Q, i) + 1] = MarkOf(Q, i + 1)
  BY <1>1, <1>3, MarkLayout
<1>5. n # Len(Q)
  BY <1>2, <1>4
<1>6. n \in 0..(Len(Q) - 1) /\ n \in Nat /\ n + 1 # Len(Q) + 1 /\ n + 1 \in 0..Len(Q) /\ (n + 1) - 1 = n
  BY <1>3, <1>5
<1>7. PICK o \in 1..Len(text) :
        o \notin Escapes(text) /\ PlainAt(text, o) = n + 1 /\ q = Behind(o, Q[n + 1])
  BY <1>1, <1>2, <1>6 DEF Shows
<1>8. n + 1 \notin Escaping(Q)
  <2>1. SUFFICES ASSUME n + 1 \in Escaping(Q) PROVE FALSE
    OBVIOUS
  <2>2. n + 2 <= Len(Q) /\ n + 2 \notin Escaping(Q)
    BY <1>3, <1>6, <2>1, EscapingAre
  <2>3. n + 1 \in 0..(Len(Q) - 1) /\ (n + 1) + 1 = n + 2 /\ (n + 2) - 1 = n + 1
    BY <1>3, <1>6, <2>2
  <2>4. MarkAt(Q, n + 1) = m
    BY <1>2, <1>4, <1>6, <2>1
  <2>5. ms[m + 1] = MarkOf(Q, n + 2)
    BY <1>4, <2>2, <2>3, <2>4
  <2>6. ms[m + 1] = [c |-> Q[n + 2], of |-> "name"]
    BY <2>1, <2>3, <2>5 DEF MarkOf
  <2>7. ms[m + 1].of = "name"
    BY <2>6
  <2> QED BY <2>7
<1>9. MarkAt(Q, n + 1) = m + 1
  BY <1>2, <1>4, <1>6, <1>8
<1>10. PICK r : r = Read(q)
  OBVIOUS
<1>11. \/ r.ok /\ Shows(text, r, n + 1 + 1)
       \/ ~r.ok /\ Dangling(text)
  <2>1. o \in 0..Len(text)
    BY SeqFacts
  <2> QED BY <1>7, <1>10, <2>1, ReadNext
<1>12. r.ok => Facing(text, r, m + 1)
  BY <1>1, <1>6, <1>8, <1>9, <1>11 DEF Facing
<1> QED BY <1>10, <1>11, <1>12 DEF Goes

LEMMA NameMark ==
  ASSUME text \in Seq(DepCharacters), NEW p, NEW m, Facing(text, p, m), NEW ms, ms = Marks(Plain(text)),
         m < Len(ms), ms[m + 1].of = "name",
         NEW q, q = (IF p.c = Escape THEN Read(p) ELSE p), NEW r, r = (IF q.ok THEN Read(q) ELSE q)
  PROVE  Goes(r, m + 1) /\ (r.ok => q.c = ms[m + 1].c)
<1>1. PICK Q : Q = Plain(text)
  OBVIOUS
<1>2. PICK n \in 0..Len(Q) : n \notin Escaping(Q) /\ MarkAt(Q, n) = m /\ Shows(text, p, n + 1)
  BY <1>1 DEF Facing
<1>3. Q \in Seq(DepCharacters) /\ Len(Q) \in Nat /\ Len(text) \in Nat
  BY <1>1, PlainLayout, SeqFacts
<1>4. /\ Len(ms) \in Nat /\ MarkAt(Q, Len(Q)) = Len(ms)
      /\ \A i \in 0..(Len(Q) - 1) :
           /\ i + 1 \in Escaping(Q) => MarkAt(Q, i + 1) = MarkAt(Q, i)
           /\ i + 1 \notin Escaping(Q) =>
                /\ MarkAt(Q, i + 1) = MarkAt(Q, i) + 1
                /\ ms[MarkAt(Q, i) + 1] = MarkOf(Q, i + 1)
  BY <1>1, <1>3, MarkLayout
<1>5. n # Len(Q)
  BY <1>2, <1>4
<1>6. n \in 0..(Len(Q) - 1) /\ n \in Nat /\ n + 1 # Len(Q) + 1 /\ n + 1 \in 0..Len(Q) /\ (n + 1) - 1 = n
  BY <1>3, <1>5
<1>7. PICK o \in 1..Len(text) :
        o \notin Escapes(text) /\ PlainAt(text, o) = n + 1 /\ p = Behind(o, Q[n + 1])
  BY <1>1, <1>2, <1>6 DEF Shows
<1>8. p.c = Q[n + 1] /\ p.ok
  BY <1>7 DEF Behind
<1>9. o \in 0..Len(text)
  BY <1>3
<1>10. PICK u : u = Read(p)
  OBVIOUS
<1>11. /\ \/ u.ok /\ Shows(text, u, n + 1 + 1)
          \/ ~u.ok /\ Dangling(text)
       /\ u.ok /\ n + 1 = Len(Q) => u = Ended(text, Q[n + 1])
  BY <1>1, <1>7, <1>9, <1>10, ReadNext
<1>12. CASE n + 1 \notin Escaping(Q)
  <2>1. MarkAt(Q, n + 1) = m + 1 /\ ms[m + 1] = MarkOf(Q, n + 1)
    BY <1>2, <1>4, <1>6, <1>12
  <2>2. ms[m + 1].c = Q[n + 1]
    BY <2>1 DEF MarkOf
  <2>3. u.ok => Facing(text, u, m + 1)
    BY <1>1, <1>6, <1>11, <1>12, <2>1 DEF Facing
  <2>4. CASE Q[n + 1] # Escape
    <3>1. q = p /\ r = u
      BY <1>8, <1>10, <2>4
    <3> QED BY <1>8, <1>11, <2>2, <2>3, <3>1 DEF Goes
  <2>5. CASE Q[n + 1] = Escape
    <3>1. q = u
      BY <1>8, <1>10, <2>5
    <3>2. n + 1 = Len(Q)
      BY <1>2, <1>3, <1>6, <1>12, <2>5, EscapingAre
    <3>3. CASE ~u.ok
      BY <1>11, <3>1, <3>3 DEF Goes
    <3>4. CASE u.ok
      <4>1. u = Ended(text, Q[n + 1])
        BY <1>11, <3>2, <3>4
      <4>2. r = u
        BY <1>3, <3>1, <3>4, <4>1, ReadAtEnd
      <4>3. u.c = Q[n + 1]
        BY <4>1 DEF Ended
      <4> QED BY <2>2, <2>3, <3>1, <3>4, <4>2, <4>3 DEF Goes
    <3> QED BY <3>3, <3>4
  <2> QED BY <2>4, <2>5
<1>13. CASE n + 1 \in Escaping(Q)
  <2>1. Q[n + 1] = Escape /\ n + 2 <= Len(Q) /\ n + 2 \notin Escaping(Q)
    BY <1>3, <1>6, <1>13, EscapingAre
  <2>2. /\ n + 1 \in 0..(Len(Q) - 1) /\ (n + 1) + 1 = n + 2 /\ (n + 2) - 1 = n + 1
        /\ n + 2 \in 1..Len(Q) /\ n + 2 \in 0..Len(Q) /\ n + 2 # Len(Q) + 1
    BY <1>3, <1>6, <2>1
  <2>3. MarkAt(Q, n + 1) = m
    BY <1>2, <1>4, <1>6, <1>13
  <2>4. MarkAt(Q, n + 2) = m + 1 /\ ms[m + 1] = MarkOf(Q, n + 2)
    BY <1>4, <2>1, <2>2, <2>3
  <2>5. ms[m + 1].c = Q[n + 2]
    BY <2>4 DEF MarkOf
  <2>6. q = u
    BY <1>8, <1>10, <2>1
  <2>7. CASE ~u.ok
    BY <1>11, <2>6, <2>7 DEF Goes
  <2>8. CASE u.ok
    <3>1. Shows(text, u, n + 2)
      BY <1>11, <2>2, <2>8
    <3>2. PICK l \in 1..Len(text) :
            l \notin Escapes(text) /\ PlainAt(text, l) = n + 2 /\ u = Behind(l, Q[n + 2])
      BY <1>1, <2>2, <3>1 DEF Shows
    <3>3. u.c = Q[n + 2] /\ r = Read(u) /\ l \in 0..Len(text)
      <4>1. u.c = Q[n + 2]
        BY <3>2 DEF Behind
      <4>2. r = Read(u)
        BY <2>6, <2>8
      <4>3. l \in 0..Len(text)
        BY <1>3
      <4> QED BY <4>1, <4>2, <4>3
    <3>4. \/ r.ok /\ Shows(text, r, n + 2 + 1)
          \/ ~r.ok /\ Dangling(text)
      BY <3>2, <3>3, ReadNext
    <3>5. r.ok => Facing(text, r, m + 1)
      BY <1>1, <2>1, <2>2, <2>4, <3>4 DEF Facing
    <3> QED BY <2>5, <2>6, <3>3, <3>4, <3>5 DEF Goes
  <2> QED BY <2>7, <2>8
<1> QED BY <1>12, <1>13

LEMMA FacingInit ==
  ASSUME text \in Seq(DepCharacters), NEW r, r = Read(Behind(0, Space))
  PROVE  Goes(r, 0)
<1>1. 0 \in 0..Len(text) /\ 0 \notin Escapes(text) /\ PlainAt(text, 0) = 0
  BY SeqFacts, EscapesAre, PlainLayout
<1>2. \/ r.ok /\ Shows(text, r, 0 + 1)
      \/ ~r.ok /\ Dangling(text)
  BY <1>1, ReadNext
<1>3. Plain(text) \in Seq(DepCharacters) /\ Len(Plain(text)) \in Nat
  BY PlainLayout
<1>4. 0 \in 0..Len(Plain(text)) /\ 0 \notin Escaping(Plain(text)) /\ MarkAt(Plain(text), 0) = 0
  BY <1>3, EscapingAre, MarkLayout
<1>5. r.ok => Facing(text, r, 0)
  BY <1>2, <1>4 DEF Facing
<1> QED BY <1>2, <1>5 DEF Goes

-----------------------------------------------------------------------------
(* The names of marks, and how many of them end among the first k marks.   *)
NamePieces(ms) == [k \in DOMAIN ms |-> IF EndsName(ms, k) THEN <<NameUpTo(ms, k)>> ELSE <<>>]
NamesTo(ms, k) == Place(NamePieces(ms), k)
NameMarks(ms)  == {i \in DOMAIN ms : ms[i].of = "name"}

LEMMA NameUpToIs ==
  ASSUME NEW ms \in Seq(AllMarks), NEW k \in 1..Len(ms)
  PROVE  /\ NameUpTo(ms, k) \in Seq(DepCharacters)
         /\ \A s \in 0..k : (s = 0 \/ ms[s].of # "name") /\ (\A i \in (s + 1)..k : ms[i].of = "name") =>
              NameUpTo(ms, k) = [j \in 1..(k - s) |-> ms[s + j].c]
<1>0. Len(ms) \in Nat /\ DOMAIN ms = 1..Len(ms) /\ k \in Nat /\ \A i \in 1..Len(ms) : ms[i] \in AllMarks
  BY SeqFacts
<1>1. PICK width : width = Cardinality(RunTo(NameMarks(ms), k))
  OBVIOUS
<1>2. {j \in 1..k : \A i \in j..k : ms[i].of = "name"} = RunTo(NameMarks(ms), k)
  BY <1>0 DEF RunTo, NameMarks
<1>3. NameUpTo(ms, k) = [j \in 1..width |-> ms[k - width + j].c]
  BY <1>1, <1>2 DEF NameUpTo
<1>4. width \in Nat /\ width <= k
  <2>1. IsFiniteSet(1..k) /\ Cardinality(1..k) = k
    BY <1>0, FS_Interval
  <2>2. RunTo(NameMarks(ms), k) \subseteq 1..k
    BY DEF RunTo
  <2> QED BY <1>0, <1>1, <2>1, <2>2, FS_Subset, FS_CardinalityType
<1>5. \A j \in 1..width : ms[k - width + j].c \in DepCharacters
  <2>1. \A j \in 1..width : k - width + j \in 1..Len(ms)
    BY <1>0, <1>4
  <2> QED BY <1>0, <2>1 DEF AllMarks, DepCharacters
<1>6. NameUpTo(ms, k) \in Seq(DepCharacters)
  BY <1>3, <1>4, <1>5
<1>7. ASSUME NEW s \in 0..k, s = 0 \/ ms[s].of # "name", \A i \in (s + 1)..k : ms[i].of = "name"
      PROVE  NameUpTo(ms, k) = [j \in 1..(k - s) |-> ms[s + j].c]
  <2>1. RunTo(NameMarks(ms), k) = (s + 1)..k
    <3>1. ASSUME NEW j \in 1..k, j \notin (s + 1)..k
          PROVE  ~ \A i \in j..k : ms[i].of = "name"
      <4>1. s \in j..k /\ s # 0
        BY <1>0, <3>1
      <4> QED BY <1>7, <4>1
    <3>2. ASSUME NEW j \in (s + 1)..k
          PROVE  j \in 1..k /\ \A i \in j..k : i \in (s + 1)..k
      BY <1>0, <3>2
    <3>3. PICK run : run = RunTo(NameMarks(ms), k)
      OBVIOUS
    <3>4. \A j : j \in run <=> j \in 1..k /\ \A i \in j..k : ms[i].of = "name"
      BY <1>2, <3>3
    <3>5. \A j : j \in run <=> j \in (s + 1)..k
      <4>1. ASSUME NEW j \in (s + 1)..k PROVE j \in run
        BY <1>7, <3>2, <3>4
      <4>2. ASSUME NEW j \in run PROVE j \in (s + 1)..k
        BY <3>1, <3>4
      <4> QED BY <4>1, <4>2
    <3> QED BY <3>3, <3>5
  <2>2. width = k - s
    <3>1. Cardinality((s + 1)..k) = IF s + 1 > k THEN 0 ELSE k - (s + 1) + 1
      BY <1>0, FS_Interval
    <3> QED BY <1>0, <1>1, <2>1, <3>1
  <2>3. k - width = s
    BY <1>0, <2>2
  <2> QED BY <1>3, <2>2, <2>3
<1> QED BY <1>6, <1>7

LEMMA NamesLayout ==
  ASSUME NEW ms \in Seq(AllMarks)
  PROVE  /\ Names(ms) \in Seq(Seq(DepCharacters)) /\ Len(Names(ms)) \in Nat
         /\ NamesTo(ms, 0) = 0 /\ NamesTo(ms, Len(ms)) = Len(Names(ms))
         /\ \A k \in 0..Len(ms) : NamesTo(ms, k) \in 0..Len(Names(ms))
         /\ \A k \in 0..(Len(ms) - 1) :
              /\ ~EndsName(ms, k + 1) => NamesTo(ms, k + 1) = NamesTo(ms, k)
              /\ EndsName(ms, k + 1) =>
                   /\ NamesTo(ms, k + 1) = NamesTo(ms, k) + 1
                   /\ NamesTo(ms, k) < Len(Names(ms))
                   /\ Names(ms)[NamesTo(ms, k) + 1] = NameUpTo(ms, k + 1)
<1>0. Len(ms) \in Nat /\ DOMAIN ms = 1..Len(ms)
  BY SeqFacts
<1>1. PICK m, D, x, ss :
        /\ m = Len(ms) /\ D = {k \in 1..m : ~EndsName(ms, k)} /\ ss = NamePieces(ms)
        /\ x = [i \in 1..m |-> NameUpTo(ms, i)]
  OBVIOUS
<1>2. m \in Nat /\ \A i \in 1..m : x[i] = NameUpTo(ms, i) /\ x[i] \in Seq(DepCharacters)
  BY <1>0, <1>1, NameUpToIs
<1>3. ss = [i \in 1..m |-> IF i \in D THEN <<>> ELSE <<x[i]>>]
  <2>1. ss = [i \in 1..m |-> IF EndsName(ms, i) THEN <<NameUpTo(ms, i)>> ELSE <<>>]
    BY <1>0, <1>1 DEF NamePieces
  <2>2. \A i \in 1..m : (IF EndsName(ms, i) THEN <<NameUpTo(ms, i)>> ELSE <<>>) =
                        (IF i \in D THEN <<>> ELSE <<x[i]>>)
    BY <1>1, <1>2
  <2> QED BY <2>1, <2>2
<1>4. IsThinned(Seq(DepCharacters), ss, m, D, x)
  BY <1>2, <1>3 DEF IsThinned
<1>5. Names(ms) = FlattenSeq(ss) /\ \A k : NamesTo(ms, k) = Place(ss, k)
  BY <1>1 DEF Names, NamePieces, NamesTo
<1>6. /\ FlattenSeq(ss) \in Seq(Seq(DepCharacters)) /\ Len(FlattenSeq(ss)) \in Nat
      /\ Place(ss, 0) = 0 /\ Place(ss, m) = Len(FlattenSeq(ss))
      /\ \A i \in 0..m : Place(ss, i) \in 0..Len(FlattenSeq(ss))
      /\ \A i \in 0..(m - 1) :
           /\ i + 1 \in D => Place(ss, i + 1) = Place(ss, i)
           /\ i + 1 \notin D => /\ Place(ss, i + 1) = Place(ss, i) + 1
                                /\ Place(ss, i) < Len(FlattenSeq(ss))
                                /\ FlattenSeq(ss)[Place(ss, i) + 1] = x[i + 1]
  BY <1>4, Thinned
<1>7. \A i \in 0..(m - 1) : i + 1 \in 1..m /\ (i + 1 \in D <=> ~EndsName(ms, i + 1))
  BY <1>1, <1>2
<1> QED BY <1>1, <1>2, <1>5, <1>6, <1>7

(* Every name ends before a mark that is not part of one.                  *)
LEMMA NamesEnd ==
  ASSUME NEW ms \in Seq(AllMarks), NEW k \in 0..Len(ms), k = Len(ms) \/ ms[k + 1].of # "name",
         NEW j \in 1..k, ms[j].of = "name"
  PROVE  \E e \in j..k : EndsName(ms, e)
<1>0. Len(ms) \in Nat /\ k \in Nat /\ j \in Nat /\ k <= Len(ms) /\ j <= k
  BY SeqFacts
<1>1. SUFFICES ASSUME \A e \in j..k : ~EndsName(ms, e) PROVE FALSE
  OBVIOUS
<1>2. PICK S : S = {n \in Nat : j + n <= k => ms[j + n].of = "name"}
  OBVIOUS
<1>3. S \in SUBSET Nat
  BY <1>2
<1>4. ASSUME NEW n \in Nat, \A m \in 0..(n - 1) : m \in S PROVE n \in S
  <2>1. CASE n = 0
    BY <1>0, <1>2, <2>1
  <2>2. CASE n # 0 /\ j + n <= k
    <3>1. n - 1 \in 0..(n - 1) /\ j + (n - 1) \in j..k /\ (j + (n - 1)) + 1 = j + n /\ n - 1 \in Nat
      BY <1>0, <2>2
    <3>2. ms[j + (n - 1)].of = "name"
      BY <1>2, <1>4, <3>1
    <3>3. ~EndsName(ms, j + (n - 1))
      BY <1>1, <3>1
    <3>4. ms[j + n].of = "name"
      BY <3>1, <3>2, <3>3 DEF EndsName
    <3> QED BY <1>2, <3>4
  <2>3. CASE ~(j + n <= k)
    BY <1>2, <2>3
  <2> QED BY <2>1, <2>2, <2>3
<1>5. S = Nat
  BY <1>3, <1>4, Induction
<1>6. k - j \in Nat /\ j + (k - j) = k /\ k \in j..k
  BY <1>0
<1>7. ms[k].of = "name"
  <2>1. \A n \in S : j + n <= k => ms[j + n].of = "name"
    BY <1>2
  <2>2. PICK n \in Nat : n = k - j
    BY <1>6
  <2>3. j + n = k /\ n \in S /\ k <= k
    BY <1>0, <1>5, <1>6, <2>2
  <2> QED BY <2>1, <2>3
<1>8. EndsName(ms, k)
  BY <1>0, <1>7 DEF EndsName
<1> QED BY <1>1, <1>6, <1>8

-----------------------------------------------------------------------------
(* What the first k marks of ms are in each state of the handler, and what *)
(* the handler's data d is then.                                           *)
NoColon(ms, k)       == \A j \in 1..k : ~Is(ms[j], Colon)
NoName(ms, k)        == \A j \in 1..k : ~EndsName(ms, j)
NewLinesFirst(ms, k) == \A i, j \in 1..k : Is(ms[j], NewLine) /\ ms[i].of = "name" => j < i
OneName(ms, k)       == NewLinesFirst(ms, k) /\ \E e \in 1..k : \A j \in 1..k : EndsName(ms, j) <=> j = e
ColonAmong(ms, c, k) == c \in 1..k /\ OneName(ms, c - 1) /\ \A j \in 1..k : Is(ms[j], Colon) <=> j = c
HasNames(d, ms, k)   ==
  NamesTo(ms, k) >= 1 /\ d = [target |-> Names(ms)[1], deps |-> SubSeq(Names(ms), 2, NamesTo(ms, k))]

BeforeTarget(d, ms, k) ==
  NoColon(ms, k) /\ NoName(ms, k) /\ NewLinesFirst(ms, k) /\ NamesTo(ms, k) = 0 /\ d = NoData
BehindTarget(d, ms, k) ==
  NoColon(ms, k) /\ OneName(ms, k) /\ HasNames(d, ms, k)
AmongDeps(d, ms, k) ==
  /\ \E c \in 1..k : ColonAmong(ms, c, k) /\ \A j \in (c + 1)..k : ~Is(ms[j], NewLine)
  /\ HasNames(d, ms, k)
BehindRule(d, ms, k) ==
  /\ \E c \in 1..k : \E n \in (c + 1)..k :
       /\ ColonAmong(ms, c, k)
       /\ \A j \in (c + 1)..k : Is(ms[j], NewLine) <=> j = n
       /\ \A j \in (n + 1)..k : Is(ms[j], Space) \/ (ms[j].of = "name" /\ ~EndsName(ms, j))
  /\ HasNames(d, ms, k)

Handled(s, d, ms, k) ==
  \/ s = "read_target" /\ BeforeTarget(d, ms, k)
  \/ s = "read_colon" /\ BehindTarget(d, ms, k)
  \/ s = "read_dep" /\ AmongDeps(d, ms, k)
  \/ s = "done" /\ BehindRule(d, ms, k)

Refused(ms) == ~Blank(ms) /\ ~HasRule(ms)

LEMMA MarkFacts ==
  ASSUME NEW ms \in Seq(AllMarks)
  PROVE  /\ Len(ms) \in Nat /\ DOMAIN ms = 1..Len(ms)
         /\ \A k \in 1..Len(ms) :
              /\ Is(ms[k], Space) => ~Is(ms[k], Colon) /\ ~Is(ms[k], NewLine) /\ ms[k].of # "name"
              /\ Is(ms[k], Colon) => ~Is(ms[k], NewLine) /\ ms[k].of # "name"
              /\ Is(ms[k], NewLine) => ms[k].of # "name"
              /\ EndsName(ms, k) => ms[k].of = "name"
              /\ ms[k].of # "name" =>
                   ms[k].of = "rule" /\ (Is(ms[k], Space) \/ Is(ms[k], Colon) \/ Is(ms[k], NewLine))
<1>1. Len(ms) \in Nat /\ DOMAIN ms = 1..Len(ms) /\ \A k \in 1..Len(ms) : ms[k] \in AllMarks
  BY SeqFacts
<1>2. ASSUME NEW k \in 1..Len(ms) PROVE ms[k].of = "name" \/ (ms[k].of = "rule" /\ ms[k].c \in Syntax)
  <2>1. PICK u : u = ms[k]
    OBVIOUS
  <2>2. u \in [c : DepCharacters, of : {"name"}] \/ u \in [c : Syntax, of : {"rule"}]
    BY <1>1, <2>1 DEF AllMarks
  <2>3. u.of = "name" \/ (u.of = "rule" /\ u.c \in Syntax)
    BY <2>2
  <2> QED BY <2>1, <2>3
<1> QED BY <1>1, <1>2, SyntaxIs DEF Is, EndsName, Syntax

(* A space, or part of a name that goes on, changes nothing.               *)
LEMMA MarkPassed ==
  ASSUME NEW ms \in Seq(AllMarks), NEW k \in 0..(Len(ms) - 1), NEW s, NEW d, Handled(s, d, ms, k),
         Is(ms[k + 1], Space) \/ (ms[k + 1].of = "name" /\ ~EndsName(ms, k + 1))
  PROVE  Handled(s, d, ms, k + 1)
<1>1. /\ k \in Nat /\ k + 1 \in 1..Len(ms) /\ \A j \in 1..(k + 1) : j \in 1..k \/ j = k + 1
      /\ \A c \in 1..k : \A j \in (c + 1)..(k + 1) : j \in (c + 1)..k \/ j = k + 1
      /\ \A c \in 1..k : c \in 1..(k + 1)
      /\ \A c \in 1..k : \A n \in (c + 1)..k : n \in (c + 1)..(k + 1) /\ n \in 1..k
  BY MarkFacts
<1>2. /\ ~Is(ms[k + 1], Colon) /\ ~Is(ms[k + 1], NewLine) /\ ~EndsName(ms, k + 1)
      /\ NamesTo(ms, k + 1) = NamesTo(ms, k)
  BY <1>1, MarkFacts, NamesLayout
<1>3. NoColon(ms, k) => NoColon(ms, k + 1)
  BY <1>1, <1>2 DEF NoColon
<1>4. NoName(ms, k) => NoName(ms, k + 1)
  BY <1>1, <1>2 DEF NoName
<1>5. NewLinesFirst(ms, k) => NewLinesFirst(ms, k + 1)
  BY <1>1, <1>2 DEF NewLinesFirst
<1>6. OneName(ms, k) => OneName(ms, k + 1)
  BY <1>1, <1>2, <1>5 DEF OneName
<1>7. \A c : ColonAmong(ms, c, k) => ColonAmong(ms, c, k + 1)
  BY <1>1, <1>2 DEF ColonAmong
<1>8. HasNames(d, ms, k) => HasNames(d, ms, k + 1)
  BY <1>2 DEF HasNames
<1>9. BeforeTarget(d, ms, k) => BeforeTarget(d, ms, k + 1)
  BY <1>2, <1>3, <1>4, <1>5 DEF BeforeTarget
<1>10. BehindTarget(d, ms, k) => BehindTarget(d, ms, k + 1)
  BY <1>3, <1>6, <1>8 DEF BehindTarget
<1>11. AmongDeps(d, ms, k) => AmongDeps(d, ms, k + 1)
  BY <1>1, <1>2, <1>7, <1>8 DEF AmongDeps
<1>12. BehindRule(d, ms, k) => BehindRule(d, ms, k + 1)
  <2>1. SUFFICES ASSUME BehindRule(d, ms, k) PROVE BehindRule(d, ms, k + 1)
    OBVIOUS
  <2>2. PICK c \in 1..k : \E n \in (c + 1)..k :
          /\ ColonAmong(ms, c, k)
          /\ \A j \in (c + 1)..k : Is(ms[j], NewLine) <=> j = n
          /\ \A j \in (n + 1)..k : Is(ms[j], Space) \/ (ms[j].of = "name" /\ ~EndsName(ms, j))
    BY <2>1 DEF BehindRule
  <2>3. PICK n \in (c + 1)..k :
          /\ ColonAmong(ms, c, k)
          /\ \A j \in (c + 1)..k : Is(ms[j], NewLine) <=> j = n
          /\ \A j \in (n + 1)..k : Is(ms[j], Space) \/ (ms[j].of = "name" /\ ~EndsName(ms, j))
    BY <2>2
  <2>4. c \in 1..(k + 1) /\ n \in (c + 1)..(k + 1) /\ n # k + 1 /\ n \in 1..k
    BY <1>1
  <2>5. \A j \in (c + 1)..(k + 1) : Is(ms[j], NewLine) <=> j = n
    BY <1>1, <1>2, <2>3, <2>4
  <2>6. \A j \in (n + 1)..(k + 1) : Is(ms[j], Space) \/ (ms[j].of = "name" /\ ~EndsName(ms, j))
    BY <1>1, <2>3, <2>4, <1>2
  <2> QED BY <1>7, <1>8, <2>1, <2>3, <2>4, <2>5, <2>6 DEF BehindRule
<1> QED BY <1>9, <1>10, <1>11, <1>12 DEF Handled

(* A colon ends the target.                                                *)
LEMMA ColonPassed ==
  ASSUME NEW ms \in Seq(AllMarks), NEW k \in 0..(Len(ms) - 1), NEW d, BehindTarget(d, ms, k),
         Is(ms[k + 1], Colon)
  PROVE  AmongDeps(d, ms, k + 1)
<1>1. k + 1 \in 1..Len(ms) /\ k + 1 \in 1..(k + 1) /\ (k + 1) - 1 = k
  BY MarkFacts
<1>2. ~EndsName(ms, k + 1) /\ NamesTo(ms, k + 1) = NamesTo(ms, k)
  BY <1>1, MarkFacts, NamesLayout
<1>3. \A j \in 1..(k + 1) : Is(ms[j], Colon) <=> j = k + 1
  BY <1>1 DEF BehindTarget, NoColon
<1>4. ColonAmong(ms, k + 1, k + 1)
  BY <1>1, <1>3 DEF BehindTarget, ColonAmong
<1>5. \A j \in ((k + 1) + 1)..(k + 1) : FALSE
  BY <1>1
<1>6. HasNames(d, ms, k + 1)
  BY <1>2 DEF BehindTarget, HasNames
<1> QED BY <1>1, <1>4, <1>5, <1>6 DEF AmongDeps

(* A newline is skipped in front of the target and ends the dependencies.  *)
LEMMA NewLinePassed ==
  ASSUME NEW ms \in Seq(AllMarks), NEW k \in 0..(Len(ms) - 1), NEW d, Is(ms[k + 1], NewLine)
  PROVE  /\ BeforeTarget(d, ms, k) => BeforeTarget(d, ms, k + 1)
         /\ AmongDeps(d, ms, k) => BehindRule(d, ms, k + 1)
<1>1. /\ k \in Nat /\ k + 1 \in 1..Len(ms) /\ k \in 0..Len(ms)
      /\ \A j \in 1..(k + 1) : j \in 1..k \/ j = k + 1
  BY MarkFacts
<1>2. /\ ~Is(ms[k + 1], Colon) /\ ms[k + 1].of # "name" /\ ~EndsName(ms, k + 1)
      /\ NamesTo(ms, k + 1) = NamesTo(ms, k)
  BY <1>1, MarkFacts, NamesLayout
<1>3. ASSUME BeforeTarget(d, ms, k) PROVE BeforeTarget(d, ms, k + 1)
  <2>1. NoColon(ms, k + 1) /\ NoName(ms, k + 1)
    BY <1>1, <1>2, <1>3 DEF BeforeTarget, NoColon, NoName
  <2>2. ASSUME NEW i \in 1..k PROVE ms[i].of # "name"
    <3>1. SUFFICES ASSUME ms[i].of = "name" PROVE FALSE
      OBVIOUS
    <3>2. PICK e \in i..k : EndsName(ms, e)
      BY <1>1, <1>2, <3>1, NamesEnd
    <3>3. e \in 1..k
      BY <1>1
    <3> QED BY <1>3, <3>2, <3>3 DEF BeforeTarget, NoName
  <2>3. NewLinesFirst(ms, k + 1)
    BY <1>1, <1>2, <2>2 DEF NewLinesFirst
  <2> QED BY <1>2, <1>3, <2>1, <2>3 DEF BeforeTarget
<1>4. ASSUME AmongDeps(d, ms, k) PROVE BehindRule(d, ms, k + 1)
  <2>1. PICK c \in 1..k : ColonAmong(ms, c, k) /\ \A j \in (c + 1)..k : ~Is(ms[j], NewLine)
    BY <1>4 DEF AmongDeps
  <2>2. /\ c \in 1..(k + 1) /\ k + 1 \in (c + 1)..(k + 1) /\ c # k + 1
        /\ \A j \in (c + 1)..(k + 1) : j \in (c + 1)..k \/ j = k + 1
        /\ \A j \in ((k + 1) + 1)..(k + 1) : FALSE
    BY <1>1
  <2>3. ColonAmong(ms, c, k + 1)
    BY <1>1, <1>2, <2>1, <2>2 DEF ColonAmong
  <2>4. \A j \in (c + 1)..(k + 1) : Is(ms[j], NewLine) <=> j = k + 1
    <3>1. k + 1 \notin (c + 1)..k
      BY <1>1
    <3> QED BY <2>1, <2>2, <3>1
  <2>5. HasNames(d, ms, k + 1)
    BY <1>2, <1>4 DEF AmongDeps, HasNames
  <2> QED BY <2>2, <2>3, <2>4, <2>5 DEF BehindRule
<1> QED BY <1>3, <1>4

(* A name is the target or one more dependency.                            *)
LEMMA NamePassed ==
  ASSUME NEW ms \in Seq(AllMarks), NEW k \in 0..(Len(ms) - 1), NEW d, EndsName(ms, k + 1),
         NEW n, n = NameUpTo(ms, k + 1)
  PROVE  /\ BeforeTarget(d, ms, k) => BehindTarget([target |-> n, deps |-> <<>>], ms, k + 1)
         /\ AmongDeps(d, ms, k) => AmongDeps([d EXCEPT !.deps = Append(@, n)], ms, k + 1)
<1>1. /\ k \in Nat /\ k + 1 \in 1..Len(ms) /\ k + 1 \in 1..(k + 1) /\ k \in 0..Len(ms) /\ k + 1 \in 0..Len(ms)
      /\ \A j \in 1..(k + 1) : j \in 1..k \/ j = k + 1
  BY MarkFacts
<1>2. ms[k + 1].of = "name" /\ ~Is(ms[k + 1], Colon) /\ ~Is(ms[k + 1], NewLine)
  BY <1>1, MarkFacts
<1>3. PICK ns, a : ns = Names(ms) /\ a = NamesTo(ms, k)
  OBVIOUS
<1>4. /\ ns \in Seq(Seq(DepCharacters)) /\ Len(ns) \in Nat /\ a \in Nat /\ a < Len(ns)
      /\ NamesTo(ms, k + 1) = a + 1 /\ ns[a + 1] = n
  BY <1>1, <1>3, NamesLayout
<1>5. ASSUME BeforeTarget(d, ms, k) PROVE BehindTarget([target |-> n, deps |-> <<>>], ms, k + 1)
  <2>1. NoColon(ms, k + 1)
    BY <1>1, <1>2, <1>5 DEF BeforeTarget, NoColon
  <2>2. NewLinesFirst(ms, k + 1)
    BY <1>1, <1>2, <1>5 DEF BeforeTarget, NewLinesFirst
  <2>3. \A j \in 1..(k + 1) : EndsName(ms, j) <=> j = k + 1
    BY <1>1, <1>5 DEF BeforeTarget, NoName
  <2>4. OneName(ms, k + 1)
    BY <1>1, <2>2, <2>3 DEF OneName
  <2>5. a = 0
    BY <1>3, <1>5 DEF BeforeTarget
  <2>6. SubSeq(ns, 2, 1) = <<>> /\ ns[1] = n /\ NamesTo(ms, k + 1) = 1
    BY <1>4, <2>5
  <2>7. HasNames([target |-> n, deps |-> <<>>], ms, k + 1)
    BY <1>3, <2>6 DEF HasNames
  <2> QED BY <2>1, <2>4, <2>7 DEF BehindTarget
<1>6. ASSUME AmongDeps(d, ms, k) PROVE AmongDeps([d EXCEPT !.deps = Append(@, n)], ms, k + 1)
  <2>1. PICK c \in 1..k : ColonAmong(ms, c, k) /\ \A j \in (c + 1)..k : ~Is(ms[j], NewLine)
    BY <1>6 DEF AmongDeps
  <2>2. c \in 1..(k + 1) /\ c # k + 1 /\ \A j \in (c + 1)..(k + 1) : j \in (c + 1)..k \/ j = k + 1
    BY <1>1
  <2>3. ColonAmong(ms, c, k + 1)
    BY <1>1, <1>2, <2>1, <2>2 DEF ColonAmong
  <2>4. \A j \in (c + 1)..(k + 1) : ~Is(ms[j], NewLine)
    BY <1>2, <2>1, <2>2
  <2>5. a >= 1 /\ d = [target |-> ns[1], deps |-> SubSeq(ns, 2, a)]
    BY <1>3, <1>6 DEF AmongDeps, HasNames
  <2>6. [d EXCEPT !.deps = Append(@, n)] = [target |-> ns[1], deps |-> Append(SubSeq(ns, 2, a), n)]
    <3>1. PICK t, b : t = ns[1] /\ b = SubSeq(ns, 2, a)
      OBVIOUS
    <3>2. d = [target |-> t, deps |-> b]
      BY <2>5, <3>1
    <3>3. [[target |-> t, deps |-> b] EXCEPT !.deps = Append(@, n)] = [target |-> t, deps |-> Append(b, n)]
      OBVIOUS
    <3> QED BY <3>1, <3>2, <3>3
  <2>7. Append(SubSeq(ns, 2, a), n) = SubSeq(ns, 2, a + 1)
    BY <1>4, <2>5
  <2>8. HasNames([d EXCEPT !.deps = Append(@, n)], ms, k + 1)
    <3>1. PICK e : e = [d EXCEPT !.deps = Append(@, n)]
      OBVIOUS
    <3>2. e = [target |-> ns[1], deps |-> SubSeq(ns, 2, a + 1)]
      BY <2>6, <2>7, <3>1
    <3>3. HasNames(e, ms, k + 1)
      <4>1. PICK b : b = NamesTo(ms, k + 1)
        OBVIOUS
      <4>2. b = a + 1 /\ b >= 1
        BY <1>4, <4>1
      <4>3. e = [target |-> Names(ms)[1], deps |-> SubSeq(Names(ms), 2, b)]
        BY <1>3, <3>2, <4>2
      <4> QED BY <4>1, <4>2, <4>3 DEF HasNames
    <3> QED BY <3>1, <3>3
  <2> QED BY <2>2, <2>3, <2>4, <2>8 DEF AmongDeps
<1> QED BY <1>5, <1>6

-----------------------------------------------------------------------------
(* A rule whose colon is at c.                                             *)
RuleAt(ms, c) ==
  /\ \A j \in 1..Len(ms) : Is(ms[j], Colon) <=> j = c
  /\ \E e \in 1..(c - 1) : \A j \in 1..(c - 1) : EndsName(ms, j) <=> j = e
  /\ \A i, j \in 1..(c - 1) : Is(ms[i], NewLine) /\ ms[j].of = "name" => i < j
  /\ \A i, j \in (c + 1)..Len(ms) : Is(ms[i], NewLine) /\ i < j => Is(ms[j], Space)

LEMMA RuleIs ==
  ASSUME NEW ms \in Seq(AllMarks)
  PROVE  HasRule(ms) <=> \E c \in 1..Len(ms) : RuleAt(ms, c)
<1>1. DOMAIN ms = 1..Len(ms)
  BY SeqFacts
<1> QED BY <1>1 DEF HasRule, RuleAt

LEMMA NotBlank ==
  ASSUME NEW ms \in Seq(AllMarks), NEW k \in 1..Len(ms), Is(ms[k], Colon) \/ EndsName(ms, k)
  PROVE  ~Blank(ms)
<1>1. ms[k].of = "name" => ~Is(ms[k], Space) /\ ~Is(ms[k], NewLine)
  BY MarkFacts
<1>2. ~Is(ms[k], Space) /\ ~Is(ms[k], NewLine)
  BY <1>1, MarkFacts
<1>3. k \in DOMAIN ms
  BY MarkFacts
<1> QED BY <1>2, <1>3 DEF Blank

LEMMA ColonRefused ==
  ASSUME NEW ms \in Seq(AllMarks), NEW k \in 0..(Len(ms) - 1), NEW s, NEW d, Handled(s, d, ms, k),
         Is(ms[k + 1], Colon), s # "read_colon"
  PROVE  Refused(ms)
<1>1. k \in Nat /\ k + 1 \in 1..Len(ms) /\ k + 1 \notin 1..k /\ (k + 1) - 1 = k /\ \A c \in 1..k : c \in 1..Len(ms)
  BY MarkFacts
<1>2. ~Blank(ms)
  BY <1>1, NotBlank
<1>3. SUFFICES ASSUME NEW c \in 1..Len(ms), RuleAt(ms, c) PROVE FALSE
  BY <1>2, RuleIs DEF Refused
<1>4. c = k + 1
  BY <1>1, <1>3 DEF RuleAt
<1>5. \E e \in 1..k : EndsName(ms, e)
  BY <1>1, <1>3, <1>4 DEF RuleAt
<1>6. ~BeforeTarget(d, ms, k)
  BY <1>5 DEF BeforeTarget, NoName
<1>7. PICK b \in 1..k : ColonAmong(ms, b, k)
  BY <1>6 DEF Handled, AmongDeps, BehindRule
<1>8. Is(ms[b], Colon)
  BY <1>7 DEF ColonAmong
<1> QED BY <1>1, <1>3, <1>4, <1>8 DEF RuleAt

LEMMA NewLineRefused ==
  ASSUME NEW ms \in Seq(AllMarks), NEW k \in 0..(Len(ms) - 1), NEW d, Is(ms[k + 1], NewLine),
         BehindTarget(d, ms, k) \/ BehindRule(d, ms, k)
  PROVE  Refused(ms)
<1>1. k \in Nat /\ k + 1 \in 1..Len(ms) /\ \A j \in 1..k : j \in 1..Len(ms)
  BY MarkFacts
<1>2. ~Is(ms[k + 1], Colon) /\ ~Is(ms[k + 1], Space)
  BY <1>1, MarkFacts
<1>3. CASE BehindTarget(d, ms, k)
  <2>1. PICK e \in 1..k : EndsName(ms, e)
    BY <1>3 DEF BehindTarget, OneName
  <2>2. ms[e].of = "name" /\ ~Blank(ms)
    BY <1>1, <2>1, MarkFacts, NotBlank
  <2>3. SUFFICES ASSUME NEW c \in 1..Len(ms), RuleAt(ms, c) PROVE FALSE
    BY <2>2, RuleIs DEF Refused
  <2>4. Is(ms[c], Colon)
    BY <2>3 DEF RuleAt
  <2>5. c \notin 1..k /\ c # k + 1
    BY <1>2, <1>3, <2>4 DEF BehindTarget, NoColon
  <2>6. k + 1 \in 1..(c - 1) /\ e \in 1..(c - 1) /\ ~(k + 1 < e)
    BY <1>1, <2>5
  <2> QED BY <2>2, <2>3, <2>6 DEF RuleAt
<1>4. CASE BehindRule(d, ms, k)
  <2>1. PICK c \in 1..k : \E n \in (c + 1)..k :
          /\ ColonAmong(ms, c, k)
          /\ \A j \in (c + 1)..k : Is(ms[j], NewLine) <=> j = n
    BY <1>4 DEF BehindRule
  <2>2. PICK n \in (c + 1)..k : ColonAmong(ms, c, k) /\ Is(ms[n], NewLine)
    BY <2>1
  <2>3. Is(ms[c], Colon)
    BY <2>2 DEF ColonAmong
  <2>4. ~Blank(ms)
    BY <1>1, <2>3, NotBlank
  <2>5. SUFFICES ASSUME NEW b \in 1..Len(ms), RuleAt(ms, b) PROVE FALSE
    BY <2>4, RuleIs DEF Refused
  <2>6. b = c
    BY <1>1, <2>3, <2>5 DEF RuleAt
  <2>7. n \in (c + 1)..Len(ms) /\ k + 1 \in (c + 1)..Len(ms) /\ n < k + 1
    BY <1>1
  <2> QED BY <1>2, <2>2, <2>5, <2>6, <2>7 DEF RuleAt
<1> QED BY <1>3, <1>4

LEMMA NameRefused ==
  ASSUME NEW ms \in Seq(AllMarks), NEW k \in 0..(Len(ms) - 1), NEW d, EndsName(ms, k + 1),
         BehindTarget(d, ms, k) \/ BehindRule(d, ms, k)
  PROVE  Refused(ms)
<1>1. k \in Nat /\ k + 1 \in 1..Len(ms) /\ \A j \in 1..k : j \in 1..Len(ms) /\ j # k + 1
  BY MarkFacts
<1>2. ms[k + 1].of = "name" /\ ~Is(ms[k + 1], Colon) /\ ~Is(ms[k + 1], Space)
  BY <1>1, MarkFacts
<1>3. ~Blank(ms)
  BY <1>1, NotBlank
<1>4. SUFFICES ASSUME NEW c \in 1..Len(ms), RuleAt(ms, c) PROVE FALSE
  BY <1>3, RuleIs DEF Refused
<1>5. CASE BehindTarget(d, ms, k)
  <2>1. PICK e \in 1..k : EndsName(ms, e)
    BY <1>5 DEF BehindTarget, OneName
  <2>2. Is(ms[c], Colon)
    BY <1>4 DEF RuleAt
  <2>3. c \notin 1..k /\ c # k + 1
    BY <1>2, <1>5, <2>2 DEF BehindTarget, NoColon
  <2>4. k + 1 \in 1..(c - 1) /\ e \in 1..(c - 1) /\ e # k + 1
    BY <1>1, <2>3
  <2> QED BY <1>4, <2>1, <2>4 DEF RuleAt
<1>6. CASE BehindRule(d, ms, k)
  <2>1. PICK b \in 1..k : \E n \in (b + 1)..k :
          /\ ColonAmong(ms, b, k)
          /\ \A j \in (b + 1)..k : Is(ms[j], NewLine) <=> j = n
    BY <1>6 DEF BehindRule
  <2>2. PICK n \in (b + 1)..k : ColonAmong(ms, b, k) /\ Is(ms[n], NewLine)
    BY <2>1
  <2>3. c = b
    BY <1>1, <1>4, <2>2 DEF ColonAmong, RuleAt
  <2>4. n \in (c + 1)..Len(ms) /\ k + 1 \in (c + 1)..Len(ms) /\ n < k + 1
    BY <1>1, <2>3
  <2> QED BY <1>2, <1>4, <2>2, <2>4 DEF RuleAt
<1> QED BY <1>5, <1>6

(* At the end, what the handler has is the rule of the text, if it has one.*)
LEMMA EndRefused ==
  ASSUME NEW ms \in Seq(AllMarks), NEW d, BehindTarget(d, ms, Len(ms))
  PROVE  Refused(ms)
<1>1. PICK e \in 1..Len(ms) : EndsName(ms, e)
  BY DEF BehindTarget, OneName
<1>2. ~Blank(ms)
  BY <1>1, NotBlank
<1>3. ~ \E c \in 1..Len(ms) : RuleAt(ms, c)
  BY DEF BehindTarget, NoColon, RuleAt
<1> QED BY <1>2, <1>3, RuleIs DEF Refused

LEMMA EndAccepted ==
  ASSUME NEW ms \in Seq(AllMarks), NEW s, NEW d, Handled(s, d, ms, Len(ms)), s # "read_colon"
  PROVE  /\ Blank(ms) \/ HasRule(ms)
         /\ d = IF Blank(ms) THEN NoData ELSE RuleOf(ms)
<1>1. PICK l \in Nat : l = Len(ms)
  BY MarkFacts
<1>2. l \in 0..Len(ms) /\ DOMAIN ms = 1..l
  BY <1>1, MarkFacts
<1>3. CASE BeforeTarget(d, ms, l)
  <2>1. ASSUME NEW j \in 1..l PROVE Is(ms[j], Space) \/ Is(ms[j], NewLine)
    <3>1. ms[j].of # "name"
      <4>1. \A e \in j..l : e \in 1..l
        OBVIOUS
      <4> QED BY <1>1, <1>2, <1>3, <4>1, NamesEnd DEF BeforeTarget, NoName
    <3>2. ~Is(ms[j], Colon)
      BY <1>3 DEF BeforeTarget, NoColon
    <3>3. j \in 1..Len(ms)
      BY <1>1
    <3> QED BY <3>1, <3>2, <3>3, MarkFacts
  <2>2. Blank(ms)
    BY <1>2, <2>1 DEF Blank
  <2> QED BY <1>3, <2>2 DEF BeforeTarget
<1>4. ASSUME HasNames(d, ms, l) PROVE d = RuleOf(ms)
  <2>1. PICK ns : ns = Names(ms)
    OBVIOUS
  <2>2. ns \in Seq(Seq(DepCharacters)) /\ NamesTo(ms, l) = Len(ns)
    BY <1>1, <2>1, NamesLayout
  <2>3. d = [target |-> ns[1], deps |-> SubSeq(ns, 2, Len(ns))] /\ Len(ns) >= 1
    BY <1>4, <2>1, <2>2 DEF HasNames
  <2>4. Head(ns) = ns[1] /\ Tail(ns) = SubSeq(ns, 2, Len(ns))
    BY <2>2, <2>3
  <2> QED BY <2>1, <2>3, <2>4 DEF RuleOf
<1>5. ASSUME AmongDeps(d, ms, l) \/ BehindRule(d, ms, l)
      PROVE  \E c \in 1..l : /\ ColonAmong(ms, c, l)
                             /\ \A i, j \in (c + 1)..l : Is(ms[i], NewLine) /\ i < j => Is(ms[j], Space)
  <2>1. CASE AmongDeps(d, ms, l)
    BY <2>1 DEF AmongDeps
  <2>2. CASE BehindRule(d, ms, l)
    <3>1. PICK c \in 1..l : \E n \in (c + 1)..l :
            /\ ColonAmong(ms, c, l)
            /\ \A j \in (c + 1)..l : Is(ms[j], NewLine) <=> j = n
            /\ \A j \in (n + 1)..l : Is(ms[j], Space) \/ (ms[j].of = "name" /\ ~EndsName(ms, j))
      BY <2>2 DEF BehindRule
    <3>2. PICK n \in (c + 1)..l :
            /\ ColonAmong(ms, c, l)
            /\ \A j \in (c + 1)..l : Is(ms[j], NewLine) <=> j = n
            /\ \A j \in (n + 1)..l : Is(ms[j], Space) \/ (ms[j].of = "name" /\ ~EndsName(ms, j))
      BY <3>1
    <3>3. \A j \in (c + 1)..l : n < j => /\ j \in (n + 1)..l /\ j \in 1..l
                                         /\ \A e \in j..l : e \in (n + 1)..l /\ e \in 1..l
      OBVIOUS
    <3>4. ASSUME NEW j \in (c + 1)..l, n < j PROVE ms[j].of # "name"
      <4>1. SUFFICES ASSUME ms[j].of = "name" PROVE FALSE
        OBVIOUS
      <4>2. PICK e \in j..l : EndsName(ms, e)
        BY <1>1, <1>2, <3>3, <3>4, <4>1, NamesEnd
      <4>3. e \in (n + 1)..l /\ e \in 1..Len(ms)
        BY <1>1, <3>3, <3>4
      <4>4. ms[e].of = "name" /\ ~Is(ms[e], Space)
        BY <4>2, <4>3, MarkFacts
      <4> QED BY <3>2, <4>2, <4>3, <4>4
    <3> QED BY <3>2, <3>3, <3>4
  <2> QED BY <1>5, <2>1, <2>2
<1>6. CASE AmongDeps(d, ms, l) \/ BehindRule(d, ms, l)
  <2>1. PICK c \in 1..l : /\ ColonAmong(ms, c, l)
                          /\ \A i, j \in (c + 1)..l : Is(ms[i], NewLine) /\ i < j => Is(ms[j], Space)
    BY <1>5, <1>6
  <2>2. RuleAt(ms, c)
    BY <1>1, <2>1 DEF ColonAmong, OneName, NewLinesFirst, RuleAt
  <2>3. HasRule(ms)
    BY <1>1, <2>2, RuleIs
  <2>4. Is(ms[c], Colon)
    BY <2>1 DEF ColonAmong
  <2>5. ~Blank(ms)
    BY <1>1, <2>4, NotBlank
  <2>6. d = RuleOf(ms)
    BY <1>4, <1>6 DEF AmongDeps, BehindRule
  <2> QED BY <2>3, <2>5, <2>6
<1> QED BY <1>1, <1>3, <1>6 DEF Handled

-----------------------------------------------------------------------------
(* A text that is read: the tokenizer is in front of a mark, the marks     *)
(* before it are in the name so far or have been handled; and in the end   *)
(* the outcome is the meaning of the text.                                 *)
NameSoFar(n, ms, s, m) ==
  /\ s = 0 \/ ms[s].of # "name"
  /\ \A i \in (s + 1)..m : ms[i].of = "name"
  /\ n = [j \in 1..(m - s) |-> ms[s + j].c]
Settled(ms, m) == m = 0 \/ ms[m].of # "name" \/ EndsName(ms, m)
Accounted(n, s, d, ms, m) ==
  \/ n = <<>> /\ Settled(ms, m) /\ Handled(s, d, ms, m)
  \/ \E b \in 0..(m - 1) : NameSoFar(n, ms, b, m) /\ Handled(s, d, ms, m - 1)

Verdict(t, ms, o, d) ==
  /\ o = "read" <=> /\ ~Dangling(t)
                    /\ Blank(ms) \/ HasRule(ms)
  /\ o = "read" => d = IF Blank(ms) THEN NoData ELSE RuleOf(ms)

TextRead(t, ms, r, n, s, d, o) ==
  /\ o = "reading" => \E m \in 0..Len(ms) : Facing(t, r, m) /\ Accounted(n, s, d, ms, m)
  /\ o # "reading" => Verdict(t, ms, o, d)

TextInv ==
  /\ text \in Seq(DepCharacters)
  /\ TextRead(text, Marks(Plain(text)), in, name, state, data, outcome)

LEMMA AccountedFacts ==
  ASSUME NEW n, NEW s, NEW d, NEW ms, NEW m \in Nat, Accounted(n, s, d, ms, m)
  PROVE  \/ n = <<>> /\ Settled(ms, m) /\ Handled(s, d, ms, m)
         \/ n # <<>> /\ \E b \in 0..(m - 1) : NameSoFar(n, ms, b, m) /\ Handled(s, d, ms, m - 1)
<1>1. CASE n = <<>> /\ Settled(ms, m) /\ Handled(s, d, ms, m)
  BY <1>1
<1>2. CASE \E b \in 0..(m - 1) : NameSoFar(n, ms, b, m) /\ Handled(s, d, ms, m - 1)
  <2>1. PICK b \in 0..(m - 1) : NameSoFar(n, ms, b, m) /\ Handled(s, d, ms, m - 1)
    BY <1>2
  <2>2. DOMAIN n = 1..(m - b) /\ 1 \in 1..(m - b)
    BY <2>1 DEF NameSoFar
  <2>3. n # <<>>
    BY <2>2
  <2> QED BY <2>1, <2>3
<1> QED BY <1>1, <1>2 DEF Accounted

LEMMA TextGoes ==
  ASSUME text \in Seq(DepCharacters), NEW ms, ms = Marks(Plain(text)), NEW r, NEW m, Goes(r, m),
         NEW n, NEW s, NEW d, NEW o,
         r.ok => \/ o = "reading" /\ Accounted(n, s, d, ms, m)
                 \/ o # "reading" /\ o # "read" /\ Refused(ms),
         ~r.ok => o = "escape_at_end"
  PROVE  TextRead(text, ms, r, n, s, d, o)
<1>1. CASE ~r.ok
  <2>1. Dangling(text) /\ o # "reading" /\ o # "read"
    BY <1>1 DEF Goes
  <2> QED BY <2>1 DEF TextRead, Verdict
<1>2. CASE r.ok /\ o = "reading" /\ Accounted(n, s, d, ms, m)
  <2>1. Facing(text, r, m)
    BY <1>2 DEF Goes
  <2>2. m \in 0..Len(ms)
    BY <2>1, FacingFacts
  <2> QED BY <1>2, <2>1, <2>2 DEF TextRead
<1>3. CASE r.ok /\ o # "reading" /\ o # "read" /\ Refused(ms)
  BY <1>3 DEF TextRead, Verdict, Refused
<1> QED BY <1>1, <1>2, <1>3

LEMMA TextInitInv == DepfileInit => TextInv
<1> SUFFICES ASSUME DepfileInit PROVE TextInv
  OBVIOUS
<1>1. text \in Seq(DepCharacters)
  BY TextsAssumption, SpellingIsWider DEF DepfileInit
<1>2. PICK r, ms : r = Read(Behind(0, Space)) /\ ms = Marks(Plain(text))
  OBVIOUS
<1>3. Behind(0, Space) = [at |-> 1, c |-> Space, good |-> TRUE, ok |-> TRUE]
  BY DEF Behind
<1>4. /\ in = r /\ name = <<>> /\ state = "read_target" /\ data = NoData
      /\ outcome = IF r.ok THEN "reading" ELSE "escape_at_end"
  BY <1>2, <1>3 DEF DepfileInit
<1>5. Goes(r, 0)
  BY <1>1, <1>2, FacingInit
<1>6. ms \in Seq(AllMarks)
  BY <1>1, <1>2, PlainLayout, MarkLayout
<1>7. BeforeTarget(NoData, ms, 0)
  <2>1. 1..0 = {}
    OBVIOUS
  <2>2. NamesTo(ms, 0) = 0
    BY <1>6, NamesLayout
  <2> QED BY <2>1, <2>2 DEF BeforeTarget, NoColon, NoName, NewLinesFirst
<1>8. Accounted(<<>>, "read_target", NoData, ms, 0)
  BY <1>7 DEF Accounted, Handled, Settled
<1>9. TextRead(text, ms, r, <<>>, "read_target", NoData, outcome)
  BY <1>1, <1>2, <1>4, <1>5, <1>8, TextGoes
<1> QED BY <1>1, <1>2, <1>4, <1>9 DEF TextInv

(* What the tokenizer and the handler know when a character is taken.      *)
LEMMA AtMark ==
  ASSUME TextInv, outcome = "reading", NEW ms, ms = Marks(Plain(text))
  PROVE  /\ text \in Seq(DepCharacters) /\ ms \in Seq(AllMarks) /\ Len(ms) \in Nat
         /\ \E m \in 0..Len(ms) : Facing(text, in, m) /\ Accounted(name, state, data, ms, m)
<1>1. text \in Seq(DepCharacters)
  BY DEF TextInv
<1>2. ms \in Seq(AllMarks) /\ Len(ms) \in Nat
  BY <1>1, PlainLayout, MarkLayout
<1> QED BY <1>1, <1>2 DEF TextInv, TextRead

LEMMA AtRuleMark ==
  ASSUME TextInv, AtToken, in.good, in.c \in Syntax, NEW ms, ms = Marks(Plain(text)), NEW r, r = Read(in)
  PROVE  \E m \in 0..(Len(ms) - 1) : /\ Handled(state, data, ms, m) /\ Goes(r, m + 1)
                                     /\ Is(ms[m + 1], in.c) /\ ms[m + 1].of # "name"
<1>1. outcome = "reading" /\ name = <<>>
  BY DEF AtToken
<1>2. /\ text \in Seq(DepCharacters) /\ Len(ms) \in Nat
      /\ \E m \in 0..Len(ms) : Facing(text, in, m) /\ Accounted(name, state, data, ms, m)
  BY <1>1, AtMark
<1>3. PICK m \in 0..Len(ms) : Facing(text, in, m) /\ Accounted(name, state, data, ms, m)
  BY <1>2
<1>4. m < Len(ms) /\ ms[m + 1].of = "rule" /\ ms[m + 1].c = in.c
  BY <1>2, <1>3, FacingFacts
<1>5. m \in 0..(Len(ms) - 1) /\ m \in Nat
  BY <1>2, <1>4
<1>6. Handled(state, data, ms, m)
  BY <1>1, <1>3, <1>5, AccountedFacts
<1>7. Goes(r, m + 1)
  BY <1>2, <1>3, <1>4, RuleMark
<1> QED BY <1>4, <1>5, <1>6, <1>7 DEF Is

(* What is kept by taking a mark that is not part of a name.               *)
LEMMA TokenTaken ==
  ASSUME TextInv, AtToken, NEW ms, ms = Marks(Plain(text)), NEW r, NEW m \in Nat, Goes(r, m + 1),
         ms[m + 1].of # "name", text' = text, name' = name, in' = r,
         r.ok => \/ outcome' = "reading" /\ Handled(state', data', ms, m + 1)
                 \/ outcome' # "reading" /\ outcome' # "read" /\ Refused(ms),
         ~r.ok => outcome' = "escape_at_end"
  PROVE  TextInv'
<1>1. PICK n, s, d, o : n = name' /\ s = state' /\ d = data' /\ o = outcome'
  OBVIOUS
<1>2. text \in Seq(DepCharacters) /\ n = <<>>
  BY <1>1 DEF TextInv, AtToken
<1>3. Settled(ms, m + 1)
  BY DEF Settled
<1>4. r.ok => \/ o = "reading" /\ Accounted(n, s, d, ms, m + 1)
              \/ o # "reading" /\ o # "read" /\ Refused(ms)
  BY <1>1, <1>2, <1>3 DEF Accounted
<1>5. ~r.ok => o = "escape_at_end"
  BY <1>1
<1>6. TextRead(text, ms, r, n, s, d, o)
  BY <1>2, <1>4, <1>5, TextGoes
<1> QED BY <1>1, <1>2, <1>6 DEF TextInv

-----------------------------------------------------------------------------
LEMMA TextSkipSpace == TextInv /\ SkipSpace => TextInv'
<1> SUFFICES ASSUME TextInv, SkipSpace PROVE TextInv'
  OBVIOUS
<1>1. PICK ms, r : ms = Marks(Plain(text)) /\ r = Read(in)
  OBVIOUS
<1>2. AtToken /\ in.good /\ in.c = Space /\ in.c \in Syntax /\ outcome = "reading"
  BY SyntaxIs DEF SkipSpace, AtToken
<1>3. /\ text' = text /\ name' = name /\ in' = r
      /\ r.ok => state' = state /\ data' = data /\ outcome' = "reading"
      /\ ~r.ok => outcome' = "escape_at_end"
  BY <1>1, <1>2 DEF SkipSpace, Reads, Throw
<1>4. PICK m \in 0..(Len(ms) - 1) : /\ Handled(state, data, ms, m) /\ Goes(r, m + 1)
                                    /\ Is(ms[m + 1], Space) /\ ms[m + 1].of # "name"
  BY <1>1, <1>2, AtRuleMark
<1>5. ms \in Seq(AllMarks) /\ m \in Nat
  BY <1>1, <1>2, AtMark
<1>6. Handled(state, data, ms, m + 1)
  BY <1>4, <1>5, MarkPassed
<1>7. r.ok => outcome' = "reading" /\ Handled(state', data', ms, m + 1)
  BY <1>3, <1>6
<1> QED BY <1>1, <1>2, <1>3, <1>4, <1>5, <1>7, TokenTaken

LEMMA TextTakeColon == TextInv /\ TakeColon => TextInv'
<1> SUFFICES ASSUME TextInv, TakeColon PROVE TextInv'
  OBVIOUS
<1>1. PICK ms, r : ms = Marks(Plain(text)) /\ r = Read(in)
  OBVIOUS
<1>2. AtToken /\ in.good /\ in.c = Colon /\ in.c \in Syntax /\ outcome = "reading"
  BY SyntaxIs DEF TakeColon, AtToken
<1>3. /\ text' = text /\ name' = name /\ in' = r
      /\ r.ok /\ state = "read_colon" => state' = "read_dep" /\ data' = data /\ outcome' = "reading"
      /\ r.ok /\ state # "read_colon" => outcome' = "unexpected colon operator"
      /\ ~r.ok => outcome' = "escape_at_end"
  BY <1>1, <1>2 DEF TakeColon, Reads, Throw
<1>4. PICK m \in 0..(Len(ms) - 1) : /\ Handled(state, data, ms, m) /\ Goes(r, m + 1)
                                    /\ Is(ms[m + 1], Colon) /\ ms[m + 1].of # "name"
  BY <1>1, <1>2, AtRuleMark
<1>5. ms \in Seq(AllMarks) /\ m \in Nat
  BY <1>1, <1>2, AtMark
<1>6. ASSUME state = "read_colon" PROVE Handled("read_dep", data, ms, m + 1)
  BY <1>4, <1>5, <1>6, ColonPassed DEF Handled
<1>7. state # "read_colon" => Refused(ms)
  BY <1>4, <1>5, ColonRefused
<1>8. r.ok => \/ outcome' = "reading" /\ Handled(state', data', ms, m + 1)
              \/ outcome' # "reading" /\ outcome' # "read" /\ Refused(ms)
  BY <1>3, <1>6, <1>7
<1> QED BY <1>1, <1>2, <1>3, <1>4, <1>5, <1>8, TokenTaken

LEMMA TextTakeNewLine == TextInv /\ TakeNewLine => TextInv'
<1> SUFFICES ASSUME TextInv, TakeNewLine PROVE TextInv'
  OBVIOUS
<1>1. PICK ms, r : ms = Marks(Plain(text)) /\ r = Read(in)
  OBVIOUS
<1>2. AtToken /\ in.good /\ in.c = NewLine /\ in.c \in Syntax /\ outcome = "reading"
  BY SyntaxIs DEF TakeNewLine, AtToken
<1>3. /\ text' = text /\ name' = name /\ in' = r
      /\ r.ok => CASE state = "read_target" -> UNCHANGED <<state, data, outcome>>
                   [] state = "read_dep"    -> state' = "done" /\ UNCHANGED <<data, outcome>>
                   [] OTHER                 -> Throw("unexpected newline")
      /\ ~r.ok => outcome' = "escape_at_end"
  BY <1>1, <1>2 DEF TakeNewLine, Reads, Throw
<1>4. PICK m \in 0..(Len(ms) - 1) : /\ Handled(state, data, ms, m) /\ Goes(r, m + 1)
                                    /\ Is(ms[m + 1], NewLine) /\ ms[m + 1].of # "name"
  BY <1>1, <1>2, AtRuleMark
<1>5. ms \in Seq(AllMarks) /\ m \in Nat
  BY <1>1, <1>2, AtMark
<1>6. CASE state = "read_target"
  <2>1. Handled(state, data, ms, m + 1)
    BY <1>4, <1>5, <1>6, NewLinePassed DEF Handled
  <2>2. r.ok => state' = state /\ data' = data /\ outcome' = "reading"
    BY <1>2, <1>3, <1>6
  <2>3. r.ok => outcome' = "reading" /\ Handled(state', data', ms, m + 1)
    BY <2>1, <2>2
  <2> QED BY <1>1, <1>2, <1>3, <1>4, <1>5, <2>3, TokenTaken
<1>7. CASE state = "read_dep"
  <2>1. Handled("done", data, ms, m + 1)
    BY <1>4, <1>5, <1>7, NewLinePassed DEF Handled
  <2>2. r.ok => state' = "done" /\ data' = data /\ outcome' = "reading"
    BY <1>2, <1>3, <1>7
  <2>3. r.ok => outcome' = "reading" /\ Handled(state', data', ms, m + 1)
    BY <2>1, <2>2
  <2> QED BY <1>1, <1>2, <1>3, <1>4, <1>5, <2>3, TokenTaken
<1>8. CASE state \notin {"read_target", "read_dep"}
  <2>1. Refused(ms)
    BY <1>4, <1>5, <1>8, NewLineRefused DEF Handled
  <2>2. r.ok => outcome' = "unexpected newline"
    BY <1>3, <1>8 DEF Throw
  <2>3. r.ok => outcome' # "reading" /\ outcome' # "read" /\ Refused(ms)
    BY <2>1, <2>2
  <2> QED BY <1>1, <1>2, <1>3, <1>4, <1>5, <2>3, TokenTaken
<1> QED BY <1>6, <1>7, <1>8

LEMMA TextEnd == TextInv /\ End => TextInv'
<1> SUFFICES ASSUME TextInv, End PROVE TextInv'
  OBVIOUS
<1>1. PICK ms : ms = Marks(Plain(text))
  OBVIOUS
<1>2. /\ outcome = "reading" /\ name = <<>> /\ ~in.good
      /\ text' = text /\ in' = in /\ name' = name /\ data' = data
      /\ state = "read_colon" => outcome' = "unexpected end"
      /\ state # "read_colon" => outcome' = "read"
  BY DEF End, AtToken, Throw
<1>3. /\ text \in Seq(DepCharacters) /\ ms \in Seq(AllMarks) /\ Len(ms) \in Nat
      /\ \E m \in 0..Len(ms) : Facing(text, in, m) /\ Accounted(name, state, data, ms, m)
  BY <1>1, <1>2, AtMark
<1>4. PICK m \in 0..Len(ms) : Facing(text, in, m) /\ Accounted(name, state, data, ms, m)
  BY <1>3
<1>5. m = Len(ms) /\ ~Dangling(text)
  BY <1>1, <1>2, <1>3, <1>4, FacingFacts
<1>6. Handled(state, data, ms, Len(ms))
  BY <1>2, <1>3, <1>4, <1>5, AccountedFacts
<1>7. PICK o : o = outcome'
  OBVIOUS
<1>8. CASE state = "read_colon"
  <2>1. Refused(ms) /\ o # "reading" /\ o # "read"
    BY <1>2, <1>3, <1>6, <1>7, <1>8, EndRefused DEF Handled
  <2>2. Verdict(text, ms, o, data)
    BY <2>1 DEF Verdict, Refused
  <2>3. TextRead(text, ms, in', name', state', data, o)
    BY <2>1, <2>2 DEF TextRead
  <2> QED BY <1>1, <1>2, <1>3, <1>7, <2>3 DEF TextInv
<1>9. CASE state # "read_colon"
  <2>1. o = "read" /\ (Blank(ms) \/ HasRule(ms))
    BY <1>2, <1>3, <1>6, <1>7, <1>9, EndAccepted
  <2>2. data = IF Blank(ms) THEN NoData ELSE RuleOf(ms)
    BY <1>3, <1>6, <1>9, EndAccepted
  <2>3. Verdict(text, ms, o, data)
    BY <1>5, <2>1, <2>2 DEF Verdict
  <2>4. TextRead(text, ms, in', name', state', data, o)
    BY <2>1, <2>3 DEF TextRead
  <2> QED BY <1>1, <1>2, <1>3, <1>7, <2>4 DEF TextInv
<1> QED BY <1>8, <1>9

LEMMA TextStringChar == TextInv /\ StringChar => TextInv'
<1> SUFFICES ASSUME TextInv, StringChar PROVE TextInv'
  OBVIOUS
<1>1. PICK ms, q, r : /\ ms = Marks(Plain(text))
                      /\ q = (IF in.c = Escape THEN Read(in) ELSE in) /\ r = (IF q.ok THEN Read(q) ELSE q)
  OBVIOUS
<1>2. /\ outcome = "reading" /\ in.good /\ in.c \notin Syntax
      /\ text' = text /\ in' = r /\ name' = Append(name, q.c)
      /\ r.ok => state' = state /\ data' = data /\ outcome' = "reading"
      /\ ~r.ok => outcome' = "escape_at_end"
  BY <1>1 DEF StringChar, InString, Reads, Throw
<1>3. /\ text \in Seq(DepCharacters) /\ ms \in Seq(AllMarks) /\ Len(ms) \in Nat
      /\ \E m \in 0..Len(ms) : Facing(text, in, m) /\ Accounted(name, state, data, ms, m)
  BY <1>1, <1>2, AtMark
<1>4. PICK m \in 0..Len(ms) : Facing(text, in, m) /\ Accounted(name, state, data, ms, m)
  BY <1>3
<1>5. m < Len(ms) /\ ms[m + 1].of = "name"
  BY <1>1, <1>2, <1>3, <1>4, FacingFacts
<1>6. Goes(r, m + 1) /\ (r.ok => q.c = ms[m + 1].c)
  BY <1>1, <1>3, <1>4, <1>5, NameMark
<1>7. PICK n, c : n = name /\ c = ms[m + 1].c
  OBVIOUS
<1>8. Accounted(Append(n, c), state, data, ms, m + 1)
  <2>1. m \in Nat /\ (m + 1) - 1 = m
    BY <1>3
  <2>2. CASE n = <<>> /\ Settled(ms, m) /\ Handled(state, data, ms, m)
    <3>1. m = 0 \/ ms[m].of # "name"
      BY <1>5, <2>2 DEF Settled, EndsName
    <3>2. \A i \in (m + 1)..(m + 1) : i = m + 1
      BY <2>1
    <3>3. Append(n, c) = [j \in 1..1 |-> ms[m + j].c]
      <4>1. Append(<<>>, c) = <<c>> /\ <<c>> = [j \in 1..1 |-> c]
        OBVIOUS
      <4>2. \A j \in 1..1 : ms[m + j].c = c
        BY <1>7
      <4>3. [j \in 1..1 |-> c] = [j \in 1..1 |-> ms[m + j].c]
        BY <4>2
      <4> QED BY <2>2, <4>1, <4>3
    <3>4. (m + 1) - m = 1 /\ m \in 0..((m + 1) - 1)
      BY <2>1
    <3>5. NameSoFar(Append(n, c), ms, m, m + 1)
      BY <1>5, <3>1, <3>2, <3>3, <3>4 DEF NameSoFar
    <3> QED BY <2>1, <2>2, <3>4, <3>5 DEF Accounted
  <2>3. CASE \E b \in 0..(m - 1) : NameSoFar(n, ms, b, m) /\ Handled(state, data, ms, m - 1)
    <3>1. PICK b \in 0..(m - 1) : NameSoFar(n, ms, b, m) /\ Handled(state, data, ms, m - 1)
      BY <2>3
    <3>2. /\ b \in Nat /\ m - 1 \in 0..(Len(ms) - 1) /\ (m - 1) + 1 = m /\ m \in (b + 1)..m
          /\ b \in 0..((m + 1) - 1) /\ \A i \in (b + 1)..(m + 1) : i \in (b + 1)..m \/ i = m + 1
      BY <1>3, <2>1
    <3>3. ms[m].of = "name" /\ ~EndsName(ms, m)
      BY <1>5, <3>1, <3>2 DEF NameSoFar, EndsName
    <3>4. Handled(state, data, ms, m)
      BY <1>3, <3>1, <3>2, <3>3, MarkPassed
    <3>5. PICK k \in Nat : k = m - b
      BY <2>1, <3>2
    <3>6. n = [j \in 1..k |-> ms[b + j].c] /\ (m + 1) - b = k + 1 /\ b + (k + 1) = m + 1
      BY <2>1, <3>1, <3>2, <3>5 DEF NameSoFar
    <3>7. c = ms[b + (k + 1)].c
      BY <1>7, <3>6
    <3>8. Append(n, c) = [j \in 1..(k + 1) |-> ms[b + j].c]
      BY <3>5, <3>6, <3>7
    <3>9. NameSoFar(Append(n, c), ms, b, m + 1)
      BY <1>5, <3>1, <3>2, <3>6, <3>8 DEF NameSoFar
    <3> QED BY <2>1, <3>2, <3>4, <3>9 DEF Accounted
  <2> QED BY <1>4, <1>7, <2>1, <2>2, <2>3, AccountedFacts
<1>9. PICK p, s, d, o : p = name' /\ s = state' /\ d = data' /\ o = outcome'
  OBVIOUS
<1>10. r.ok => o = "reading" /\ Accounted(p, s, d, ms, m + 1)
  BY <1>2, <1>6, <1>7, <1>8, <1>9
<1>11. ~r.ok => o = "escape_at_end"
  BY <1>2, <1>9
<1>12. TextRead(text, ms, r, p, s, d, o)
  BY <1>1, <1>3, <1>6, <1>10, <1>11, TextGoes
<1> QED BY <1>1, <1>2, <1>3, <1>9, <1>12 DEF TextInv

LEMMA TextTakeString == TextInv /\ TakeString => TextInv'
<1> SUFFICES ASSUME TextInv, TakeString PROVE TextInv'
  OBVIOUS
<1>1. PICK ms, n : ms = Marks(Plain(text)) /\ n = name
  OBVIOUS
<1>2. /\ outcome = "reading" /\ n # <<>> /\ (~in.good \/ in.c \in Syntax)
      /\ text' = text /\ in' = in /\ name' = <<>>
      /\ state = "read_target" =>
           data' = [target |-> n, deps |-> <<>>] /\ state' = "read_colon" /\ outcome' = "reading"
      /\ state = "read_dep" =>
           data' = [data EXCEPT !.deps = Append(@, n)] /\ state' = state /\ outcome' = "reading"
      /\ state \notin {"read_target", "read_dep"} => outcome' = "unexpected string"
  BY <1>1 DEF TakeString, InString, Throw
<1>3. /\ text \in Seq(DepCharacters) /\ ms \in Seq(AllMarks) /\ Len(ms) \in Nat
      /\ \E m \in 0..Len(ms) : Facing(text, in, m) /\ Accounted(name, state, data, ms, m)
  BY <1>1, <1>2, AtMark
<1>4. PICK m \in 0..Len(ms) : Facing(text, in, m) /\ Accounted(name, state, data, ms, m)
  BY <1>3
<1>5. in.ok /\ (m = Len(ms) \/ ms[m + 1].of # "name")
  BY <1>1, <1>2, <1>3, <1>4, FacingFacts
<1>6. m \in Nat
  BY <1>3
<1>7. \E b \in 0..(m - 1) : NameSoFar(n, ms, b, m) /\ Handled(state, data, ms, m - 1)
  BY <1>1, <1>2, <1>4, <1>6, AccountedFacts
<1>8. PICK b \in 0..(m - 1) : NameSoFar(n, ms, b, m) /\ Handled(state, data, ms, m - 1)
  BY <1>7
<1>9. PICK k \in 0..(Len(ms) - 1) : k = m - 1
  BY <1>3, <1>8
<1>10. k + 1 = m /\ m \in 1..Len(ms) /\ b \in 0..m /\ m \in (b + 1)..m
  BY <1>3, <1>6, <1>8, <1>9
<1>11. EndsName(ms, k + 1)
  BY <1>3, <1>5, <1>8, <1>10 DEF EndsName, NameSoFar
<1>12. n = NameUpTo(ms, k + 1)
  BY <1>3, <1>8, <1>10, NameUpToIs DEF NameSoFar
<1>13. Handled(state, data, ms, k)
  BY <1>8, <1>9
<1>14. PICK s, d, o : s = state' /\ d = data' /\ o = outcome'
  OBVIOUS
<1>15. \/ o = "reading" /\ Handled(s, d, ms, m)
       \/ o # "reading" /\ o # "read" /\ Refused(ms)
  <2>1. CASE state = "read_target"
    <3>1. BehindTarget([target |-> n, deps |-> <<>>], ms, k + 1)
      BY <1>3, <1>11, <1>12, <1>13, <2>1, NamePassed DEF Handled
    <3>2. Handled("read_colon", [target |-> n, deps |-> <<>>], ms, m)
      BY <1>10, <3>1 DEF Handled
    <3> QED BY <1>2, <1>14, <2>1, <3>2
  <2>2. CASE state = "read_dep"
    <3>1. PICK e : e = [data EXCEPT !.deps = Append(@, n)]
      OBVIOUS
    <3>2. AmongDeps(e, ms, k + 1)
      BY <1>3, <1>11, <1>12, <1>13, <2>2, <3>1, NamePassed DEF Handled
    <3>3. Handled("read_dep", e, ms, m)
      BY <1>10, <3>2 DEF Handled
    <3> QED BY <1>2, <1>14, <2>2, <3>1, <3>3
  <2>3. CASE state \notin {"read_target", "read_dep"}
    <3>1. Refused(ms)
      BY <1>3, <1>11, <1>13, <2>3, NameRefused DEF Handled
    <3> QED BY <1>2, <1>14, <2>3, <3>1
  <2> QED BY <2>1, <2>2, <2>3
<1>16. Settled(ms, m)
  BY <1>10, <1>11 DEF Settled
<1>17. \/ o = "reading" /\ Accounted(<<>>, s, d, ms, m)
       \/ o # "reading" /\ o # "read" /\ Refused(ms)
  BY <1>15, <1>16 DEF Accounted
<1>18. Goes(in, m)
  BY <1>4, <1>5 DEF Goes
<1>19. TextRead(text, ms, in, <<>>, s, d, o)
  BY <1>1, <1>3, <1>5, <1>17, <1>18, TextGoes
<1> QED BY <1>1, <1>2, <1>3, <1>14, <1>19 DEF TextInv

-----------------------------------------------------------------------------
LEMMA TextUnchanged == TextInv /\ UNCHANGED depfileVars => TextInv'
BY DEF TextInv, TextRead, depfileVars

(* What has been read of a text, in the tokenizer, in the name that is     *)
(* being collected and in the handler, is what the characters behind the   *)
(* tokenizer mean; and an outcome is the meaning of the whole text.        *)
THEOREM TextsInvariant == DepfileSpec => []TextInv
<1>1. TextInv /\ [DepfileNext]_depfileVars => TextInv'
  BY TextSkipSpace, TextEnd, TextTakeColon, TextTakeNewLine, TextStringChar, TextTakeString, TextUnchanged, Zenon
     DEF DepfileNext
<1> QED BY <1>1, TextInitInv, PTL DEF DepfileSpec

(* For every text: the reader returns the rule of a text that has one,     *)
(* nothing for a blank text, and throws for every other (tokenizer.h:16-69,*)
(* read.cpp:29-79).                                                        *)
THEOREM EveryTextIsRead == DepfileSpec => []ReadsRules
<1>1. TextInv => ReadsRules
  BY DEF TextInv, TextRead, Verdict, Dangling, ReadsRules
<1> QED BY <1>1, TextsInvariant, PTL

===============================================================================
