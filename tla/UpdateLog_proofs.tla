-------------------------- MODULE UpdateLog_proofs --------------------------
(***************************************************************************)
(* The update log as a durable map, for all paths, records and logs of any *)
(* length, whatever the moments at which processes die.                    *)
(*                                                                         *)
(* The argument has three parts. What is read from a file is a function of *)
(* its entries taken one after the other (by induction over the file), so  *)
(* appending an entry has the effect of reading that entry last. While a   *)
(* file is well-formed, the recorder's index has the place of every entity *)
(* in the list the reader would make, so the ids an entry is written with  *)
(* are read back as the paths they stand for. And whatever the recorder is *)
(* at, the file, the map in memory and the records still to be rewritten   *)
(* differ by at most the one record in progress.                           *)
(***************************************************************************)
EXTENDS UpdateLog, SequenceTheorems, FiniteSetTheorems, TLAPS

(* Induction over the natural numbers, for a set.                          *)
LEMMA Induction ==
  ASSUME NEW S \in SUBSET Nat, 0 \in S, \A n \in S : n + 1 \in S
  PROVE  S = Nat
<1> SUFFICES ASSUME S # Nat PROVE FALSE
  OBVIOUS
<1> DEFINE T == Nat \ S
           R == OpToRel(<, Nat)
<1>1. IsWellFoundedOn(R, Nat)
  BY NatLessThanWellFounded, Zenon
<1>2. T \subseteq Nat /\ T # {}
  OBVIOUS
<1>3. PICK x \in T : \A y \in T : ~ (<<y, x>> \in R)
  <2> HIDE DEF T, R
  <2> QED BY <1>1, <1>2, WFMin
<1>4. \A y \in T : ~ (y < x)
  BY <1>2, <1>3 DEF OpToRel
<1>5. x \in Nat /\ x \notin S /\ x # 0
  OBVIOUS
<1>6. x - 1 \in Nat /\ x - 1 < x /\ (x - 1) + 1 = x
  BY <1>5
<1>7. x - 1 \in S
  BY <1>4, <1>6
<1> QED BY <1>5, <1>6, <1>7

-----------------------------------------------------------------------------
(* What the reader has after each of the first n entries of a file.        *)
IsReading(file, A, n) ==
  A = [k \in 1..n |-> IF k = 1 THEN NothingRead ELSE ReadEntry(A[k - 1], file[k])]

(* There is a reading of any number of entries, so that ReadAll, which     *)
(* chooses one, has one to choose.                                         *)
LEMMA ReadingExists ==
  ASSUME NEW file
  PROVE  \A n \in Nat : \E A : IsReading(file, A, n)
<1> DEFINE S == {n \in Nat : \E A : IsReading(file, A, n)}
<1>1. 0 \in S
  <2>1. IsReading(file, [k \in 1..0 |-> NothingRead], 0)
    BY DEF IsReading
  <2> QED BY <2>1
<1>2. ASSUME NEW n \in S PROVE n + 1 \in S
  <2>1. n \in Nat
    OBVIOUS
  <2>2. PICK A : IsReading(file, A, n)
    OBVIOUS
  <2> DEFINE last == IF n = 0 THEN NothingRead ELSE ReadEntry(A[n], file[n + 1])
             B    == [k \in 1..(n + 1) |-> IF k = n + 1 THEN last ELSE A[k]]
  <2>3. ASSUME NEW k \in 1..(n + 1)
        PROVE  B[k] = IF k = 1 THEN NothingRead ELSE ReadEntry(B[k - 1], file[k])
    <3>1. CASE k = n + 1
      BY <2>1, <3>1
    <3>2. CASE k # n + 1
      <4>1. k \in 1..n /\ B[k] = A[k] /\ (k # 1 => B[k - 1] = A[k - 1])
        BY <2>1, <3>2
      <4>2. A[k] = IF k = 1 THEN NothingRead ELSE ReadEntry(A[k - 1], file[k])
        BY <2>2, <4>1 DEF IsReading
      <4> HIDE DEF B
      <4> QED BY <4>1, <4>2
    <3> QED BY <3>1, <3>2
  <2>4. B = [k \in 1..(n + 1) |-> B[k]]
    OBVIOUS
  <2> HIDE DEF B
  <2>5. IsReading(file, B, n + 1)
    BY <2>3, <2>4 DEF IsReading
  <2> QED BY <2>1, <2>5
<1> HIDE DEF S
<1>3. S = Nat
  <2>1. S \in SUBSET Nat
    BY DEF S
  <2> QED BY <1>1, <1>2, <2>1, Induction
<1> QED BY <1>3 DEF S

(* Two readings agree on the entries the files have in common.             *)
LEMMA ReadingsAgree ==
  ASSUME NEW f, NEW g, NEW A, NEW B, NEW n \in Nat, NEW m \in Nat, n <= m,
         IsReading(f, A, n), IsReading(g, B, m), \A k \in 1..n : f[k] = g[k]
  PROVE  \A k \in 1..n : A[k] = B[k]
<1> DEFINE S == {i \in Nat : i \in 1..n => A[i] = B[i]}
<1>1. 0 \in S
  OBVIOUS
<1>2. ASSUME NEW i \in S PROVE i + 1 \in S
  <2> SUFFICES ASSUME i + 1 \in 1..n PROVE A[i + 1] = B[i + 1]
    OBVIOUS
  <2>1. /\ A[i + 1] = IF i + 1 = 1 THEN NothingRead ELSE ReadEntry(A[i], f[i + 1])
        /\ B[i + 1] = IF i + 1 = 1 THEN NothingRead ELSE ReadEntry(B[i], g[i + 1])
    <3>1. i + 1 \in 1..m /\ (i + 1) - 1 = i
      OBVIOUS
    <3> QED BY <3>1 DEF IsReading
  <2>2. CASE i = 0
    BY <2>1, <2>2
  <2>3. CASE i # 0
    <3>1. A[i] = B[i] /\ i + 1 # 1
      BY <2>3
    <3> QED BY <2>1, <3>1
  <2> QED BY <2>2, <2>3
<1> HIDE DEF S
<1>3. S = Nat
  <2>1. S \in SUBSET Nat
    BY DEF S
  <2> QED BY <1>1, <1>2, <2>1, Induction
<1> QED BY <1>3 DEF S

(* What ReadAll returns is what any reading has after the last entry.      *)
LEMMA ReadAllIsReading ==
  ASSUME NEW file, NEW A, Len(file) \in Nat \ {0}, IsReading(file, A, Len(file))
  PROVE  ReadAll(file) = A[Len(file)]
<1> DEFINE After == CHOOSE B : IsReading(file, B, Len(file))
<1>1. ReadAll(file) = After[Len(file)]
  BY Zenon DEF ReadAll, IsReading
<1>2. IsReading(file, After, Len(file))
  OBVIOUS
<1> HIDE DEF After
<1>3. \A k \in 1..Len(file) : After[k] = A[k]
  BY <1>2, ReadingsAgree
<1> QED BY <1>1, <1>3

(* The reader takes one entry after the other: what was read of a file     *)
(* does not depend on what is appended to it later.                        *)
LEMMA ReadAppended ==
  ASSUME NEW T, NEW file \in Seq(T), file # <<>>, NEW e \in T
  PROVE  ReadAll(Append(file, e)) = ReadEntry(ReadAll(file), e)
<1> DEFINE n == Len(file)
           longer == Append(file, e)
<1>1. n \in Nat /\ n >= 1 /\ Len(longer) = n + 1 /\ longer[n + 1] = e
  OBVIOUS
<1>2. \A k \in 1..n : file[k] = longer[k]
  OBVIOUS
<1>3. PICK A : IsReading(file, A, n)
  BY <1>1, ReadingExists
<1> HIDE DEF n, longer
<1>4. n + 1 \in Nat /\ Len(longer) \in Nat \ {0}
  BY <1>1
<1>5. PICK B : IsReading(longer, B, n + 1)
  BY <1>4, ReadingExists
<1>6. A[n] = B[n]
  BY <1>1, <1>2, <1>3, <1>5, ReadingsAgree
<1>7. B[n + 1] = ReadEntry(B[n], e)
  <2>1. n + 1 \in 1..(n + 1) /\ n + 1 # 1 /\ (n + 1) - 1 = n
    BY <1>1
  <2> QED BY <1>1, <1>5, <2>1 DEF IsReading
<1>8. ReadAll(file) = A[n]
  BY <1>1, <1>3, ReadAllIsReading DEF n
<1>9. ReadAll(longer) = B[n + 1]
  BY <1>1, <1>5, ReadAllIsReading
<1> QED BY <1>6, <1>7, <1>8, <1>9 DEF longer

(* The version is read before anything else, and leaves nothing.           *)
LEMMA ReadFirst ==
  ASSUME NEW e
  PROVE  ReadAll(<<e>>) = NothingRead
<1> DEFINE file == <<e>>
<1>1. Len(file) = 1
  OBVIOUS
<1> HIDE DEF file
<1>2. PICK A : IsReading(file, A, 1)
  BY ReadingExists
<1>3. A[1] = NothingRead
  BY <1>2 DEF IsReading
<1>4. ReadAll(file) = A[1]
  <2>1. Len(file) \in Nat \ {0} /\ IsReading(file, A, Len(file))
    BY <1>1, <1>2
  <2> QED BY <1>1, <2>1, ReadAllIsReading
<1> QED BY <1>3, <1>4 DEF file

-----------------------------------------------------------------------------
(* What a map in memory may be.                                            *)
RecordMaps == UNION {[D -> Records] : D \in SUBSET Paths}

(* Files the reader makes sense of, naming each entity once.               *)
WellFormed(file) ==
  /\ file \in Seq(LogEntries) /\ file # <<>> /\ file[1] = Version
  /\ LET r == ReadAll(file)
     IN  /\ r \in [ok : {TRUE}, ents : Seq(Entities), records : RecordMaps]
         /\ \A i, j \in DOMAIN r.ents : r.ents[i] = r.ents[j] => i = j

(* The index of the recorder has the places of the entities in the file.   *)
Indexed(ents, idx) ==
  /\ idx \in [ToSet(ents) -> Nat]
  /\ \A i \in DOMAIN ents : idx[ents[i]] = i - 1

(* The paths named so far have the ids in the buffer, and the prefix of    *)
(* the next one that has been dealt with is the parent of what follows.    *)
Tasks == [path : Paths, record : Records, ids : Seq(Nat), depth : Nat, parent : Nat]

TaskInv ==
  LET deps == task.record.deps
      path == PathNumber(task, Len(task.ids))
  IN  /\ task \in Tasks /\ Len(task.ids) <= Len(deps) + 1
      /\ \A k \in 1..Len(task.ids) :
           /\ PathNumber(task, k - 1) \in DOMAIN index
           /\ task.ids[k] = index[PathNumber(task, k - 1)]
      /\ ~Named => task.depth < Len(path)
      /\ ~Named /\ task.depth > 0 =>
           Prefix(path, task.depth) \in DOMAIN index /\ task.parent = index[Prefix(path, task.depth)]

(* The file that is appended to, and the records but for some.             *)
File == IF rewriting THEN temp ELSE log

Without(S) == [p \in DOMAIN records \ S |-> records[p]]

(* What may be found on disk: nothing, a log without its version, a log of *)
(* another version, or one to be read.                                     *)
IsLog(file) == file \in {Absent, <<>>, <<OldVersion>>} \/ WellFormed(file)

LogInv == IsLog(log)

(* What the process knows of the file it appends to.                       *)
RecorderInv ==
  /\ pc \in {"down", "corrupted", "creating", "up", "recording", "recorded"}
  /\ rewriting \in BOOLEAN
  /\ pc \in {"down", "corrupted"} => ~rewriting /\ records = NoRecords /\ index = NoRecords
  /\ pc = "corrupted" => log = <<>>
  /\ pc = "creating" => File = <<>> /\ index = NoRecords
  /\ pc \in {"up", "recording", "recorded"} =>
       WellFormed(File) /\ Indexed(ReadAll(File).ents, index)
  /\ pc = "recording" => TaskInv
  /\ pc = "recorded" => task.path \in Paths /\ task.record \in Records

(* What the map in memory has to do with the log.                          *)
CacheInv ==
  ~rewriting =>
    /\ pc = "creating" => records = NoRecords
    /\ pc \in {"up", "recording"} => records = ReadAll(log).records
    /\ pc = "recorded" => ReadAll(log).records = Set(records, task.path, task.record)

(* The file that will replace the log has the records dealt with so far.   *)
RewriteInv ==
  rewriting =>
    /\ WellFormed(log) /\ records = ReadAll(log).records
    /\ unwritten \subseteq DOMAIN records
    /\ pc = "creating" => unwritten = DOMAIN records
    /\ pc = "recording" =>
         /\ task.path \in DOMAIN records \ unwritten /\ task.record = records[task.path]
         /\ ReadAll(temp).records = Without(unwritten \cup {task.path})
    /\ pc \in {"up", "recorded"} => ReadAll(temp).records = Without(unwritten)

(* The inductive invariant.                                                *)
IInv == LogInv /\ RecorderInv /\ CacheInv /\ RewriteInv

-----------------------------------------------------------------------------
(* The entities of a path, and how each extends the one before.            *)
LEMMA PathPrefixes ==
  ASSUME NEW p \in Paths
  PROVE  /\ p \in Seq(Names) /\ Len(p) \in Nat \ {0} /\ Prefix(p, Len(p)) = p
         /\ \A d \in 0..(Len(p) - 1) :
              /\ p[d + 1] \in Names /\ Prefix(p, d + 1) \in Entities
              /\ Prefix(p, d + 1) = IF d = 0 THEN <<p[d + 1]>> ELSE Append(Prefix(p, d), p[d + 1])
<1>1. p \in Seq(Names) /\ p # <<>>
  BY PathsAssumption
<1>2. Len(p) \in Nat \ {0}
  BY <1>1, EmptySeq
<1>3. Prefix(p, Len(p)) = p
  BY <1>1, SubSeqFull DEF Prefix
<1>4. ASSUME NEW d \in 0..(Len(p) - 1)
      PROVE  /\ p[d + 1] \in Names /\ Prefix(p, d + 1) \in Entities
             /\ Prefix(p, d + 1) = IF d = 0 THEN <<p[d + 1]>> ELSE Append(Prefix(p, d), p[d + 1])
  <2>1. d + 1 \in 1..Len(p)
    BY <1>2
  <2>2. p[d + 1] \in Names
    BY <1>1, <2>1, ElementOfSeq
  <2>3. Prefix(p, d + 1) \in Entities
    BY <2>1 DEF Entities, PrefixesOf
  <2>4. CASE d = 0
    <3>1. /\ Prefix(p, 1) \in Seq(Names) /\ Len(Prefix(p, 1)) = 1 /\ Prefix(p, 1)[1] = p[1]
      BY <1>1, <1>2 DEF Prefix
    <3>2. <<p[1]>> \in Seq(Names) /\ Len(<<p[1]>>) = 1 /\ <<p[1]>>[1] = p[1]
      BY <2>2, <2>4
    <3>3. Prefix(p, 1) = <<p[1]>>
      BY <3>1, <3>2, SeqEqual
    <3> QED BY <2>2, <2>3, <2>4, <3>3
  <2>5. CASE d # 0
    <3>1. d \in 1..Len(p)
      BY <2>5
    <3>2. /\ Prefix(p, d) \in Seq(Names) /\ Len(Prefix(p, d)) = d
          /\ \A i \in 1..d : Prefix(p, d)[i] = p[i]
      BY <1>1, <3>1 DEF Prefix
    <3>3. /\ Prefix(p, d + 1) \in Seq(Names) /\ Len(Prefix(p, d + 1)) = d + 1
          /\ \A i \in 1..(d + 1) : Prefix(p, d + 1)[i] = p[i]
      BY <1>1, <2>1 DEF Prefix
    <3>4. /\ Append(Prefix(p, d), p[d + 1]) \in Seq(Names)
          /\ Len(Append(Prefix(p, d), p[d + 1])) = d + 1
          /\ \A i \in 1..(d + 1) : Append(Prefix(p, d), p[d + 1])[i] = p[i]
      BY <2>2, <3>1, <3>2
    <3>5. Prefix(p, d + 1) = Append(Prefix(p, d), p[d + 1])
      BY <3>3, <3>4, SeqEqual
    <3> QED BY <2>2, <2>3, <2>5, <3>5
  <2> QED BY <2>2, <2>3, <2>4, <2>5
<1> QED BY <1>1, <1>2, <1>3, <1>4

(* A record is its value and its dependencies, which are a sequence.       *)
LEMMA RecordFields ==
  ASSUME NEW r \in Records
  PROVE  /\ r.value \in Values /\ r.deps \in Seq(Paths)
         /\ r = [value |-> r.value, deps |-> r.deps]
<1>1. BoundedSeq(Paths, MaxDeps) \subseteq Seq(Paths)
  BY BoundsAssumption, SeqDef DEF BoundedSeq, SeqOf
<1> QED BY <1>1 DEF Records

(* Nothing is lost of a number that fits.                                  *)
LEMMA Modulo ==
  ASSUME NEW n \in Nat, NEW m \in Nat, n < m
  PROVE  n % m = n
OBVIOUS

(* The next number is free, and not truncated.                             *)
LEMMA NextId ==
  ASSUME NEW ents \in Seq(Entities), NEW idx, Indexed(ents, idx),
         \A i, j \in DOMAIN ents : ents[i] = ents[j] => i = j
  PROVE  /\ Cardinality(DOMAIN idx) = Len(ents)
         /\ \A e \in Entities \ DOMAIN idx : Len(ents) % IdSpace = Len(ents)
<1>1. Len(ents) \in Nat /\ DOMAIN ents = 1..Len(ents) /\ DOMAIN idx = ToSet(ents)
  BY DEF Indexed
<1>2. ents \in Bijection(1..Len(ents), ToSet(ents))
  BY <1>1 DEF Bijection, Injection, Surjection, IsInjective, ToSet
<1>3. Cardinality(ToSet(ents)) = Len(ents) /\ IsFiniteSet(ToSet(ents))
  <2>1. ExistsBijection(1..Len(ents), ToSet(ents))
    BY <1>2 DEF ExistsBijection
  <2> QED BY <1>1, <2>1, FS_CountingElements, FS_NatBijection
<1>4. ASSUME NEW e \in Entities \ DOMAIN idx PROVE Len(ents) % IdSpace = Len(ents)
  <2>1. ToSet(ents) \cup {e} \in SUBSET Entities
    BY <1>1 DEF ToSet
  <2>2. Cardinality(ToSet(ents) \cup {e}) = Len(ents) + 1
    BY <1>1, <1>3, <1>4, FS_AddElement
  <2>3. Cardinality(ToSet(ents) \cup {e}) <= Cardinality(Entities) /\ Cardinality(Entities) \in Nat
    BY <2>1, IdSpaceAssumption, FS_Subset, FS_CardinalityType
  <2>4. Len(ents) < IdSpace /\ IdSpace \in Nat
    BY <1>1, <2>2, <2>3, IdSpaceAssumption
  <2> QED BY <1>1, <2>4, Modulo
<1> QED BY <1>1, <1>3, <1>4

(* An entity that is new to the recorder is new to the reader, and the     *)
(* reader gives it the number it has in the index.                         *)
LEMMA EntityWritten ==
  ASSUME NEW file, WellFormed(file), NEW idx, Indexed(ReadAll(file).ents, idx),
         NEW e \in Entities \ DOMAIN idx, NEW entry \in LogEntries,
         ReadEntry(ReadAll(file), entry) = [ReadAll(file) EXCEPT !.ents = Append(@, e)]
  PROVE  /\ WellFormed(Append(file, entry))
         /\ ReadAll(Append(file, entry)).records = ReadAll(file).records
         /\ Indexed(ReadAll(Append(file, entry)).ents,
                    Set(idx, e, Cardinality(DOMAIN idx) % IdSpace))
         /\ Cardinality(DOMAIN idx) \in Nat
         /\ Cardinality(DOMAIN idx) = Set(idx, e, Cardinality(DOMAIN idx) % IdSpace)[e]
<1> DEFINE r == ReadAll(file)
           s == ReadAll(Append(file, entry))
           ents == r.ents
           n == Cardinality(DOMAIN idx) % IdSpace
<1>1. file \in Seq(LogEntries) /\ file # <<>> /\ file[1] = Version
  BY DEF WellFormed
<1>2. /\ r \in [ok : {TRUE}, ents : Seq(Entities), records : RecordMaps]
      /\ ents \in Seq(Entities) /\ r.records \in RecordMaps /\ r.ents = ents
      /\ \A i, j \in DOMAIN ents : ents[i] = ents[j] => i = j
  BY DEF WellFormed
<1>3. s = [r EXCEPT !.ents = Append(ents, e)]
  BY <1>1, ReadAppended
<1> HIDE DEF r, s, ents
<1>4. s = [ok |-> TRUE, ents |-> Append(ents, e), records |-> r.records]
  BY <1>2, <1>3
<1>5. Append(file, entry) \in Seq(LogEntries) /\ Append(file, entry) # <<>> /\ Append(file, entry)[1] = Version
  BY <1>1
<1>6. Indexed(ents, idx)
  BY DEF ents, r
<1>7. Cardinality(DOMAIN idx) = Len(ents) /\ n = Len(ents)
  BY <1>2, <1>6, NextId
<1>8. Len(ents) \in Nat /\ DOMAIN ents = 1..Len(ents) /\ DOMAIN idx = ToSet(ents)
  BY <1>2, <1>6 DEF Indexed
<1> HIDE DEF n
<1>9. /\ Append(ents, e) \in Seq(Entities) /\ DOMAIN Append(ents, e) = 1..(Len(ents) + 1)
      /\ \A i \in 1..Len(ents) : Append(ents, e)[i] = ents[i]
      /\ Append(ents, e)[Len(ents) + 1] = e
  BY <1>2, <1>8
<1>10. \A i \in 1..Len(ents) : ents[i] # e
  BY <1>8 DEF ToSet
<1>11. \A i, j \in DOMAIN Append(ents, e) : Append(ents, e)[i] = Append(ents, e)[j] => i = j
  <2> SUFFICES ASSUME NEW i \in 1..(Len(ents) + 1), NEW j \in 1..(Len(ents) + 1),
                      Append(ents, e)[i] = Append(ents, e)[j]
               PROVE  i = j
    BY <1>9
  <2>1. (i \in 1..Len(ents) \/ i = Len(ents) + 1) /\ (j \in 1..Len(ents) \/ j = Len(ents) + 1)
    BY <1>8
  <2> QED BY <1>2, <1>8, <1>9, <1>10, <2>1
<1>12. WellFormed(Append(file, entry))
  BY <1>2, <1>4, <1>5, <1>9, <1>11 DEF WellFormed, s
<1>13. ToSet(Append(ents, e)) = ToSet(ents) \cup {e}
  <2>1. \A i \in 1..(Len(ents) + 1) : i \in 1..Len(ents) \/ i = Len(ents) + 1
    BY <1>8
  <2> QED BY <1>8, <1>9, <2>1 DEF ToSet
<1>14. Set(idx, e, n) \in [ToSet(Append(ents, e)) -> Nat]
  BY <1>6, <1>7, <1>8, <1>13 DEF Set, Indexed
<1>15. \A i \in 1..(Len(ents) + 1) : Set(idx, e, n)[Append(ents, e)[i]] = i - 1
  <2> SUFFICES ASSUME NEW i \in 1..(Len(ents) + 1) PROVE Set(idx, e, n)[Append(ents, e)[i]] = i - 1
    OBVIOUS
  <2>1. CASE i = Len(ents) + 1
    BY <1>7, <1>8, <1>9, <2>1 DEF Set
  <2>2. CASE i # Len(ents) + 1
    <3>1. i \in 1..Len(ents) /\ ents[i] # e /\ ents[i] \in DOMAIN idx
      BY <1>8, <1>10, <2>2 DEF ToSet
    <3> QED BY <1>6, <1>8, <1>9, <3>1 DEF Set, Indexed
  <2> QED BY <2>1, <2>2
<1>16. Indexed(Append(ents, e), Set(idx, e, n))
  BY <1>9, <1>14, <1>15 DEF Indexed
<1>17. Set(idx, e, n)[e] = n
  BY DEF Set
<1> QED BY <1>4, <1>7, <1>8, <1>12, <1>16, <1>17 DEF s, r, n

(* An update is read as the record of the file it was written for.         *)
LEMMA UpdateWritten ==
  ASSUME NEW file, WellFormed(file), NEW p \in Paths, NEW r \in Records,
         NEW id \in Nat, NEW deps \in Seq(Nat), DOMAIN deps = DOMAIN r.deps,
         id + 1 \in DOMAIN ReadAll(file).ents, ReadAll(file).ents[id + 1] = p,
         \A k \in DOMAIN deps : /\ deps[k] + 1 \in DOMAIN ReadAll(file).ents
                                /\ ReadAll(file).ents[deps[k] + 1] = r.deps[k]
  PROVE  LET longer == Append(file, Update(r.value, id, deps))
         IN  /\ WellFormed(longer)
             /\ ReadAll(longer).ents = ReadAll(file).ents
             /\ ReadAll(longer).records = Set(ReadAll(file).records, p, r)
<1> DEFINE e == Update(r.value, id, deps)
           before == ReadAll(file)
           after == ReadAll(Append(file, e))
<1>1. file \in Seq(LogEntries) /\ file # <<>> /\ file[1] = Version
  BY DEF WellFormed
<1>2. /\ before \in [ok : {TRUE}, ents : Seq(Entities), records : RecordMaps]
      /\ before.ents \in Seq(Entities) /\ before.records \in RecordMaps
      /\ \A i, j \in DOMAIN before.ents : before.ents[i] = before.ents[j] => i = j
  BY DEF WellFormed
<1>3. e \in LogEntries
  BY RecordFields DEF LogEntries, Update
<1>4. after = ReadEntry(before, e)
  BY <1>1, <1>3, ReadAppended
<1> HIDE DEF before, after
<1>5. /\ e.kind = "file_update" /\ e.value = r.value /\ e.id = id /\ e.deps = deps
      /\ e.kind # "root_entity_name" /\ e.kind # "entity_name"
  BY DEF Update
<1>6. [k \in DOMAIN deps |-> before.ents[deps[k] + 1]] = r.deps
  <2>1. r.deps \in Seq(Paths)
    BY RecordFields
  <2>2. r.deps = [k \in DOMAIN deps |-> r.deps[k]]
    BY <2>1
  <2> QED BY <2>2 DEF before
<1>7. ReadEntry(before, e) = [before EXCEPT !.records = Set(before.records, p, r)]
  <2> HIDE DEF e
  <2>1. id + 1 \in DOMAIN before.ents /\ \A k \in DOMAIN deps : deps[k] + 1 \in DOMAIN before.ents
    BY DEF before
  <2>2. ReadEntry(before, e) =
          [before EXCEPT !.records = Set(before.records, before.ents[id + 1],
             [value |-> r.value, deps |-> [k \in DOMAIN deps |-> before.ents[deps[k] + 1]]])]
    BY <1>5, <2>1 DEF ReadEntry
  <2>3. before.ents[id + 1] = p
    BY DEF before
  <2> QED BY <1>6, <2>2, <2>3, RecordFields
<1>8. after = [ok |-> TRUE, ents |-> before.ents, records |-> Set(before.records, p, r)]
  BY <1>2, <1>4, <1>7
<1>9. Set(before.records, p, r) \in RecordMaps
  <2>1. PICK D \in SUBSET Paths : before.records \in [D -> Records]
    BY <1>2 DEF RecordMaps
  <2>2. Set(before.records, p, r) \in [D \cup {p} -> Records]
    BY <2>1 DEF Set
  <2>3. D \cup {p} \in SUBSET Paths
    OBVIOUS
  <2> QED BY <2>2, <2>3 DEF RecordMaps
<1>10. Append(file, e) \in Seq(LogEntries) /\ Append(file, e) # <<>> /\ Append(file, e)[1] = Version
  BY <1>1, <1>3
<1> HIDE DEF e
<1>11. WellFormed(Append(file, e))
  BY <1>2, <1>8, <1>9, <1>10 DEF WellFormed, after
<1> QED BY <1>8, <1>11 DEF e, before, after

-----------------------------------------------------------------------------
(* The entity at an indexed place is the one it is the index of.           *)
LEMMA IndexedPlace ==
  ASSUME NEW ents \in Seq(Entities), NEW idx, Indexed(ents, idx), NEW e \in DOMAIN idx
  PROVE  idx[e] \in Nat /\ idx[e] + 1 \in DOMAIN ents /\ ents[idx[e] + 1] = e
<1>1. PICK i \in DOMAIN ents : ents[i] = e
  BY DEF Indexed, ToSet
<1>2. idx[e] = i - 1 /\ i \in Nat /\ idx[e] \in Nat
  BY <1>1 DEF Indexed, ToSet
<1> QED BY <1>1, <1>2

(* What record() is at, taken apart.                                       *)
LEMMA TaskParts ==
  ASSUME TaskInv
  PROVE  /\ task.path \in Paths /\ task.record \in Records /\ task.record.deps \in Seq(Paths)
         /\ Len(task.record.deps) \in Nat /\ DOMAIN task.record.deps = 1..Len(task.record.deps)
         /\ task.ids \in Seq(Nat) /\ Len(task.ids) \in Nat
         /\ task.depth \in Nat /\ task.parent \in Nat
         /\ \A k \in 0..Len(task.record.deps) : PathNumber(task, k) \in Paths
         /\ ~Named => PathNumber(task, Len(task.ids)) \in Paths
<1>1. task \in Tasks
  BY DEF TaskInv
<1>2. task.path \in Paths /\ task.record \in Records /\ task.ids \in Seq(Nat)
      /\ task.depth \in Nat /\ task.parent \in Nat
  BY <1>1 DEF Tasks
<1>3. task.record.deps \in Seq(Paths)
  BY <1>2, RecordFields
<1>4. Len(task.record.deps) \in Nat /\ Len(task.ids) \in Nat
      /\ DOMAIN task.record.deps = 1..Len(task.record.deps)
  BY <1>2, <1>3, LenProperties
<1>5. \A k \in 0..Len(task.record.deps) : PathNumber(task, k) \in Paths
  <2> SUFFICES ASSUME NEW k \in 0..Len(task.record.deps) PROVE PathNumber(task, k) \in Paths
    OBVIOUS
  <2>1. CASE k = 0
    BY <1>2, <2>1 DEF PathNumber
  <2>2. CASE k # 0
    <3>1. k \in 1..Len(task.record.deps)
      BY <1>4, <2>2
    <3> QED BY <1>3, <2>2, <3>1, ElementOfSeq DEF PathNumber
  <2> QED BY <2>1, <2>2
<1>6. ~Named => Len(task.ids) \in 0..Len(task.record.deps)
  BY <1>4 DEF Named, TaskInv
<1> QED BY <1>2, <1>3, <1>4, <1>5, <1>6

(* What the task is once a prefix has its id: either the next prefix of    *)
(* the same path is due, or the id is that of the path.                    *)
LEMMA AdvancedFields ==
  ASSUME task \in Tasks, NEW id \in Nat
  PROVE  LET next == Advanced(id)
         IN  /\ next \in Tasks /\ next.path = task.path /\ next.record = task.record
             /\ task.depth + 1 < Len(PathNumber(task, Len(task.ids))) =>
                  next.ids = task.ids /\ next.depth = task.depth + 1 /\ next.parent = id
             /\ ~(task.depth + 1 < Len(PathNumber(task, Len(task.ids)))) =>
                  next.ids = Append(task.ids, id) /\ next.depth = 0
<1>1. /\ task.path \in Paths /\ task.record \in Records /\ task.ids \in Seq(Nat)
      /\ task.depth \in Nat /\ task.depth + 1 \in Nat /\ task.parent \in Nat
  BY DEF Tasks
<1>2. CASE task.depth + 1 < Len(PathNumber(task, Len(task.ids)))
  <2>1. Advanced(id) = [task EXCEPT !.depth = task.depth + 1, !.parent = id]
    BY <1>2 DEF Advanced
  <2> QED BY <1>1, <1>2, <2>1 DEF Tasks
<1>3. CASE ~(task.depth + 1 < Len(PathNumber(task, Len(task.ids))))
  <2> DEFINE ids == Append(task.ids, id)
             zero == 0
  <2>1. ids \in Seq(Nat) /\ zero \in Nat
    BY <1>1
  <2>2. Advanced(id) = [task EXCEPT !.depth = zero, !.parent = zero, !.ids = ids]
    BY <1>3 DEF Advanced
  <2> HIDE DEF ids, zero
  <2>3. /\ Advanced(id) \in Tasks /\ Advanced(id).ids = ids /\ Advanced(id).depth = zero
        /\ Advanced(id).path = task.path /\ Advanced(id).record = task.record
    BY <2>1, <2>2 DEF Tasks
  <2> QED BY <1>3, <2>3 DEF ids, zero
<1> QED BY <1>2, <1>3

(* The loop goes on to the next prefix, or to the next path.               *)
LEMMA Advancing ==
  ASSUME TaskInv, ~Named, NEW id \in Nat, task' = Advanced(id),
         \A e \in DOMAIN index : e \in DOMAIN index' /\ index'[e] = index[e],
         LET prefix == Prefix(PathNumber(task, Len(task.ids)), task.depth + 1)
         IN  prefix \in DOMAIN index' /\ index'[prefix] = id
  PROVE  TaskInv' /\ task'.path = task.path /\ task'.record = task.record
<1> DEFINE n == Len(task.ids)
           path == PathNumber(task, n)
           d == task.depth
           deps == task.record.deps
<1>1. /\ task \in Tasks /\ n \in Nat /\ Len(deps) \in Nat /\ n <= Len(deps) /\ d \in Nat
      /\ task.ids \in Seq(Nat) /\ d < Len(path) /\ path \in Paths
  BY TaskParts DEF TaskInv, Named
<1>2. Len(path) \in Nat \ {0} /\ Prefix(path, Len(path)) = path
  BY <1>1, PathPrefixes
<1>3. \A k \in 1..n : /\ PathNumber(task, k - 1) \in DOMAIN index'
                      /\ task.ids[k] = index'[PathNumber(task, k - 1)]
  BY <1>1 DEF TaskInv
<1>4. CASE d + 1 < Len(path)
  <2>2. /\ task' \in Tasks /\ task'.ids = task.ids /\ task'.depth = d + 1 /\ task'.parent = id
        /\ task'.path = task.path /\ task'.record = task.record
    BY <1>1, <1>4, AdvancedFields
  <2>3. \A k : PathNumber(task', k) = PathNumber(task, k)
    BY <2>2 DEF PathNumber
  <2>4. TaskInv'
    <3>1. task'.depth < Len(PathNumber(task', Len(task'.ids)))
      BY <1>4, <2>2, <2>3
    <3>2. /\ Prefix(PathNumber(task', Len(task'.ids)), task'.depth) \in DOMAIN index'
          /\ task'.parent = index'[Prefix(PathNumber(task', Len(task'.ids)), task'.depth)]
      BY <2>2, <2>3
    <3>3. Len(task'.ids) <= Len(task'.record.deps) + 1
      BY <1>1, <2>2
    <3>4. \A k \in 1..Len(task'.ids) :
            /\ PathNumber(task', k - 1) \in DOMAIN index'
            /\ task'.ids[k] = index'[PathNumber(task', k - 1)]
      BY <1>3, <2>2, <2>3
    <3> QED BY <2>2, <3>1, <3>2, <3>3, <3>4 DEF TaskInv
  <2> QED BY <2>2, <2>4
<1>5. CASE ~(d + 1 < Len(path))
  <2>2. d + 1 = Len(path) /\ Prefix(path, d + 1) = path
    BY <1>1, <1>2, <1>5
  <2>3. /\ task' \in Tasks /\ task'.ids = Append(task.ids, id) /\ task'.depth = 0
        /\ task'.path = task.path /\ task'.record = task.record
    BY <1>1, <1>5, AdvancedFields
  <2>4. /\ Len(task'.ids) = n + 1 /\ task'.ids[n + 1] = id
        /\ \A k \in 1..n : task'.ids[k] = task.ids[k]
    BY <1>1, <2>3
  <2>5. \A k : PathNumber(task', k) = PathNumber(task, k)
    BY <2>3 DEF PathNumber
  <2>6. \A k \in 1..(n + 1) : /\ PathNumber(task', k - 1) \in DOMAIN index'
                              /\ task'.ids[k] = index'[PathNumber(task', k - 1)]
    <3> SUFFICES ASSUME NEW k \in 1..(n + 1)
                 PROVE  /\ PathNumber(task, k - 1) \in DOMAIN index'
                        /\ task'.ids[k] = index'[PathNumber(task, k - 1)]
      BY <2>5
    <3>1. CASE k = n + 1
      <4>1. k - 1 = n
        BY <1>1, <3>1
      <4> QED BY <2>2, <2>4, <3>1, <4>1
    <3>2. CASE k # n + 1
      <4>1. k \in 1..n
        BY <1>1, <3>2
      <4> QED BY <1>3, <2>4, <4>1
    <3> QED BY <3>1, <3>2
  <2>7. ~Named' => 0 < Len(PathNumber(task', Len(task'.ids)))
    <3>1. ASSUME ~Named' PROVE n + 1 \in 0..Len(deps)
      BY <1>1, <2>3, <2>4, <3>1 DEF Named
    <3>2. ASSUME ~Named' PROVE PathNumber(task', n + 1) \in Paths
      BY <2>5, <3>1, <3>2, TaskParts
    <3>3. ASSUME ~Named' PROVE Len(PathNumber(task', n + 1)) \in Nat \ {0}
      BY <3>2, <3>3, PathPrefixes
    <3> QED BY <2>4, <3>3
  <2>8. Len(task'.ids) <= Len(task'.record.deps) + 1
    BY <1>1, <2>3, <2>4
  <2>9. TaskInv'
    BY <2>3, <2>4, <2>6, <2>7, <2>8 DEF TaskInv
  <2> QED BY <2>3, <2>9
<1> QED BY <1>4, <1>5

(* The entry written for a new entity is read as that entity.              *)
LEMMA EntityRead ==
  ASSUME NEW file, WellFormed(file), Indexed(ReadAll(file).ents, index), TaskInv, ~Named
  PROVE  LET path   == PathNumber(task, Len(task.ids))
             prefix == Prefix(path, task.depth + 1)
             name   == path[task.depth + 1]
             entry  == IF task.depth = 0 THEN RootName(name) ELSE Name(task.parent, name)
         IN  /\ prefix \in Entities /\ entry \in LogEntries
             /\ ReadEntry(ReadAll(file), entry) = [ReadAll(file) EXCEPT !.ents = Append(@, prefix)]
<1> DEFINE path   == PathNumber(task, Len(task.ids))
           d      == task.depth
           prefix == Prefix(path, d + 1)
           name   == path[d + 1]
           r      == ReadAll(file)
<1>1. path \in Paths /\ d \in Nat /\ d < Len(path) /\ task.parent \in Nat
  BY TaskParts DEF TaskInv
<1>2. /\ name \in Names /\ prefix \in Entities
      /\ prefix = IF d = 0 THEN <<name>> ELSE Append(Prefix(path, d), name)
  <2>1. Len(path) \in Nat /\ d \in 0..(Len(path) - 1)
    BY <1>1, PathPrefixes
  <2> QED BY <1>1, <2>1, PathPrefixes
<1>3. r.ents \in Seq(Entities)
  BY DEF WellFormed
<1>4. CASE d = 0
  <2>1. RootName(name) \in LogEntries
    BY <1>2 DEF RootName, LogEntries
  <2>2. RootName(name).kind = "root_entity_name" /\ RootName(name).name = name
    BY DEF RootName
  <2> HIDE DEF name, r
  <2>3. ReadEntry(r, RootName(name)) = [r EXCEPT !.ents = Append(@, <<name>>)]
    BY <2>2 DEF ReadEntry
  <2> QED BY <1>2, <1>4, <2>1, <2>3 DEF name, r
<1>5. CASE d # 0
  <2>1. Name(task.parent, name) \in LogEntries
    BY <1>1, <1>2 DEF Name, LogEntries
  <2>2. Prefix(path, d) \in DOMAIN index /\ task.parent = index[Prefix(path, d)]
    BY <1>1, <1>5 DEF TaskInv
  <2>3. task.parent + 1 \in DOMAIN r.ents /\ r.ents[task.parent + 1] = Prefix(path, d)
    BY <1>3, <2>2, IndexedPlace
  <2> DEFINE e == Name(task.parent, name)
  <2>4. /\ e.kind = "entity_name" /\ e.parent = task.parent /\ e.name = name
        /\ e.kind # "root_entity_name"
    BY DEF Name
  <2> HIDE DEF name, r, e
  <2>5. ReadEntry(r, e) = [r EXCEPT !.ents = Append(@, Append(r.ents[task.parent + 1], name))]
    BY <2>3, <2>4 DEF ReadEntry
  <2>6. ReadEntry(r, e) = [r EXCEPT !.ents = Append(@, prefix)]
    BY <1>2, <1>5, <2>3, <2>5
  <2> QED BY <1>2, <1>5, <2>1, <2>6 DEF name, r, e
<1> QED BY <1>4, <1>5

-----------------------------------------------------------------------------
(* The files a process may find, and those it starts.                      *)
LEMMA LogIsAFile ==
  ASSUME NEW file, IsLog(file)
  PROVE  /\ Readable(file) <=> WellFormed(file)
         /\ WellFormed(file) => OnDisk(file) = ReadAll(file).records /\ ~Outdated(file)
         /\ ~WellFormed(file) => OnDisk(file) = NoRecords /\ (Empty(file) \/ Outdated(file))
         /\ ~Empty(file) => file \in Seq(LogEntries)
<1>1. CASE WellFormed(file)
  <2>1. file \in Seq(LogEntries) /\ file # <<>> /\ file[1] = Version /\ ReadAll(file).ok
    BY <1>1 DEF WellFormed
  <2>2. file # Absent
    BY <2>1, AbsentAssumption
  <2>3. Head(file) = Version
    BY <2>1
  <2> QED BY <1>1, <2>1, <2>2, <2>3 DEF Readable, Outdated, Empty, OnDisk
<1>2. CASE ~WellFormed(file)
  <2>1. file \in {Absent, <<>>} \/ file = <<OldVersion>>
    BY <1>2 DEF IsLog
  <2>2. Head(<<OldVersion>>) # Version /\ <<OldVersion>> \in Seq(LogEntries)
    BY DEF OldVersion, Version, LogEntries
  <2>3. ~Readable(file)
    BY <2>1, <2>2 DEF Readable, Empty
  <2>4. ~Empty(file) => file = <<OldVersion>>
    BY <2>1 DEF Empty
  <2> QED BY <1>2, <2>2, <2>3, <2>4 DEF OnDisk, Outdated
<1> QED BY <1>1, <1>2

(* A file that has only its version has nothing in it.                     *)
LEMMA NewFile ==
  /\ WellFormed(<<Version>>) /\ ReadAll(<<Version>>) = NothingRead
  /\ Indexed(NothingRead.ents, NoRecords) /\ NothingRead.records = NoRecords
<1>1. ReadAll(<<Version>>) = NothingRead
  BY ReadFirst
<1>2. <<Version>> \in Seq(LogEntries) /\ <<Version>> # <<>> /\ <<Version>>[1] = Version
  BY DEF LogEntries
<1>3. NoRecords \in RecordMaps
  BY DEF RecordMaps, NoRecords
<1>4. /\ NothingRead \in [ok : {TRUE}, ents : Seq(Entities), records : RecordMaps]
      /\ NothingRead.ents = <<>> /\ NothingRead.records = NoRecords
  BY <1>3 DEF NothingRead
<1>5. WellFormed(<<Version>>)
  <2>1. DOMAIN NothingRead.ents = {}
    BY <1>4
  <2> QED BY <1>1, <1>2, <1>4, <2>1 DEF WellFormed
<1>6. Indexed(NothingRead.ents, NoRecords)
  BY <1>4 DEF Indexed, NoRecords, ToSet
<1> QED BY <1>1, <1>4, <1>5, <1>6

(* The index made from a file is that of the file.                         *)
LEMMA IndexBuilt ==
  ASSUME NEW ents \in Seq(Entities), \A i, j \in DOMAIN ents : ents[i] = ents[j] => i = j
  PROVE  Indexed(ents, BuildEntIndex(ents))
<1> DEFINE idx == BuildEntIndex(ents)
<1>1. Len(ents) \in Nat /\ DOMAIN ents = 1..Len(ents)
  OBVIOUS
<1>2. ASSUME NEW i \in DOMAIN ents PROVE PlaceOf(ents[i], ents) = i
  <2>1. \E j \in DOMAIN ents : ents[j] = ents[i] /\ \A k \in DOMAIN ents : ents[k] = ents[i] => k <= j
    <3>1. i <= i
      BY <1>1
    <3> QED BY <3>1
  <2> QED BY <2>1, Zenon DEF PlaceOf
<1>3. ents \in Bijection(1..Len(ents), ToSet(ents))
  BY <1>1 DEF Bijection, Injection, Surjection, IsInjective, ToSet
<1>4. Cardinality(ToSet(ents)) = Len(ents)
  <2>1. ExistsBijection(1..Len(ents), ToSet(ents))
    BY <1>3 DEF ExistsBijection
  <2> QED BY <1>1, <2>1, FS_CountingElements
<1>5. Len(ents) <= IdSpace /\ IdSpace \in Nat
  <2>1. ToSet(ents) \in SUBSET Entities
    BY <1>1 DEF ToSet
  <2> QED BY <1>1, <1>4, <2>1, IdSpaceAssumption, FS_Subset, FS_CardinalityType
<1>6. ASSUME NEW i \in DOMAIN ents PROVE (PlaceOf(ents[i], ents) - 1) % IdSpace = i - 1
  <2>1. i - 1 \in Nat /\ i - 1 < IdSpace
    BY <1>1, <1>5
  <2>2. PlaceOf(ents[i], ents) = i
    BY <1>2
  <2>3. (i - 1) % IdSpace = i - 1
    BY <1>5, <2>1, Modulo
  <2> QED BY <2>2, <2>3
<1>7. idx = [e \in ToSet(ents) |-> (PlaceOf(e, ents) - 1) % IdSpace]
  BY DEF BuildEntIndex
<1> HIDE DEF idx
<1>8. \A i \in DOMAIN ents : ents[i] \in ToSet(ents) /\ idx[ents[i]] = i - 1
  BY <1>6, <1>7 DEF ToSet
<1>9. \A e \in ToSet(ents) : idx[e] \in Nat
  BY <1>1, <1>8 DEF ToSet
<1>10. idx \in [ToSet(ents) -> Nat]
  BY <1>7, <1>9
<1> QED BY <1>8, <1>10 DEF Indexed, idx

-----------------------------------------------------------------------------
(* The invariant holds at first.                                           *)
LEMMA InitInv == Init => IInv
<1> SUFFICES ASSUME Init PROVE IInv
  OBVIOUS
<1>1. LogInv
  BY DEF Init, LogInv, IsLog
<1>2. RecorderInv /\ CacheInv /\ RewriteInv
  BY DEF Init, RecorderInv, CacheInv, RewriteInv
<1> QED BY <1>1, <1>2 DEF IInv

(* Each step of the program keeps the invariant. A log that is created has *)
(* no content, its recorder no index.                                      *)
LEMMA OpenFreshInv == IInv /\ OpenFresh => IInv'
<1> SUFFICES ASSUME IInv, OpenFresh PROVE IInv'
  OBVIOUS
<1> USE DEF IInv, OpenFresh, memory
<1>1. LogInv'
  BY DEF LogInv, IsLog
<1>2. RecorderInv'
  BY DEF RecorderInv, File
<1>3. CacheInv' /\ RewriteInv'
  BY DEF RecorderInv, CacheInv, RewriteInv
<1> QED BY <1>1, <1>2, <1>3

(* The version makes it a file to be read, with nothing in it.             *)
LEMMA WriteVersionInv == IInv /\ WriteVersion => IInv'
<1> SUFFICES ASSUME IInv, WriteVersion PROVE IInv'
  OBVIOUS
<1>1. /\ pc = "creating" /\ pc' = "up" /\ File = <<>> /\ index = NoRecords
      /\ UNCHANGED memory /\ rewriting \in BOOLEAN
  BY DEF IInv, RecorderInv, WriteVersion
<1>2. File' = <<Version>> /\ (rewriting => log' = log)
  BY <1>1 DEF WriteVersion, Write, File, memory
<1>3. WellFormed(File') /\ ReadAll(File') = NothingRead
  BY <1>2, NewFile
<1>4. RecorderInv'
  BY <1>1, <1>3, NewFile DEF RecorderInv, memory
<1>5. LogInv'
  <2>1. CASE rewriting
    BY <1>2, <2>1 DEF IInv, LogInv, IsLog, WellFormed
  <2>2. CASE ~rewriting
    BY <1>1, <1>3, <2>2 DEF File, memory, LogInv, IsLog
  <2> QED BY <2>1, <2>2
<1>6. CacheInv'
  <2>1. ~rewriting => File' = log' /\ records = NoRecords
    BY <1>1 DEF IInv, CacheInv, File, memory
  <2> QED BY <1>1, <1>3, <2>1, NewFile DEF CacheInv, memory
<1>7. RewriteInv'
  <2> SUFFICES ASSUME rewriting PROVE RewriteInv'
    BY <1>1 DEF RewriteInv, memory
  <2>1. WellFormed(log') /\ records' = ReadAll(log').records /\ unwritten' = DOMAIN records'
    BY <1>1, <1>2 DEF IInv, RewriteInv, memory
  <2>2. File' = temp'
    BY <1>1 DEF File, memory
  <2>3. ReadAll(temp').records = Without(unwritten)'
    BY <1>3, <2>1, <2>2, NewFile DEF Without, NoRecords
  <2> QED BY <1>1, <2>1, <2>3 DEF RewriteInv
<1> QED BY <1>4, <1>5, <1>6, <1>7 DEF IInv

(* The recorder that continues a log has the index of that log.            *)
LEMMA OpenExistingInv == IInv /\ OpenExisting => IInv'
<1> SUFFICES ASSUME IInv, OpenExisting PROVE IInv'
  OBVIOUS
<1>1. /\ pc = "down" /\ ~rewriting /\ rewriting \in BOOLEAN /\ pc' = "up" /\ Readable(log)
      /\ records' = ReadAll(log).records /\ index' = BuildEntIndex(ReadAll(log).ents)
      /\ UNCHANGED <<log, temp, rewriting, task, unwritten>>
  BY DEF IInv, RecorderInv, OpenExisting
<1>2. WellFormed(log)
  BY <1>1, LogIsAFile DEF LogInv, IInv
<1>3. Indexed(ReadAll(log).ents, index')
  BY <1>1, <1>2, IndexBuilt DEF WellFormed
<1>4. File' = log
  BY <1>1 DEF File
<1>5. RecorderInv'
  <2>1. WellFormed(File') /\ Indexed(ReadAll(File').ents, index')
    BY <1>2, <1>3, <1>4
  <2>2. rewriting' \in BOOLEAN
    BY <1>1
  <2> HIDE DEF File
  <2> QED BY <1>1, <2>1, <2>2 DEF RecorderInv
<1>6. CacheInv' /\ RewriteInv'
  BY <1>1 DEF CacheInv, RewriteInv
<1>7. LogInv'
  BY <1>1, <1>2 DEF LogInv, IsLog
<1> QED BY <1>5, <1>6, <1>7 DEF IInv

(* An entity is named, whether or not it has to be written first.          *)
LEMMA NameEntityWrites ==
  ASSUME IInv, NameEntity
  PROVE  /\ WellFormed(File') /\ ReadAll(File').records = ReadAll(File).records
         /\ Indexed(ReadAll(File').ents, index')
         /\ TaskInv' /\ task'.path = task.path /\ task'.record = task.record
         /\ UNCHANGED <<pc, records, rewriting, unwritten>> /\ pc = "recording"
         /\ rewriting \in BOOLEAN /\ (rewriting => UNCHANGED log)
<1> DEFINE path   == PathNumber(task, Len(task.ids))
           prefix == Prefix(path, task.depth + 1)
           name   == path[task.depth + 1]
           n      == Cardinality(DOMAIN index)
           entry  == IF task.depth = 0 THEN RootName(name) ELSE Name(task.parent, name)
<1>1. /\ pc = "recording" /\ ~Named /\ UNCHANGED <<pc, records, rewriting, unwritten>>
      /\ rewriting \in BOOLEAN /\ TaskInv
      /\ WellFormed(File) /\ Indexed(ReadAll(File).ents, index)
  BY DEF NameEntity, IInv, RecorderInv
<1>2. CASE prefix \in DOMAIN index
  <2>1. task' = Advanced(index[prefix]) /\ UNCHANGED <<log, temp, index>>
    BY <1>2 DEF NameEntity
  <2>2. File' = File
    BY <1>1, <2>1 DEF File
  <2>3. index[prefix] \in Nat
    BY <1>1, <1>2 DEF Indexed
  <2>4. TaskInv' /\ task'.path = task.path /\ task'.record = task.record
    BY <1>1, <1>2, <2>1, <2>3, Advancing
  <2> QED BY <1>1, <2>1, <2>2, <2>4
<1>3. CASE prefix \notin DOMAIN index
  <2>1. task' = Advanced(n) /\ index' = Set(index, prefix, n % IdSpace) /\ Write(entry)
    BY <1>3 DEF NameEntity
  <2>2. File' = Append(File, entry) /\ (rewriting => UNCHANGED log)
    BY <1>1, <2>1 DEF File, Write
  <2>3. /\ prefix \in Entities \ DOMAIN index /\ entry \in LogEntries
        /\ ReadEntry(ReadAll(File), entry) = [ReadAll(File) EXCEPT !.ents = Append(@, prefix)]
    BY <1>1, <1>3, EntityRead
  <2> HIDE DEF prefix, entry, path, name, n
  <2>4. /\ WellFormed(File') /\ ReadAll(File').records = ReadAll(File).records
        /\ Indexed(ReadAll(File').ents, index')
        /\ n \in Nat /\ n = index'[prefix]
    BY <1>1, <2>1, <2>2, <2>3, EntityWritten DEF n
  <2>5. /\ \A e \in DOMAIN index : e \in DOMAIN index' /\ index'[e] = index[e]
        /\ prefix \in DOMAIN index'
    BY <1>3, <2>1 DEF Set
  <2>6. TaskInv' /\ task'.path = task.path /\ task'.record = task.record
    BY <1>1, <2>1, <2>4, <2>5, Advancing DEF prefix, path
  <2> QED BY <1>1, <2>2, <2>4, <2>6
<1> QED BY <1>2, <1>3

(* Naming an entity changes nothing of what the file says.                 *)
LEMMA NameEntityInv == IInv /\ NameEntity => IInv'
<1> SUFFICES ASSUME IInv, NameEntity PROVE IInv'
  OBVIOUS
<1>1. /\ WellFormed(File') /\ ReadAll(File').records = ReadAll(File).records
      /\ Indexed(ReadAll(File').ents, index')
      /\ TaskInv' /\ task'.path = task.path /\ task'.record = task.record
      /\ UNCHANGED <<pc, records, rewriting, unwritten>> /\ pc = "recording"
      /\ rewriting \in BOOLEAN /\ (rewriting => UNCHANGED log)
  BY NameEntityWrites
<1>2. RecorderInv'
  BY <1>1 DEF RecorderInv
<1>3. CASE rewriting
  <2>1. File' = temp' /\ File = temp /\ log' = log /\ rewriting'
    BY <1>1, <1>3 DEF File
  <2>2. /\ WellFormed(log) /\ records = ReadAll(log).records /\ unwritten \subseteq DOMAIN records
        /\ task.path \in DOMAIN records \ unwritten /\ task.record = records[task.path]
        /\ ReadAll(temp).records = Without(unwritten \cup {task.path})
    BY <1>1, <1>3 DEF IInv, RewriteInv
  <2>3. LogInv' /\ CacheInv'
    BY <2>1, <2>2 DEF LogInv, IsLog, CacheInv
  <2>4. ReadAll(temp').records = Without(unwritten \cup {task.path})'
    BY <1>1, <2>1, <2>2 DEF Without
  <2>5. RewriteInv'
    BY <1>1, <2>1, <2>2, <2>4 DEF RewriteInv
  <2> QED BY <1>2, <2>3, <2>5 DEF IInv
<1>4. CASE ~rewriting
  <2>1. File' = log' /\ File = log /\ ~rewriting'
    BY <1>1, <1>4 DEF File
  <2>2. records = ReadAll(log).records
    BY <1>1, <1>4 DEF IInv, CacheInv
  <2>3. LogInv' /\ CacheInv' /\ RewriteInv'
    BY <1>1, <2>1, <2>2 DEF LogInv, IsLog, CacheInv, RewriteInv
  <2> QED BY <1>2, <2>3 DEF IInv
<1> QED BY <1>3, <1>4

(* The update of the task is read as the record it is of.                  *)
LEMMA WriteUpdateWrites ==
  ASSUME IInv, WriteUpdate
  PROVE  /\ WellFormed(File')
         /\ ReadAll(File').records = Set(ReadAll(File).records, task.path, task.record)
         /\ Indexed(ReadAll(File').ents, index')
         /\ task.path \in Paths /\ task.record \in Records
         /\ UNCHANGED memory /\ pc = "recording" /\ pc' = "recorded"
         /\ rewriting \in BOOLEAN /\ (rewriting => UNCHANGED log)
<1> DEFINE rdeps == task.record.deps
           ids   == [k \in DOMAIN rdeps |-> task.ids[k + 1]]
           entry == Update(task.record.value, task.ids[1], ids)
           ents  == ReadAll(File).ents
<1>1. /\ pc = "recording" /\ Named /\ pc' = "recorded" /\ UNCHANGED memory
      /\ rewriting \in BOOLEAN /\ TaskInv
      /\ WellFormed(File) /\ Indexed(ents, index) /\ Write(entry)
  BY DEF WriteUpdate, IInv, RecorderInv
<1>2. File' = Append(File, entry) /\ (rewriting => UNCHANGED log)
  BY <1>1 DEF File, Write, memory
<1>3. /\ task.path \in Paths /\ task.record \in Records /\ rdeps \in Seq(Paths)
      /\ Len(rdeps) \in Nat /\ DOMAIN rdeps = 1..Len(rdeps)
      /\ task.ids \in Seq(Nat) /\ Len(task.ids) = Len(rdeps) + 1
  BY <1>1, TaskParts DEF Named
<1>4. \A k \in 1..(Len(rdeps) + 1) :
        PathNumber(task, k - 1) \in DOMAIN index /\ task.ids[k] = index[PathNumber(task, k - 1)]
  BY <1>1, <1>3 DEF TaskInv
<1>5. ents \in Seq(Entities)
  BY <1>1 DEF WellFormed
<1> HIDE DEF ents
<1>6. \A k \in 1..(Len(rdeps) + 1) :
        task.ids[k] \in Nat /\ task.ids[k] + 1 \in DOMAIN ents
        /\ ents[task.ids[k] + 1] = PathNumber(task, k - 1)
  BY <1>1, <1>4, <1>5, IndexedPlace
<1>7. task.ids[1] \in Nat /\ task.ids[1] + 1 \in DOMAIN ents /\ ents[task.ids[1] + 1] = task.path
  <2>1. 1 \in 1..(Len(rdeps) + 1) /\ PathNumber(task, 1 - 1) = task.path
    BY <1>3 DEF PathNumber
  <2> QED BY <1>6, <2>1
<1>8. ASSUME NEW k \in DOMAIN rdeps
      PROVE  ids[k] \in Nat /\ ids[k] + 1 \in DOMAIN ents /\ ents[ids[k] + 1] = rdeps[k]
  <2>1. k + 1 \in 1..(Len(rdeps) + 1) /\ (k + 1) - 1 = k /\ k # 0
    BY <1>3
  <2>2. PathNumber(task, k) = rdeps[k]
    BY <2>1 DEF PathNumber
  <2>3. ids[k] = task.ids[k + 1]
    OBVIOUS
  <2> HIDE DEF ids, rdeps
  <2> QED BY <1>6, <2>1, <2>2, <2>3
<1>9. ids \in Seq(Nat) /\ DOMAIN ids = DOMAIN rdeps
  <2> DEFINE n == Len(rdeps)
  <2>1. n \in Nat /\ DOMAIN rdeps = 1..n
    BY <1>3
  <2>2. ids = [k \in 1..n |-> ids[k]]
    BY <2>1
  <2>3. \A k \in 1..n : ids[k] \in Nat
    BY <1>8, <2>1
  <2> HIDE DEF ids, n, rdeps
  <2>4. ids \in [1..n -> Nat]
    BY <2>2, <2>3
  <2>5. ids \in Seq(Nat)
    BY <2>1, <2>4, SeqDef
  <2>6. DOMAIN ids = 1..n
    BY <2>2
  <2> QED BY <2>1, <2>5, <2>6
<1> HIDE DEF ids
<1>10. /\ WellFormed(Append(File, entry))
       /\ ReadAll(Append(File, entry)).ents = ents
       /\ ReadAll(Append(File, entry)).records = Set(ReadAll(File).records, task.path, task.record)
  <2> DEFINE file == File
             path == task.path
             record == task.record
             id == task.ids[1]
  <2>1. WellFormed(file) /\ path \in Paths /\ record \in Records /\ id \in Nat
    BY <1>1, <1>3, <1>7
  <2>2. ids \in Seq(Nat) /\ DOMAIN ids = DOMAIN record.deps
    BY <1>9
  <2>3. id + 1 \in DOMAIN ReadAll(file).ents /\ ReadAll(file).ents[id + 1] = path
    BY <1>7 DEF ents
  <2>4. \A k \in DOMAIN ids : /\ ids[k] + 1 \in DOMAIN ReadAll(file).ents
                              /\ ReadAll(file).ents[ids[k] + 1] = record.deps[k]
    BY <1>8, <1>9 DEF ents
  <2>5. entry = Update(record.value, id, ids) /\ ents = ReadAll(file).ents
    BY DEF ents
  <2> HIDE DEF file, path, record, id, entry
  <2>6. /\ WellFormed(Append(file, entry))
        /\ ReadAll(Append(file, entry)).ents = ents
        /\ ReadAll(Append(file, entry)).records = Set(ReadAll(file).records, path, record)
    BY <2>1, <2>2, <2>3, <2>4, <2>5, UpdateWritten
  <2> QED BY <2>6 DEF file, path, record
<1> QED BY <1>1, <1>2, <1>3, <1>10 DEF memory

(* The update changes what the file says of one path: in the log that is   *)
(* what the map has still to follow, in the other file what it still       *)
(* lacked.                                                                 *)
LEMMA WriteUpdateInv == IInv /\ WriteUpdate => IInv'
<1> SUFFICES ASSUME IInv, WriteUpdate PROVE IInv'
  OBVIOUS
<1>1. /\ WellFormed(File')
      /\ ReadAll(File').records = Set(ReadAll(File).records, task.path, task.record)
      /\ Indexed(ReadAll(File').ents, index')
      /\ task.path \in Paths /\ task.record \in Records
      /\ UNCHANGED memory /\ pc = "recording" /\ pc' = "recorded"
      /\ rewriting \in BOOLEAN /\ (rewriting => UNCHANGED log)
  BY WriteUpdateWrites
<1>2. RecorderInv'
  BY <1>1 DEF RecorderInv, memory
<1>3. CASE rewriting
  <2>1. File' = temp' /\ File = temp /\ log' = log /\ rewriting'
    BY <1>1, <1>3 DEF File, memory
  <2>2. /\ WellFormed(log) /\ records = ReadAll(log).records /\ unwritten \subseteq DOMAIN records
        /\ task.path \in DOMAIN records \ unwritten /\ task.record = records[task.path]
        /\ ReadAll(temp).records = Without(unwritten \cup {task.path})
    BY <1>1, <1>3 DEF IInv, RewriteInv
  <2>3. LogInv' /\ CacheInv'
    BY <2>1, <2>2 DEF LogInv, IsLog, CacheInv
  <2>4. Set(Without(unwritten \cup {task.path}), task.path, records[task.path]) = Without(unwritten)
    BY <2>2 DEF Set, Without
  <2>5. ReadAll(temp').records = Without(unwritten)'
    BY <1>1, <2>1, <2>2, <2>4 DEF Without, memory
  <2>6. RewriteInv'
    BY <1>1, <2>1, <2>2, <2>5 DEF RewriteInv, memory
  <2> QED BY <1>2, <2>3, <2>6 DEF IInv
<1>4. CASE ~rewriting
  <2>1. File' = log' /\ File = log /\ ~rewriting'
    BY <1>1, <1>4 DEF File, memory
  <2>2. records = ReadAll(log).records
    BY <1>1, <1>4 DEF IInv, CacheInv
  <2>3. LogInv' /\ CacheInv' /\ RewriteInv'
    BY <1>1, <2>1, <2>2 DEF LogInv, IsLog, CacheInv, RewriteInv, memory
  <2> QED BY <1>2, <2>3 DEF IInv
<1> QED BY <1>3, <1>4

(* A run that ends over a log it cannot read changes nothing.              *)
LEMMA OpenFailsInv == IInv /\ OpenFails => IInv'
<1> SUFFICES ASSUME IInv, OpenFails PROVE IInv'
  OBVIOUS
<1>1. /\ pc = "down" /\ ~rewriting /\ records = NoRecords /\ index = NoRecords
      /\ pc' = "corrupted" /\ rewriting \in BOOLEAN /\ UNCHANGED <<log, temp, memory>>
  BY DEF IInv, RecorderInv, OpenFails
<1>2. LogInv' /\ CacheInv' /\ RewriteInv'
  BY <1>1 DEF IInv, LogInv, IsLog, CacheInv, RewriteInv, memory, WellFormed
<1>3. log = <<>>
  BY LogIsAFile DEF LogInv, IInv, OpenFails, Empty
<1>4. RecorderInv'
  BY <1>1, <1>3 DEF RecorderInv, memory
<1> QED BY <1>2, <1>4 DEF IInv

(* A log that was deleted is one not yet created.                          *)
LEMMA DeleteLogInv == IInv /\ DeleteLog => IInv'
<1> SUFFICES ASSUME IInv, DeleteLog PROVE IInv'
  OBVIOUS
<1>1. /\ pc = "corrupted" /\ ~rewriting /\ records = NoRecords /\ index = NoRecords
      /\ pc' = "down" /\ rewriting \in BOOLEAN /\ log' = Absent /\ UNCHANGED <<temp, memory>>
  BY DEF IInv, RecorderInv, DeleteLog
<1>2. LogInv' /\ CacheInv' /\ RewriteInv'
  BY <1>1 DEF LogInv, IsLog, CacheInv, RewriteInv, memory
<1>3. RecorderInv'
  BY <1>1 DEF RecorderInv, memory
<1> QED BY <1>2, <1>3 DEF IInv

(* A record() begins with none of its paths named.                         *)
LEMMA TaskBegins ==
  ASSUME NEW p \in Paths, NEW r \in Records, task' = TaskFor(p, r)
  PROVE  TaskInv' /\ task'.path = p /\ task'.record = r
<1>1. /\ task' \in Tasks /\ task'.path = p /\ task'.record = r
      /\ task'.ids = <<>> /\ Len(task'.ids) = 0 /\ task'.depth = 0
  BY DEF TaskFor, Tasks
<1>2. r.deps \in Seq(Paths) /\ Len(r.deps) \in Nat
  BY RecordFields, LenProperties
<1>3. PathNumber(task', Len(task'.ids)) = p
  BY <1>1 DEF PathNumber
<1>4. Len(p) \in Nat \ {0}
  BY PathPrefixes
<1>5. Len(task'.ids) <= Len(task'.record.deps) + 1
  BY <1>1, <1>2
<1>6. task'.depth < Len(PathNumber(task', Len(task'.ids)))
  BY <1>1, <1>3, <1>4
<1> QED BY <1>1, <1>5, <1>6 DEF TaskInv

(* A record() that begins leaves the file alone.                           *)
LEMMA RecordInv ==
  ASSUME IInv, NEW p \in Paths, NEW r \in Records, Record(p, r)
  PROVE  IInv'
<1>1. /\ pc = "up" /\ ~rewriting /\ pc' = "recording" /\ task' = TaskFor(p, r)
      /\ rewriting \in BOOLEAN /\ UNCHANGED <<log, temp, records, rewriting, index, unwritten>>
      /\ WellFormed(File) /\ Indexed(ReadAll(File).ents, index)
      /\ records = ReadAll(log).records
  BY DEF IInv, RecorderInv, CacheInv, Record
<1>2. File' = File /\ File = log
  BY <1>1 DEF File
<1>3. TaskInv'
  BY <1>1, TaskBegins
<1>4. RecorderInv'
  BY <1>1, <1>2, <1>3 DEF RecorderInv
<1>5. LogInv'
  BY <1>1, <1>2 DEF LogInv, IsLog
<1>6. CacheInv' /\ RewriteInv'
  BY <1>1 DEF CacheInv, RewriteInv
<1> QED BY <1>4, <1>5, <1>6 DEF IInv

(* The map in memory has caught up with the log.                           *)
LEMMA RecordReturnsInv == IInv /\ RecordReturns => IInv'
<1> SUFFICES ASSUME IInv, RecordReturns PROVE IInv'
  OBVIOUS
<1>1. /\ pc = "recorded" /\ pc' = "up" /\ rewriting \in BOOLEAN
      /\ records' = IF rewriting THEN records ELSE Set(records, task.path, task.record)
      /\ UNCHANGED <<log, temp, rewriting, index, unwritten>>
      /\ WellFormed(File) /\ Indexed(ReadAll(File).ents, index)
  BY DEF IInv, RecorderInv, RecordReturns
<1>2. File' = File
  BY <1>1 DEF File
<1>3. RecorderInv'
  BY <1>1, <1>2 DEF RecorderInv
<1>4. LogInv'
  BY <1>1 DEF IInv, LogInv, IsLog, WellFormed
<1>5. CacheInv'
  BY <1>1 DEF IInv, CacheInv
<1>6. RewriteInv'
  <2> SUFFICES ASSUME rewriting PROVE RewriteInv'
    BY <1>1 DEF RewriteInv
  <2>1. /\ WellFormed(log) /\ records = ReadAll(log).records /\ unwritten \subseteq DOMAIN records
        /\ ReadAll(temp).records = Without(unwritten) /\ records' = records
    BY <1>1 DEF IInv, RewriteInv
  <2>2. Without(unwritten)' = Without(unwritten)
    BY <1>1, <2>1 DEF Without
  <2> QED BY <1>1, <2>1, <2>2 DEF RewriteInv
<1> QED BY <1>3, <1>4, <1>5, <1>6 DEF IInv

(* The new file starts from nothing, and so does its index.                *)
LEMMA BeginRewriteInv == IInv /\ BeginRewrite => IInv'
<1> SUFFICES ASSUME IInv, BeginRewrite PROVE IInv'
  OBVIOUS
<1>1. /\ pc = "up" /\ ~rewriting /\ pc' = "creating" /\ rewriting' = TRUE
      /\ temp' = <<>> /\ index' = NoRecords /\ unwritten' = DOMAIN records
      /\ UNCHANGED <<log, records, task>>
      /\ WellFormed(File) /\ records = ReadAll(log).records
  BY DEF IInv, RecorderInv, CacheInv, BeginRewrite
<1>2. File = log /\ File' = <<>>
  BY <1>1 DEF File
<1>3. LogInv' /\ CacheInv' /\ RewriteInv'
  BY <1>1, <1>2 DEF LogInv, IsLog, CacheInv, RewriteInv
<1>4. RecorderInv'
  BY <1>1, <1>2 DEF RecorderInv
<1> QED BY <1>3, <1>4 DEF IInv

(* The record written next is the only one neither in the file nor among   *)
(* those still to be written.                                              *)
LEMMA RewriteRecordInv ==
  ASSUME IInv, NEW p \in Paths, RewriteRecord(p)
  PROVE  IInv'
<1>1. /\ pc = "up" /\ rewriting /\ p \in unwritten /\ pc' = "recording"
      /\ task' = TaskFor(p, records[p]) /\ unwritten' = unwritten \ {p}
      /\ UNCHANGED <<log, temp, records, rewriting, index>> /\ rewriting \in BOOLEAN
      /\ WellFormed(File) /\ Indexed(ReadAll(File).ents, index)
  BY DEF IInv, RecorderInv, RewriteRecord
<1>2. /\ WellFormed(log) /\ records = ReadAll(log).records /\ unwritten \subseteq DOMAIN records
      /\ ReadAll(temp).records = Without(unwritten)
  BY <1>1 DEF IInv, RewriteInv
<1>3. records[p] \in Records
  <2>1. PICK D \in SUBSET Paths : records \in [D -> Records]
    BY <1>2 DEF WellFormed, RecordMaps
  <2> QED BY <1>1, <1>2, <2>1
<1>4. TaskInv' /\ task'.path = p /\ task'.record = records[p]
  BY <1>1, <1>3, TaskBegins
<1>5. File' = File
  BY <1>1 DEF File
<1>6. RecorderInv'
  BY <1>1, <1>4, <1>5 DEF RecorderInv
<1>7. LogInv' /\ CacheInv'
  BY <1>1, <1>2 DEF LogInv, IsLog, CacheInv
<1>8. Without(unwritten \cup {p})' = Without(unwritten)
  <2>1. unwritten' \cup {p} = unwritten
    BY <1>1
  <2> QED BY <1>1, <2>1 DEF Without
<1>9. RewriteInv'
  <2>1. Without(unwritten \cup {task.path})' = Without(unwritten)
    BY <1>4, <1>8
  <2>2. p \in DOMAIN records \ unwritten'
    BY <1>1, <1>2
  <2> QED BY <1>1, <1>2, <1>4, <2>1, <2>2 DEF RewriteInv
<1> QED BY <1>6, <1>7, <1>9 DEF IInv

(* The file that takes the place of the log says what the log said.        *)
LEMMA RenameKeeps ==
  ASSUME IInv, Rename
  PROVE  WellFormed(log) /\ WellFormed(log') /\ ReadAll(log').records = ReadAll(log).records
<1>1. pc = "up" /\ rewriting /\ unwritten = {} /\ log' = temp
  BY DEF Rename
<1>2. /\ WellFormed(log) /\ records = ReadAll(log).records
      /\ ReadAll(temp).records = Without(unwritten)
  BY <1>1 DEF IInv, RewriteInv
<1>3. WellFormed(temp)
  BY <1>1 DEF IInv, RecorderInv, File
<1>4. Without({}) = records
  <2>1. PICK D \in SUBSET Paths : records \in [D -> Records]
    BY <1>2 DEF WellFormed, RecordMaps
  <2> QED BY <2>1 DEF Without
<1> QED BY <1>1, <1>2, <1>3, <1>4

(* The new log is a log.                                                   *)
LEMMA RenameInv == IInv /\ Rename => IInv'
<1> SUFFICES ASSUME IInv, Rename PROVE IInv'
  OBVIOUS
<1>1. WellFormed(log')
  BY RenameKeeps
<1>2. pc' = "down" /\ rewriting' = FALSE /\ records' = NoRecords /\ index' = NoRecords
  BY DEF Rename, Forget
<1> QED BY <1>1, <1>2 DEF IInv, LogInv, IsLog, RecorderInv, CacheInv, RewriteInv

(* A process that dies leaves the log as it was.                           *)
LEMMA CrashInv == IInv /\ Crash => IInv'
<1> SUFFICES ASSUME IInv, Crash PROVE IInv'
  OBVIOUS
<1>1. /\ pc' = "down" /\ rewriting' = FALSE /\ records' = NoRecords /\ index' = NoRecords
      /\ log' = log
  BY DEF Crash, Forget
<1>2. LogInv'
  BY <1>1 DEF IInv, LogInv, IsLog, WellFormed
<1> QED BY <1>1, <1>2 DEF IInv, RecorderInv, CacheInv, RewriteInv

(* A step of someone else changes nothing.                                 *)
LEMMA StutterInv == IInv /\ UNCHANGED vars => IInv'
<1> SUFFICES ASSUME IInv, UNCHANGED vars PROVE IInv'
  OBVIOUS
<1> USE DEF vars
<1>1. File' = File
  BY DEF File
<1>2. LogInv'
  BY DEF IInv, LogInv, IsLog, WellFormed
<1>3. TaskInv => TaskInv'
  BY DEF TaskInv, Named, PathNumber
<1>4. RecorderInv'
  BY <1>1, <1>3 DEF IInv, RecorderInv
<1>5. \A S : Without(S)' = Without(S)
  BY DEF Without
<1>6. CacheInv' /\ RewriteInv'
  BY <1>5 DEF IInv, CacheInv, RewriteInv, Without
<1> QED BY <1>2, <1>4, <1>6 DEF IInv

(* Every step keeps the invariant.                                         *)
LEMMA NextInv == IInv /\ [Next]_vars => IInv'
<1> SUFFICES ASSUME IInv, [Next]_vars PROVE IInv'
  OBVIOUS
<1>1. CASE OpenFresh \/ WriteVersion \/ OpenExisting \/ OpenFails \/ DeleteLog
  BY <1>1, OpenFreshInv, WriteVersionInv, OpenExistingInv, OpenFailsInv, DeleteLogInv
<1>2. CASE \E p \in Paths, r \in Records : Record(p, r)
  BY <1>2, RecordInv
<1>3. CASE NameEntity \/ WriteUpdate \/ RecordReturns
  BY <1>3, NameEntityInv, WriteUpdateInv, RecordReturnsInv
<1>4. CASE BeginRewrite \/ Rename \/ Crash
  BY <1>4, BeginRewriteInv, RenameInv, CrashInv
<1>5. CASE \E p \in Paths : RewriteRecord(p)
  BY <1>5, RewriteRecordInv
<1>6. CASE UNCHANGED vars
  BY <1>6, StutterInv
<1> QED BY <1>1, <1>2, <1>3, <1>4, <1>5, <1>6 DEF Next

(* Theorem: at every moment, crashes and restarts included, the log is     *)
(* missing, empty, of another version or well-formed, and what the         *)
(* recorder and the map in memory hold fits the file they are about.       *)
THEOREM InductiveInvariant == Spec => []IInv
BY InitInv, NextInv, PTL DEF Spec

(* Theorem: between two records, and while the log is rewritten, the map   *)
(* in memory says what the next run would read from the log.               *)
THEOREM CacheMatchesTheLog == Spec => []CacheMatchesLog
<1>1. IInv => CacheMatchesLog
  <2> SUFFICES ASSUME IInv, pc = "up" \/ rewriting PROVE records = OnDisk(log)
    BY DEF CacheMatchesLog
  <2>1. WellFormed(log) /\ records = ReadAll(log).records
    BY DEF IInv, RecorderInv, CacheInv, RewriteInv, File
  <2> QED BY <2>1, LogIsAFile DEF LogInv, IInv
<1> QED BY <1>1, InductiveInvariant, PTL

(* Theorem: the ids the recorder hands out, truncated to 16 bits, are the  *)
(* places at which the reader will find the entities.                      *)
THEOREM IndexMatchesTheFile == Spec => []IndexMatchesFile
<1>1. IInv => IndexMatchesFile
  <2> SUFFICES ASSUME IInv, pc \in {"up", "recording", "recorded"}
               PROVE  /\ Len(ReadAll(File).ents) = Cardinality(DOMAIN index)
                      /\ \A e \in DOMAIN index : ReadAll(File).ents[index[e] + 1] = e
    BY DEF IndexMatchesFile, File
  <2> DEFINE ents == ReadAll(File).ents
  <2>1. /\ ents \in Seq(Entities) /\ Indexed(ents, index)
        /\ \A i, j \in DOMAIN ents : ents[i] = ents[j] => i = j
    BY DEF IInv, RecorderInv, WellFormed
  <2> HIDE DEF ents
  <2>2. Len(ents) = Cardinality(DOMAIN index)
    BY <2>1, NextId
  <2>3. \A e \in DOMAIN index : ents[index[e] + 1] = e
    BY <2>1, IndexedPlace
  <2> QED BY <2>2, <2>3 DEF ents
<1> QED BY <1>1, InductiveInvariant, PTL

(* Theorem: whenever the process dies, the next run can read the log, save *)
(* in the instant before a new one has its version.                        *)
THEOREM LogIsReadableAfterCrash == Spec => []ReadableAfterCrash
<1>1. IInv => ReadableAfterCrash
  BY LogIsAFile DEF LogInv, IInv, ReadableAfterCrash
<1> QED BY <1>1, InductiveInvariant, PTL

-----------------------------------------------------------------------------
(* What the log says stays the same if the log does.                       *)
LEMMA UnchangedLog ==
  ASSUME log' = log
  PROVE  OnDisk(log)' = OnDisk(log)
BY DEF OnDisk

(* What a log says, before and after a step.                               *)
LEMMA WhatLogsSay ==
  ASSUME IInv, IInv'
  PROVE  /\ WellFormed(log) => OnDisk(log) = ReadAll(log).records
         /\ ~WellFormed(log) => OnDisk(log) = NoRecords
         /\ WellFormed(log') => OnDisk(log)' = ReadAll(log').records
         /\ ~WellFormed(log') => OnDisk(log)' = NoRecords
<1>1. LogInv /\ LogInv'
  BY DEF IInv
<1>2. OnDisk(log)' = OnDisk(log')
  BY DEF OnDisk
<1> QED BY <1>1, <1>2, LogIsAFile DEF LogInv

(* A step that has to do with no recording of the program leaves the three *)
(* parts of the abstract state as they are.                                *)
LEMMA Stutters ==
  ASSUME OnDisk(log)' = OnDisk(log), Status' = Status, Request' = Request
  PROVE  UNCHANGED Durable!vars
BY DEF Durable!vars

(* A log that is missing or of another version says nothing, nor does the  *)
(* empty one that replaces it.                                             *)
LEMMA OpenFreshStarts == IInv /\ IInv' /\ OpenFresh => Durable!Start
<1> SUFFICES ASSUME IInv, IInv', OpenFresh PROVE Durable!Start
  OBVIOUS
<1>1. ~WellFormed(log) /\ log' = <<>>
  BY LogIsAFile, AbsentAssumption DEF LogInv, OpenFresh, IInv, WellFormed
<1>2. ~WellFormed(log')
  BY <1>1 DEF WellFormed
<1>3. OnDisk(log)' = OnDisk(log)
  BY <1>1, <1>2, WhatLogsSay
<1>4. pc = "down" /\ pc' = "creating"
  BY DEF OpenFresh
<1>5. Status = "down" /\ Status' = "idle" /\ Request' = Request
  BY <1>4 DEF Status, Request, Recording
<1> QED BY <1>3, <1>5 DEF Durable!Start

(* A log that is opened is not touched.                                    *)
LEMMA OpenExistingStarts == OpenExisting => Durable!Start
<1> SUFFICES ASSUME OpenExisting PROVE Durable!Start
  OBVIOUS
<1>1. OnDisk(log)' = OnDisk(log) /\ pc = "down" /\ pc' = "up"
  BY UnchangedLog DEF OpenExisting
<1>2. Status = "down" /\ Status' = "idle" /\ Request' = Request
  BY <1>1 DEF Status, Request, Recording
<1> QED BY <1>1, <1>2 DEF Durable!Start

(* A version says nothing, and is written where nothing was said.          *)
LEMMA WriteVersionStutters ==
  IInv /\ IInv' /\ WriteVersion => UNCHANGED Durable!vars
<1> SUFFICES ASSUME IInv, IInv', WriteVersion PROVE UNCHANGED Durable!vars
  OBVIOUS
<1>1. pc = "creating" /\ pc' = "up" /\ UNCHANGED rewriting /\ rewriting \in BOOLEAN
  BY DEF WriteVersion, memory, IInv, RecorderInv
<1>2. Status' = Status /\ Request' = Request
  BY <1>1 DEF Status, Request, Recording
<1>3. CASE rewriting
  BY <1>2, <1>3, UnchangedLog, Stutters DEF WriteVersion, Write
<1>4. CASE ~rewriting
  <2>1. log = <<>> /\ log' = <<Version>>
    BY <1>4 DEF IInv, RecorderInv, File, WriteVersion, Write
  <2>2. ~WellFormed(log)
    BY <2>1 DEF WellFormed
  <2>3. WellFormed(log') /\ ReadAll(log').records = NoRecords
    BY <2>1, NewFile
  <2>4. OnDisk(log)' = OnDisk(log)
    BY <2>2, <2>3, WhatLogsSay
  <2> QED BY <1>2, <2>4, Stutters
<1> QED BY <1>1, <1>3, <1>4

(* The log found corrupted is the empty one: deleting it loses nothing.    *)
LEMMA CorruptedStutters ==
  IInv /\ IInv' /\ (OpenFails \/ DeleteLog) => UNCHANGED Durable!vars
<1> SUFFICES ASSUME IInv, IInv', OpenFails \/ DeleteLog PROVE UNCHANGED Durable!vars
  OBVIOUS
<1>1. pc \in {"down", "corrupted"} /\ pc' \in {"down", "corrupted"}
  BY DEF OpenFails, DeleteLog
<1>2. Status' = Status /\ Request' = Request
  BY <1>1 DEF Status, Request, Recording
<1>3. CASE OpenFails
  BY <1>2, <1>3, UnchangedLog, Stutters DEF OpenFails
<1>4. CASE DeleteLog
  <2>1. log = <<>> /\ log' = Absent
    BY <1>4 DEF DeleteLog, IInv, RecorderInv
  <2>2. ~WellFormed(log) /\ ~WellFormed(log')
    BY <2>1, AbsentAssumption DEF WellFormed
  <2>3. OnDisk(log)' = OnDisk(log)
    BY <2>2, WhatLogsSay
  <2> QED BY <1>2, <2>3, Stutters
<1> QED BY <1>3, <1>4

(* The recording begins with the log as it is.                             *)
LEMMA RecordRecords ==
  ASSUME NEW p \in Paths, NEW r \in Records, Record(p, r)
  PROVE  Durable!Record(p, r)
<1>1. /\ OnDisk(log)' = OnDisk(log) /\ pc = "up" /\ pc' = "recording"
      /\ ~rewriting /\ ~rewriting' /\ task' = TaskFor(p, r)
  BY UnchangedLog DEF Record
<1>2. Status = "idle" /\ Status' = "recording" /\ Request' = [path |-> p, record |-> r]
  BY <1>1 DEF Status, Request, Recording, TaskFor
<1> QED BY <1>1, <1>2 DEF Durable!Record

(* The names written ahead of a record change nothing of what is said.     *)
LEMMA NameEntityStutters ==
  IInv /\ IInv' /\ NameEntity => UNCHANGED Durable!vars
<1> SUFFICES ASSUME IInv, IInv', NameEntity PROVE UNCHANGED Durable!vars
  OBVIOUS
<1>1. /\ WellFormed(File') /\ ReadAll(File').records = ReadAll(File).records
      /\ task'.path = task.path /\ task'.record = task.record
      /\ UNCHANGED <<pc, rewriting>> /\ pc = "recording"
      /\ rewriting \in BOOLEAN /\ (rewriting => UNCHANGED log)
  BY NameEntityWrites
<1>2. Status' = Status /\ Request' = Request
  BY <1>1 DEF Status, Request, Recording
<1>3. CASE rewriting
  BY <1>1, <1>2, <1>3, UnchangedLog, Stutters
<1>4. CASE ~rewriting
  <2>1. WellFormed(log) /\ WellFormed(log') /\ ReadAll(log').records = ReadAll(log).records
    BY <1>1, <1>4 DEF IInv, RecorderInv, File
  <2> QED BY <1>2, <2>1, WhatLogsSay, Stutters
<1> QED BY <1>1, <1>3, <1>4

(* The update is what makes the record be there; that of a file being      *)
(* rewritten is not yet in the log.                                        *)
LEMMA WriteUpdatePuts ==
  IInv /\ IInv' /\ WriteUpdate => Durable!Put \/ UNCHANGED Durable!vars
<1> SUFFICES ASSUME IInv, IInv', WriteUpdate PROVE Durable!Put \/ UNCHANGED Durable!vars
  OBVIOUS
<1>1. /\ WellFormed(File')
      /\ ReadAll(File').records = Set(ReadAll(File).records, task.path, task.record)
      /\ UNCHANGED <<task, rewriting>> /\ pc = "recording" /\ pc' = "recorded"
      /\ rewriting \in BOOLEAN /\ (rewriting => UNCHANGED log)
  BY WriteUpdateWrites DEF memory
<1>2. Status' = Status /\ Request' = Request
  BY <1>1 DEF Status, Request, Recording
<1>3. CASE rewriting
  BY <1>1, <1>2, <1>3, UnchangedLog, Stutters
<1>4. CASE ~rewriting
  <2>1. /\ WellFormed(log) /\ WellFormed(log')
        /\ ReadAll(log').records = Set(ReadAll(log).records, task.path, task.record)
    BY <1>1, <1>4 DEF IInv, RecorderInv, File
  <2>2. OnDisk(log)' = Set(OnDisk(log), task.path, task.record)
    BY <2>1, WhatLogsSay
  <2>3. Status = "recording" /\ Request.path = task.path /\ Request.record = task.record
    BY <1>1, <1>4 DEF Status, Request, Recording
  <2> QED BY <1>2, <2>2, <2>3 DEF Durable!Put, Set
<1> QED BY <1>1, <1>3, <1>4

(* Once record() returns the log has the record.                           *)
LEMMA RecordReturnsReturns ==
  IInv /\ IInv' /\ RecordReturns => Durable!Return \/ UNCHANGED Durable!vars
<1> SUFFICES ASSUME IInv, IInv', RecordReturns
             PROVE  Durable!Return \/ UNCHANGED Durable!vars
  OBVIOUS
<1>1. /\ pc = "recorded" /\ pc' = "up" /\ UNCHANGED <<log, rewriting>>
      /\ rewriting \in BOOLEAN /\ WellFormed(File)
  BY DEF RecordReturns, IInv, RecorderInv
<1>2. OnDisk(log)' = OnDisk(log)
  BY <1>1, UnchangedLog
<1>3. CASE rewriting
  <2>1. Status' = Status /\ Request' = Request
    BY <1>1, <1>3 DEF Status, Request, Recording
  <2> QED BY <1>2, <2>1, Stutters
<1>4. CASE ~rewriting
  <2>1. OnDisk(log) = Set(records, task.path, task.record)
    BY <1>1, <1>4, WhatLogsSay DEF IInv, CacheInv, File
  <2>2. task.path \in DOMAIN OnDisk(log) /\ OnDisk(log)[task.path] = task.record
    BY <2>1 DEF Set
  <2>3. /\ Status = "recording" /\ Status' = "idle"
        /\ Request.path = task.path /\ Request.record = task.record
        /\ Request' = Durable!NoRequest
    BY <1>1, <1>4 DEF Status, Request, Recording, Durable!NoRequest
  <2> QED BY <1>2, <2>2, <2>3 DEF Durable!Return
<1> QED BY <1>1, <1>3, <1>4

(* Nothing of the rewriting is seen before the rename, at which the log    *)
(* says what it said.                                                      *)
LEMMA RewritingStutters ==
  IInv /\ (BeginRewrite \/ \E p \in Paths : RewriteRecord(p)) => UNCHANGED Durable!vars
<1> SUFFICES ASSUME IInv, BeginRewrite \/ \E p \in Paths : RewriteRecord(p)
             PROVE  UNCHANGED Durable!vars
  OBVIOUS
<1>1. /\ pc = "up" /\ pc' \in {"creating", "recording"}
      /\ pc' = "recording" => rewriting'
      /\ log' = log
  BY DEF BeginRewrite, RewriteRecord
<1>2. Status' = Status /\ Request' = Request
  BY <1>1 DEF Status, Request, Recording
<1> QED BY <1>1, <1>2, UnchangedLog, Stutters

(* The run that renames the rewritten log over the old one is over.        *)
LEMMA RenameStops == IInv /\ IInv' /\ Rename => Durable!Stop
<1> SUFFICES ASSUME IInv, IInv', Rename PROVE Durable!Stop
  OBVIOUS
<1>1. OnDisk(log)' = OnDisk(log)
  BY RenameKeeps, WhatLogsSay
<1>2. pc = "up" /\ pc' = "down"
  BY DEF Rename
<1>3. Status # "down" /\ Status' = "down" /\ Request' = Durable!NoRequest
  BY <1>2 DEF Status, Request, Recording, Durable!NoRequest
<1> QED BY <1>1, <1>3 DEF Durable!Stop

(* So is one that dies, with the log as it is.                             *)
LEMMA CrashStops == Crash => Durable!Stop
<1> SUFFICES ASSUME Crash PROVE Durable!Stop
  OBVIOUS
<1>1. OnDisk(log)' = OnDisk(log) /\ pc \notin {"down", "corrupted"} /\ pc' = "down"
  BY UnchangedLog DEF Crash
<1>2. Status # "down" /\ Status' = "down" /\ Request' = Durable!NoRequest
  BY <1>1 DEF Status, Request, Recording, Durable!NoRequest
<1> QED BY <1>1, <1>2 DEF Durable!Stop

(* Every step of the log is a step of the durable map, or is not seen.     *)
LEMMA LogStep ==
  ASSUME IInv, IInv', [Next]_vars
  PROVE  [Durable!Next]_(Durable!vars)
<1> SUFFICES Durable!Next \/ UNCHANGED Durable!vars
  OBVIOUS
<1>1. CASE OpenFresh \/ OpenExisting
  BY <1>1, OpenFreshStarts, OpenExistingStarts DEF Durable!Next
<1>2. CASE WriteVersion \/ OpenFails \/ DeleteLog \/ NameEntity
  BY <1>2, WriteVersionStutters, CorruptedStutters, NameEntityStutters
<1>3. CASE \E p \in Paths, r \in Records : Record(p, r)
  <2>1. \E p \in Paths, r \in Records : Durable!Record(p, r)
    BY <1>3, RecordRecords
  <2> QED BY <2>1 DEF Durable!Next
<1>4. CASE WriteUpdate \/ RecordReturns
  BY <1>4, WriteUpdatePuts, RecordReturnsReturns DEF Durable!Next
<1>5. CASE BeginRewrite \/ \E p \in Paths : RewriteRecord(p)
  BY <1>5, RewritingStutters
<1>6. CASE Rename \/ Crash
  BY <1>6, RenameStops, CrashStops DEF Durable!Next
<1>7. CASE UNCHANGED vars
  <2>1. Status' = Status /\ Request' = Request
    BY <1>7 DEF vars, Status, Request, Recording
  <2> QED BY <1>7, <2>1, UnchangedLog, Stutters DEF vars
<1> QED BY <1>1, <1>2, <1>3, <1>4, <1>5, <1>6, <1>7 DEF Next

(* Theorem: what the log says is a durable map, the recorder and the       *)
(* rewriting of the log implement DurableRecords. A record that            *)
(* cache::record has returned from is read by every later run until the    *)
(* same file is recorded again, whatever crashes, restarts, rewriting and  *)
(* deletions of a corrupted log come in between; only the recording that   *)
(* is going on may or may not be there after a crash.                      *)
THEOREM LogIsDurable == Spec => Implements
<1>1. Init => Durable!Init
  <2> SUFFICES ASSUME Init PROVE Durable!Init
    OBVIOUS
  <2>1. IInv
    BY InitInv
  <2>2. ~WellFormed(log)
    <3>1. <<OldVersion>>[1] # Version
      BY DEF OldVersion, Version
    <3> QED BY <3>1, AbsentAssumption DEF Init, WellFormed
  <2>3. OnDisk(log) = NoRecords
    BY <2>1, <2>2, LogIsAFile DEF LogInv, IInv
  <2>4. Status = "down" /\ Request = Durable!NoRequest
    BY DEF Init, Status, Request, Recording, Durable!NoRequest
  <2> QED BY <2>3, <2>4 DEF Durable!Init, Durable!NoRecords, NoRecords
<1>2. IInv /\ IInv' /\ [Next]_vars => [Durable!Next]_(Durable!vars)
  BY LogStep
<1> QED BY <1>1, <1>2, InductiveInvariant, PTL DEF Spec, Implements, Durable!Spec
=============================================================================
