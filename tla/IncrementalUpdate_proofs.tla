---------------------- MODULE IncrementalUpdate_proofs ----------------------
(***************************************************************************)
(* What run after run of upd keeps true of the log, of the files and of    *)
(* what the user wrote, for every update map and whatever the commands     *)
(* read, as long as nobody edits sources while a run goes on.              *)
(*                                                                         *)
(* The argument is about who may write a file while others remember what   *)
(* was in it: a job in progress has nothing pending that it is made from,  *)
(* a file with a job is never in the cache, and what a record covers is    *)
(* either a source or something its rule declares.                         *)
(*                                                                         *)
(* With commands that are deterministic, what is up to date is also what a *)
(* build from nothing makes: the depfile a record keeps is the one the     *)
(* command would give now, and files are made in some order.               *)
(***************************************************************************)
EXTENDS IncrementalUpdate, FiniteSetTheorems, NaturalsInduction, WellFoundedInduction, TLAPS

(* Between two runs nothing is left of a run.                              *)
RunInv ==
  /\ pc = "idle" => pending = {} /\ DOMAIN cache = {}
  /\ pc # "throwing" => thrown = <<>>
  /\ \A t \in Outputs : job[t].state = "none" => job[t] = NoJob

(* The order of the plan, as far as it is needed here.                     *)
OrderInv ==
  /\ \A t \in Outputs : job[t] # NoJob => Plan!Producers[t] \cap pending = {}
  /\ \A t \in pending : Plan!Producers[t] \subseteq pending \cup settled

(* What the cache remembers is true, and not of a file that is being made. *)
CacheInv ==
  \A f \in DOMAIN cache : cache[f] = disk[f] /\ (f \in Outputs => job[f] = NoJob)

(* A record is the outcome of a command, which only read what it may.      *)
LogInv ==
  \A t \in DOMAIN log :
    /\ log[t].deps \cap Outputs \subseteq Range(OrderOnly[t])
    /\ log[t].hash = Made(t, log[t].imprint)
    /\ log[t].imprint = [f \in Covered(t, log[t].deps) |-> log[t].imprint[f]]

(* So will be the record of a job that has succeeded.                      *)
JobInv ==
  \A t \in Outputs : job[t].state = "succeeded" /\ Undeclared(t) = {} =>
    LET paths == Covered(t, Undirect(t, job[t].depfile))
    IN  /\ paths \subseteq Files /\ \A f \in paths : disk[f] # Missing
        /\ disk[t] = Made(t, [f \in paths |-> disk[f]])

(* What the user has written over is as the user left it, and left alone.  *)
OwnedInv ==
  \A t \in owned : t \in DOMAIN log /\ disk[t] = Mine(t) /\ job[t] = NoJob

(* What is settled is as recorded, and so is all it was made from.         *)
SettledInv ==
  \A t \in settled :
    /\ t \in DOMAIN log /\ disk[t] = log[t].hash
    /\ \A f \in Covered(t, log[t].deps) : disk[f] = log[t].imprint[f]
    /\ Plan!Producers[t] \subseteq settled
    /\ job[t] = NoJob /\ thrown # <<"file_changed_manually", t>>

IInv == TypeOK /\ RunInv /\ OrderInv /\ CacheInv /\ LogInv /\ JobInv /\ OwnedInv /\ SettledInv
-----------------------------------------------------------------------------
(* The inputs of a rule are files, and its generated inputs producers.     *)
LEMMA InputsAreFiles ==
  ASSUME NEW t \in Outputs
  PROVE  /\ Inputs[t] \o Groups[t] \in Seq(Files) /\ OrderOnly[t] \in Seq(Files)
         /\ Range(Inputs[t]) \subseteq Files /\ Range(Inputs[t] \o Groups[t]) \subseteq Files
<1>1. Inputs[t] \in Seq(Files) /\ Groups[t] \in Seq(Files) /\ OrderOnly[t] \in Seq(Files)
  BY RulesAssumption DEF Rules
<1>2. Inputs[t] \o Groups[t] \in Seq(Files)
  BY <1>1
<1>3. \A q \in Seq(Files) : \A k \in DOMAIN q : q[k] \in Files
  OBVIOUS
<1> QED BY <1>1, <1>2, <1>3 DEF Range

(* The generated files a rule names are its producers in the plan.         *)
LEMMA InputsAreProducers ==
  ASSUME NEW t \in Outputs
  PROVE  (Range(Inputs[t] \o Groups[t]) \cup Range(OrderOnly[t])) \cap Outputs \subseteq Plan!Producers[t]
<1> DEFINE head == Inputs[t] \o Groups[t]
           deps == head \o OrderOnly[t]
<1>1. head \in Seq(Files) /\ OrderOnly[t] \in Seq(Files)
  BY InputsAreFiles
<1>2. Plan!Producers[t] = {i \in Outputs : \E k \in DOMAIN deps : deps[k] = i}
  BY DEF Plan!Producers, Plan!SlotsIn
<1> HIDE DEF head
<1>3. /\ DOMAIN head = 1..Len(head) /\ DOMAIN OrderOnly[t] = 1..Len(OrderOnly[t])
      /\ DOMAIN deps = 1..(Len(head) + Len(OrderOnly[t]))
      /\ Len(head) \in Nat /\ Len(OrderOnly[t]) \in Nat
  BY <1>1
<1>4. \A k \in DOMAIN head : k \in DOMAIN deps /\ deps[k] = head[k]
  BY <1>1, <1>3
<1>5. \A k \in DOMAIN OrderOnly[t] : k + Len(head) \in DOMAIN deps /\ deps[k + Len(head)] = OrderOnly[t][k]
  BY <1>1, <1>3
<1>6. Range(head) \cap Outputs \subseteq Plan!Producers[t]
  <2> HIDE DEF deps
  <2> QED BY <1>2, <1>4 DEF Range
<1>7. Range(OrderOnly[t]) \cap Outputs \subseteq Plan!Producers[t]
  <2> HIDE DEF deps
  <2> QED BY <1>2, <1>5 DEF Range
<1> QED BY <1>6, <1>7 DEF head

(* What a record or a job covers is made first.                            *)
LEMMA CoveredIsProduced ==
  ASSUME NEW t \in Outputs, NEW D, D \cap Outputs \subseteq Range(OrderOnly[t])
  PROVE  Covered(t, D) \cap Outputs \subseteq Plan!Producers[t]
BY InputsAreProducers DEF Covered

(* The plan of any targets has all producers of its files.                 *)
LEMMA PlannedIsClosed ==
  ASSUME NEW targets \in SUBSET Outputs
  PROVE  /\ Plan!Planned(targets) \subseteq Outputs
         /\ \A t \in Plan!Planned(targets) : Plan!Producers[t] \subseteq Plan!Planned(targets)
<1>1. \A t \in Outputs : Plan!Producers[t] \subseteq Outputs
  BY DEF Plan!Producers
<1> QED BY <1>1 DEF Plan!Planned, Plan!Closed

(* Nobody takes what a command made for what the user wrote.               *)
LEMMA ContentsDiffer ==
  ASSUME NEW t, NEW imprint
  PROVE  Made(t, imprint) # Mine(t) /\ Made(t, imprint) # Missing /\ Mine(t) # Missing
<1>1. Len(<<t, imprint>>) = 2 /\ Len(<<t>>) = 1 /\ Len(<<>>) = 0
  OBVIOUS
<1>2. <<t, imprint>> # <<t>> /\ <<t, imprint>> # <<>> /\ <<t>> # <<>>
  BY <1>1
<1> QED BY <1>2 DEF Made, Mine, Missing

(* The cache answers what reading the file would.                          *)
LEMMA HashIsContent == ASSUME CacheInv PROVE \A f : Hash(f) = disk[f]
BY DEF CacheInv, Hash

(* A file with a job is remembered, settled and covered by nobody.         *)
LEMMA Undisturbed ==
  ASSUME IInv, NEW t \in Outputs, job[t] # NoJob
  PROVE  /\ t \in pending /\ t \notin DOMAIN cache /\ t \notin owned /\ t \notin settled
         /\ \A u \in settled : t \notin Covered(u, log[u].deps)
         /\ \A u \in Outputs : job[u] # NoJob /\ Undeclared(u) = {} =>
              t \notin Covered(u, Undirect(u, job[u].depfile))
<1>1. t \in pending /\ t \notin DOMAIN cache /\ t \notin owned /\ t \notin settled
  BY DEF IInv, TypeOK, CacheInv, OwnedInv, SettledInv
<1>2. ASSUME NEW u \in settled PROVE t \notin Covered(u, log[u].deps)
  <2>1. u \in Outputs /\ Covered(u, log[u].deps) \cap Outputs \subseteq Plan!Producers[u]
    BY CoveredIsProduced DEF IInv, TypeOK, LogInv, SettledInv
  <2> QED BY <1>1, <2>1 DEF IInv, SettledInv
<1>3. ASSUME NEW u \in Outputs, job[u] # NoJob, Undeclared(u) = {}
      PROVE  t \notin Covered(u, Undirect(u, job[u].depfile))
  <2>1. Covered(u, Undirect(u, job[u].depfile)) \cap Outputs \subseteq Plan!Producers[u]
    <3>1. Undirect(u, job[u].depfile) \cap Outputs \subseteq Range(OrderOnly[u])
      BY <1>3 DEF Undeclared
    <3> QED BY <3>1, CoveredIsProduced
  <2> QED BY <1>1, <1>3, <2>1 DEF IInv, OrderInv
<1> QED BY <1>1, <1>2, <1>3
-----------------------------------------------------------------------------
(* A run begins: its plan is closed, and no job is there.                  *)
LEMMA StartRunStep == ASSUME IInv, NEW targets \in SUBSET Outputs, StartRun(targets) PROVE IInv'
<1>1. /\ pc = "idle" /\ pc' = "running" /\ pending' = Plan!Planned(targets)
      /\ UNCHANGED <<disk, log, cache, thrown, job, failed, settled, owned>>
  BY DEF StartRun
<1>2. \A t \in Outputs : job[t] = NoJob
  BY <1>1 DEF IInv, TypeOK, RunInv
<1>3. TypeOK'
  BY <1>1, <1>2, PlannedIsClosed DEF IInv, TypeOK
<1>4. RunInv' /\ OrderInv'
  BY <1>1, <1>2, PlannedIsClosed DEF IInv, RunInv, OrderInv
<1>5. CacheInv' /\ LogInv' /\ JobInv' /\ OwnedInv' /\ SettledInv'
  BY <1>1 DEF IInv, CacheInv, LogInv, JobInv, Undeclared, OwnedInv, SettledInv
<1> QED BY <1>3, <1>4, <1>5 DEF IInv

(* A run ends, or is killed: what it remembers goes with it.               *)
LEMMA EndRunStep == ASSUME IInv, EndRun PROVE IInv'
<1>1. /\ pc' = "idle" /\ thrown' = <<>> /\ pending' = {} /\ failed' = FALSE /\ DOMAIN cache' = {}
      /\ \A t \in Outputs : job'[t] = NoJob
      /\ UNCHANGED <<disk, log, settled, owned>>
  BY DEF EndRun, Nothing
<1>2. job' \in [Outputs -> [state : {"none", "started", "succeeded", "failed"}, depfile : SUBSET Files]]
  BY DEF EndRun, NoJob
<1>3. NoJob.state = "none"
  BY DEF NoJob
<1>4. TypeOK'
  BY <1>1, <1>2 DEF IInv, TypeOK
<1>5. RunInv' /\ OrderInv' /\ CacheInv' /\ JobInv'
  BY <1>1, <1>3 DEF RunInv, OrderInv, CacheInv, JobInv
<1>6. LogInv'
  BY <1>1 DEF IInv, LogInv
<1>7. OwnedInv'
  BY <1>1 DEF IInv, TypeOK, OwnedInv
<1>8. SettledInv'
  BY <1>1 DEF IInv, TypeOK, SettledInv
<1> QED BY <1>4, <1>5, <1>6, <1>7, <1>8 DEF IInv

(* An exception that accuses nobody, or only a file that was written over. *)
LEMMA ThrowStep ==
  ASSUME IInv, NEW e, Throw(e), \A t \in settled : e # <<"file_changed_manually", t>>,
         UNCHANGED <<disk, log, cache, pending, failed, settled, owned>>
  PROVE  IInv'
<1>1. /\ pc' = "throwing" /\ thrown' = e
      /\ \A t \in Outputs : job'[t] = IF job[t].state = "started" THEN job[t] ELSE NoJob
  BY DEF Throw
<1>2. job' \in [Outputs -> [state : {"none", "started", "succeeded", "failed"}, depfile : SUBSET Files]]
  BY DEF Throw, IInv, TypeOK, NoJob
<1>3. NoJob.state = "none"
  BY DEF NoJob
<1>4. TypeOK'
  BY <1>1, <1>2 DEF IInv, TypeOK
<1>5. RunInv' /\ OrderInv' /\ CacheInv' /\ JobInv'
  BY <1>1, <1>3 DEF IInv, RunInv, OrderInv, CacheInv, JobInv
<1>6. LogInv'
  BY <1>1 DEF IInv, LogInv
<1>7. OwnedInv'
  BY <1>1 DEF IInv, TypeOK, OwnedInv
<1>8. SettledInv'
  BY <1>1 DEF IInv, TypeOK, SettledInv
<1> QED BY <1>4, <1>5, <1>6, <1>7, <1>8 DEF IInv

(* Only a file that is not settled is refused.                             *)
LEMMA RefuseStep == ASSUME IInv, NEW t \in Outputs, Refuse(t) PROVE IInv'
<1>1. \A f : Hash(f) = disk[f]
  BY HashIsContent DEF IInv
<1>2. t \notin settled
  BY <1>1 DEF Refuse, ChangedManually, IInv, SettledInv
<1>3. \A u \in settled : <<"file_changed_manually", t>> # <<"file_changed_manually", u>>
  BY <1>2
<1> QED BY <1>3, ThrowStep DEF Refuse

(* The exception about an undeclared dependency accuses nobody.            *)
LEMMA FinalizeThrowsStep == ASSUME IInv, NEW t \in Outputs, FinalizeThrows(t) PROVE IInv'
<1>1. PICK f \in Undeclared(t) : Throw(<<"undeclared_rule_dependency", t, f>>)
  BY DEF FinalizeThrows
<1>2. \A u \in settled : <<"undeclared_rule_dependency", t, f>> # <<"file_changed_manually", u>>
  OBVIOUS
<1> QED BY <1>1, <1>2, ThrowStep DEF FinalizeThrows

(* What is hashed is remembered as it is on disk.                          *)
LEMMA Remembered ==
  ASSUME CacheInv, NEW S
  PROVE  /\ DOMAIN Remembering(S) = DOMAIN cache \cup S
         /\ \A f \in DOMAIN cache \cup S : Remembering(S)[f] = disk[f]
BY HashIsContent DEF Remembering

(* What a queued file is made from has no job, and neither has it.         *)
LEMMA QueuedIsQuiet ==
  ASSUME IInv, NEW t \in Outputs, Queued(t)
  PROVE  /\ \A f \in Plan!Producers[t] : job[f] = NoJob /\ f \in settled
         /\ t \in DOMAIN log => /\ Covered(t, log[t].deps) \subseteq Files
                                /\ Covered(t, log[t].deps) \cap Outputs \subseteq Plan!Producers[t]
<1>1. Plan!Producers[t] \subseteq Outputs
  BY DEF Plan!Producers
<1>2. \A f \in Plan!Producers[t] : job[f] = NoJob /\ f \in settled
  BY <1>1 DEF Queued, IInv, TypeOK, OrderInv
<1>3. ASSUME t \in DOMAIN log PROVE Covered(t, log[t].deps) \cap Outputs \subseteq Plan!Producers[t]
  BY <1>3, CoveredIsProduced DEF IInv, LogInv
<1> QED BY <1>2, <1>3 DEF IInv, TypeOK

(* A file found up to date is settled, and all it covers remembered.       *)
LEMMA SkipStep == ASSUME IInv, NEW t \in Outputs, Skip(t) PROVE IInv'
<1> DEFINE C == Covered(t, log[t].deps)
<1>1. /\ Queued(t) /\ t \in DOMAIN log /\ job[t] = NoJob /\ pc = "running"
      /\ pending' = pending \ {t} /\ settled' = settled \cup {t}
      /\ cache' = Remembering({t} \cup C)
      /\ UNCHANGED <<disk, log, pc, thrown, job, failed, owned>>
  BY DEF Skip, SameImprint, Recorded, Queued
<1>2. \A f : Hash(f) = disk[f]
  BY HashIsContent DEF IInv
<1>3. /\ \A f \in Plan!Producers[t] : job[f] = NoJob /\ f \in settled
      /\ C \subseteq Files /\ C \cap Outputs \subseteq Plan!Producers[t]
  BY <1>1, QueuedIsQuiet
<1>4. DOMAIN cache' = DOMAIN cache \cup {t} \cup C /\ \A f \in DOMAIN cache' : cache'[f] = disk[f]
  BY <1>1, Remembered DEF IInv
<1>5. disk[t] = log[t].hash /\ \A f \in C : disk[f] = log[t].imprint[f]
  <2>1. disk[t] = log[t].hash
    BY <1>2 DEF Skip, ChangedManually, SameImprint, Recorded
  <2>2. [f \in C |-> Hash(f)] = log[t].imprint
    BY DEF Skip, SameImprint, Imprint
  <2>3. \A f \in C : [g \in C |-> Hash(g)][f] = Hash(f)
    OBVIOUS
  <2> QED BY <1>2, <2>1, <2>2, <2>3
<1> HIDE DEF C
<1>6. TypeOK'
  BY <1>1, <1>3, <1>4 DEF IInv, TypeOK, Files
<1>7. RunInv'
  BY <1>1 DEF IInv, RunInv
<1>8. OrderInv'
  BY <1>1 DEF IInv, OrderInv
<1>9. CacheInv'
  BY <1>1, <1>3, <1>4 DEF IInv, CacheInv
<1>10. LogInv' /\ JobInv' /\ OwnedInv'
  BY <1>1 DEF IInv, LogInv, JobInv, Undeclared, OwnedInv
<1>11. SettledInv'
  BY <1>1, <1>3, <1>5 DEF IInv, RunInv, SettledInv, C
<1> QED BY <1>6, <1>7, <1>8, <1>9, <1>10, <1>11 DEF IInv

(* A file to be made is neither settled nor the user's, and is forgotten.  *)
LEMMA ScheduleStep == ASSUME IInv, NEW t \in Outputs, Schedule(t) PROVE IInv'
<1>1. /\ Queued(t) /\ job[t] = NoJob /\ pc = "running" /\ t \in pending
      /\ job' = [job EXCEPT ![t].state = "started"]
      /\ UNCHANGED <<disk, log, pc, thrown, pending, failed, settled, owned>>
  BY DEF Schedule, Queued
<1>2. \A f : Hash(f) = disk[f]
  BY HashIsContent DEF IInv
<1>3. /\ \A f \in Plan!Producers[t] : job[f] = NoJob /\ f \in settled
      /\ t \in DOMAIN log => /\ Covered(t, log[t].deps) \subseteq Files
                             /\ Covered(t, log[t].deps) \cap Outputs \subseteq Plan!Producers[t]
  BY <1>1, QueuedIsQuiet
<1>4. PICK seen \in Looked(t) : cache' = Invalidated(Remembering(seen), t)
  BY DEF Schedule
<1>5. seen \subseteq Files /\ \A f \in (seen \ {t}) \cap Outputs : job[f] = NoJob
  BY <1>3 DEF Looked, Recorded, Hashed, Files
<1>6. DOMAIN cache' = (DOMAIN cache \cup seen) \ {t} /\ \A f \in DOMAIN cache' : cache'[f] = disk[f]
  BY <1>4, Remembered DEF IInv, Invalidated
<1>7. \A u \in Outputs : u # t => job'[u] = job[u]
  BY <1>1 DEF IInv, TypeOK
<1>8. job'[t].state = "started"
  BY <1>1 DEF IInv, TypeOK
<1>9. t \notin owned
  <2> SUFFICES ASSUME t \in owned PROVE FALSE
    OBVIOUS
  <2>1. t \in DOMAIN log /\ Hash(t) = Mine(t) /\ log[t].hash = Made(t, log[t].imprint)
    BY <1>2 DEF IInv, OwnedInv, LogInv
  <2>2. ChangedManually(t)
    BY <2>1, ContentsDiffer DEF ChangedManually, Recorded
  <2> QED BY <2>2 DEF Schedule
<1>10. t \notin settled
  <2> SUFFICES ASSUME t \in settled PROVE FALSE
    OBVIOUS
  <2>1. t \in DOMAIN log /\ Hash(t) = log[t].hash /\ log[t].hash # Missing
    <3>1. t \in DOMAIN log /\ disk[t] = log[t].hash /\ log[t].hash = Made(t, log[t].imprint)
      BY DEF IInv, SettledInv, LogInv
    <3>2. log[t].hash # Missing
      BY <3>1, ContentsDiffer
    <3> QED BY <1>2, <3>1, <3>2
  <2>2. Imprint(Covered(t, log[t].deps)) = [f \in Covered(t, log[t].deps) |-> log[t].imprint[f]]
    BY <1>2 DEF Imprint, IInv, SettledInv
  <2>3. SameImprint(t)
    BY <2>1, <2>2 DEF SameImprint, Recorded, IInv, LogInv
  <2> QED BY <2>3 DEF Schedule
<1>11. TypeOK'
  <2>1. job' \in [Outputs -> [state : {"none", "started", "succeeded", "failed"}, depfile : SUBSET Files]]
    BY <1>1 DEF IInv, TypeOK
  <2> QED BY <1>1, <1>5, <1>6, <1>7, <2>1 DEF IInv, TypeOK
<1>12. RunInv'
  BY <1>1, <1>7, <1>8 DEF IInv, RunInv
<1>13. OrderInv'
  BY <1>1, <1>7 DEF IInv, OrderInv, Queued
<1>14. CacheInv'
  BY <1>1, <1>5, <1>6, <1>7 DEF IInv, CacheInv
<1>15. LogInv'
  BY <1>1 DEF IInv, LogInv
<1>16. JobInv'
  BY <1>1, <1>7, <1>8 DEF IInv, JobInv, Undeclared
<1>17. OwnedInv' /\ SettledInv'
  BY <1>1, <1>7, <1>9, <1>10 DEF IInv, TypeOK, OwnedInv, SettledInv
<1> QED BY <1>11, <1>12, <1>13, <1>14, <1>15, <1>16, <1>17 DEF IInv

(* A command that writes its file, or fails without writing it.            *)
LEMMA CommandStep ==
  ASSUME IInv, NEW t \in Outputs, job[t].state = "started",
         DOMAIN disk' = Files, \A f \in Files : f # t => disk'[f] = disk[f],
         NEW state \in {"succeeded", "failed"}, NEW depfile \in SUBSET Files,
         job' = [job EXCEPT ![t] = [state |-> state, depfile |-> depfile]],
         state = "succeeded" /\ Undirect(t, depfile) \cap Outputs \subseteq Range(OrderOnly[t]) =>
           LET paths == Covered(t, Undirect(t, depfile))
           IN  /\ paths \subseteq Files /\ \A f \in paths : disk[f] # Missing
               /\ disk'[t] = Made(t, [f \in paths |-> disk[f]]),
         UNCHANGED <<log, cache, pc, thrown, pending, failed, settled, owned>>
  PROVE  IInv'
<1>1. job[t] # NoJob
  BY DEF NoJob
<1>2. /\ t \in pending /\ t \notin DOMAIN cache /\ t \notin owned /\ t \notin settled
      /\ \A u \in settled : t \notin Covered(u, log[u].deps)
      /\ \A u \in Outputs : job[u] # NoJob /\ Undeclared(u) = {} =>
           t \notin Covered(u, Undirect(u, job[u].depfile))
  BY <1>1, Undisturbed
<1>3. \A u \in Outputs : job'[u] = IF u = t THEN [state |-> state, depfile |-> depfile] ELSE job[u]
  BY DEF IInv, TypeOK
<1>4. job'[t] # NoJob
  BY <1>3 DEF NoJob
<1>5. TypeOK'
  <2>1. job' \in [Outputs -> [state : {"none", "started", "succeeded", "failed"}, depfile : SUBSET Files]]
    BY DEF IInv, TypeOK
  <2>2. t \notin Sources
    BY RulesAssumption
  <2> QED BY <1>2, <1>3, <2>1, <2>2 DEF IInv, TypeOK, Files
<1>6. RunInv'
  BY <1>3 DEF IInv, RunInv
<1>7. OrderInv'
  BY <1>1, <1>3 DEF IInv, OrderInv
<1>8. CacheInv'
  BY <1>2, <1>3 DEF IInv, TypeOK, CacheInv
<1>9. LogInv'
  BY DEF IInv, LogInv
<1>10. JobInv'
  <2> SUFFICES ASSUME NEW u \in Outputs, job'[u].state = "succeeded", Undeclared(u)' = {}
               PROVE  LET paths == Covered(u, Undirect(u, job'[u].depfile))
                      IN  /\ paths \subseteq Files /\ \A f \in paths : disk'[f] # Missing
                          /\ disk'[u] = Made(u, [f \in paths |-> disk'[f]])
    BY DEF JobInv
  <2> DEFINE paths == Covered(u, Undirect(u, job'[u].depfile))
  <2>1. t \notin paths
    <3>1. CASE u # t
      BY <1>2, <1>3, <3>1 DEF Undeclared, NoJob
    <3>2. CASE u = t
      <4>1. paths \cap Outputs \subseteq Plan!Producers[t]
        BY <3>2, CoveredIsProduced DEF Undeclared
      <4> QED BY <1>1, <1>2, <4>1 DEF IInv, OrderInv
    <3> QED BY <3>1, <3>2
  <2>2. /\ paths \subseteq Files /\ \A f \in paths : disk[f] # Missing
        /\ disk'[u] = Made(u, [f \in paths |-> disk[f]])
    <3>1. CASE u # t
      BY <1>3, <3>1 DEF IInv, JobInv, Undeclared, Files
    <3>2. CASE u = t
      BY <1>3, <3>2 DEF Undeclared
    <3> QED BY <3>1, <3>2
  <2>3. \A f \in paths : disk'[f] = disk[f]
    BY <2>1, <2>2
  <2> HIDE DEF paths
  <2>4. [f \in paths |-> disk'[f]] = [f \in paths |-> disk[f]]
    BY <2>3
  <2> QED BY <2>2, <2>3, <2>4 DEF paths
<1>11. OwnedInv'
  BY <1>2, <1>3 DEF IInv, TypeOK, OwnedInv, Files
<1>12. SettledInv'
  BY <1>2, <1>3 DEF IInv, TypeOK, SettledInv, Files
<1> QED BY <1>5, <1>6, <1>7, <1>8, <1>9, <1>10, <1>11, <1>12 DEF IInv

(* A command writes what it made of the files it found.                    *)
LEMMA CommandSucceedsStep == ASSUME IInv, NEW t \in Outputs, CommandSucceeds(t) PROVE IInv'
<1> DEFINE depfile == Reported(t, disk)
<1>1. /\ job[t].state = "started" /\ Runnable(t, disk)
      /\ job' = [job EXCEPT ![t] = [state |-> "succeeded", depfile |-> depfile]]
      /\ UNCHANGED <<log, cache, pc, thrown, pending, failed, settled, owned>>
  BY DEF CommandSucceeds, Writes
<1>2. /\ DOMAIN disk' = Files /\ \A f \in Files : f # t => disk'[f] = disk[f]
      /\ disk'[t] = Made(t, [f \in Covered(t, Undirect(t, depfile)) |-> disk[f]])
  BY DEF CommandSucceeds, Writes, Generated, Reads, IInv, TypeOK, Files
<1>3. Covered(t, Undirect(t, depfile)) \subseteq Files /\ \A f \in Covered(t, Undirect(t, depfile)) : disk[f] # Missing
  BY <1>1 DEF Runnable, Reads
<1>4. depfile \subseteq Files
  <2>1. depfile \subseteq Undirect(t, depfile) \cup Range(Inputs[t])
    BY DEF Undirect
  <2> QED BY <1>3, <2>1, InputsAreFiles DEF Covered
<1> HIDE DEF depfile
<1> QED BY <1>1, <1>2, <1>3, <1>4, CommandStep

(* A command that fails may have written its file.                         *)
LEMMA CommandFailsStep == ASSUME IInv, NEW t \in Outputs, CommandFails(t) PROVE IInv'
<1>1. /\ job[t].state = "started"
      /\ UNCHANGED <<log, cache, pc, thrown, pending, failed, settled, owned>>
  BY DEF CommandFails
<1>2. job' = [job EXCEPT ![t] = [state |-> "failed", depfile |-> job[t].depfile]] /\ job[t].depfile \subseteq Files
  <2>1. job[t] \in [state : {"none", "started", "succeeded", "failed"}, depfile : SUBSET Files]
    BY DEF IInv, TypeOK
  <2>2. [job[t] EXCEPT !.state = "failed"] = [state |-> "failed", depfile |-> job[t].depfile]
    BY <2>1
  <2>3. job' = [job EXCEPT ![t] = [job[t] EXCEPT !.state = "failed"]]
    BY DEF CommandFails
  <2> QED BY <2>1, <2>2, <2>3
<1>3. DOMAIN disk' = Files /\ \A f \in Files : f # t => disk'[f] = disk[f]
  BY DEF CommandFails, Writes, IInv, TypeOK
<1> QED BY <1>1, <1>2, <1>3, CommandStep

(* The job is over: it was not settled, nor written over by the user.      *)
LEMMA JobOver ==
  ASSUME IInv, NEW t \in Outputs, job' = [job EXCEPT ![t] = NoJob]
  PROVE  /\ \A u \in Outputs : job'[u] = IF u = t THEN NoJob ELSE job[u]
         /\ job' \in [Outputs -> [state : {"none", "started", "succeeded", "failed"}, depfile : SUBSET Files]]
         /\ NoJob.state = "none"
BY DEF IInv, TypeOK, NoJob

(* A new record is what the command found, whatever the cache answered.    *)
LEMMA FinalizeStep == ASSUME IInv, NEW t \in Outputs, Finalize(t) PROVE IInv'
<1> DEFINE deps  == Undirect(t, job[t].depfile)
           paths == Covered(t, deps)
           entry == [imprint |-> Imprint(paths), hash |-> Hash(t), deps |-> deps]
<1>1. /\ pc = "running" /\ job[t].state = "succeeded" /\ job[t] # NoJob /\ Undeclared(t) = {}
      /\ log' = [u \in DOMAIN log \cup {t} |-> IF u = t THEN entry ELSE log[u]]
      /\ cache' = Remembering(paths \cup {t})
      /\ job' = [job EXCEPT ![t] = NoJob]
      /\ pending' = pending \ {t} /\ settled' = settled \cup {t}
      /\ UNCHANGED <<disk, pc, thrown, failed, owned>>
  BY DEF Finalize, NoJob
<1>2. \A f : Hash(f) = disk[f]
  BY HashIsContent DEF IInv
<1>3. /\ paths \subseteq Files /\ \A f \in paths : disk[f] # Missing
      /\ disk[t] = Made(t, [f \in paths |-> disk[f]])
  BY <1>1 DEF IInv, JobInv
<1>4. deps \cap Outputs \subseteq Range(OrderOnly[t])
  BY <1>1 DEF Undeclared
<1>5. paths \cap Outputs \subseteq Plan!Producers[t]
  BY <1>4, CoveredIsProduced
<1>6. t \in pending /\ \A f \in Plan!Producers[t] : f \notin pending /\ f \in settled /\ job[f] = NoJob
  <2>1. Plan!Producers[t] \subseteq Outputs
    BY DEF Plan!Producers
  <2> QED BY <1>1, <2>1 DEF IInv, TypeOK, OrderInv
<1> HIDE DEF deps
<1>7. /\ DOMAIN log' = DOMAIN log \cup {t} /\ \A u \in DOMAIN log : u # t => log'[u] = log[u]
      /\ log'[t].deps = deps /\ log'[t].hash = disk[t]
      /\ log'[t].imprint = [f \in paths |-> disk[f]]
  BY <1>1, <1>2 DEF Imprint
<1> HIDE DEF entry
<1>8. DOMAIN cache' = DOMAIN cache \cup paths \cup {t} /\ \A f \in DOMAIN cache' : cache'[f] = disk[f]
  BY <1>1, Remembered DEF IInv
<1>9. /\ \A u \in Outputs : job'[u] = IF u = t THEN NoJob ELSE job[u]
      /\ job' \in [Outputs -> [state : {"none", "started", "succeeded", "failed"}, depfile : SUBSET Files]]
      /\ NoJob.state = "none"
  BY <1>1, JobOver
<1>10. t \notin settled /\ t \notin owned
  BY <1>1, Undisturbed
<1>11. TypeOK'
  <2>1. \A u \in DOMAIN log' : /\ Covered(u, log'[u].deps) \subseteq Files
                              /\ DOMAIN log'[u].imprint = Covered(u, log'[u].deps)
                              /\ \A f \in DOMAIN log'[u].imprint : log'[u].imprint[f] # Missing
    <3> SUFFICES ASSUME NEW u \in DOMAIN log'
                 PROVE  /\ Covered(u, log'[u].deps) \subseteq Files
                        /\ DOMAIN log'[u].imprint = Covered(u, log'[u].deps)
                        /\ \A f \in DOMAIN log'[u].imprint : log'[u].imprint[f] # Missing
      OBVIOUS
    <3>1. CASE u = t
      BY <1>3, <1>7, <3>1
    <3>2. CASE u # t
      BY <1>7, <3>2 DEF IInv, TypeOK
    <3> QED BY <3>1, <3>2
  <2>2. DOMAIN cache' \subseteq Files
    BY <1>3, <1>8 DEF IInv, TypeOK, Files
  <2> HIDE DEF paths
  <2> QED BY <1>1, <1>7, <1>9, <2>1, <2>2 DEF IInv, TypeOK
<1>12. RunInv'
  BY <1>1, <1>9 DEF IInv, RunInv
<1>13. OrderInv'
  BY <1>1, <1>9 DEF IInv, OrderInv
<1>14. CacheInv'
  BY <1>1, <1>5, <1>6, <1>8, <1>9 DEF IInv, CacheInv
<1>15. LogInv'
  <2> SUFFICES ASSUME NEW u \in DOMAIN log'
               PROVE  /\ log'[u].deps \cap Outputs \subseteq Range(OrderOnly[u])
                      /\ log'[u].hash = Made(u, log'[u].imprint)
                      /\ log'[u].imprint = [f \in Covered(u, log'[u].deps) |-> log'[u].imprint[f]]
    BY DEF LogInv
  <2>1. CASE u = t
    BY <1>3, <1>4, <1>7, <2>1
  <2>2. CASE u # t
    BY <1>7, <2>2 DEF IInv, LogInv
  <2> QED BY <2>1, <2>2
<1>16. JobInv'
  <2> HIDE DEF paths
  <2> SUFFICES ASSUME NEW u \in Outputs, job'[u].state = "succeeded", Undeclared(u)' = {}
               PROVE  LET read == Covered(u, Undirect(u, job'[u].depfile))
                      IN  /\ read \subseteq Files /\ \A f \in read : disk'[f] # Missing
                          /\ disk'[u] = Made(u, [f \in read |-> disk'[f]])
    BY DEF JobInv
  <2>1. u # t /\ job'[u] = job[u] /\ disk' = disk
    BY <1>1, <1>9
  <2> QED BY <2>1 DEF IInv, JobInv, Undeclared
<1>17. OwnedInv'
  BY <1>1, <1>7, <1>9, <1>10 DEF IInv, TypeOK, OwnedInv
<1>18. SettledInv'
  <2>1. \A u \in settled : u \in Outputs /\ u # t /\ log'[u] = log[u] /\ job'[u] = job[u]
    BY <1>7, <1>9, <1>10 DEF IInv, TypeOK, SettledInv
  <2>2. t \in DOMAIN log' /\ disk[t] = log'[t].hash /\ \A f \in Covered(t, log'[t].deps) : disk[f] = log'[t].imprint[f]
    BY <1>7
  <2>3. thrown # <<"file_changed_manually", t>>
    BY <1>1 DEF IInv, RunInv
  <2>4. \A u \in settled' : u = t \/ u \in settled
    BY <1>1
  <2> HIDE DEF paths
  <2> QED BY <1>1, <1>6, <1>7, <1>9, <2>1, <2>2, <2>3, <2>4 DEF IInv, SettledInv
<1> QED BY <1>11, <1>12, <1>13, <1>14, <1>15, <1>16, <1>17, <1>18 DEF IInv

(* A failed job is over; nothing is recorded of it.                        *)
LEMMA CollectFailedStep == ASSUME IInv, NEW t \in Outputs, CollectFailed(t) PROVE IInv'
<1>1. /\ job[t].state = "failed" /\ failed' = TRUE /\ job' = [job EXCEPT ![t] = NoJob]
      /\ UNCHANGED <<disk, log, cache, pc, thrown, pending, settled, owned>>
  BY DEF CollectFailed
<1>2. /\ \A u \in Outputs : job'[u] = IF u = t THEN NoJob ELSE job[u]
      /\ job' \in [Outputs -> [state : {"none", "started", "succeeded", "failed"}, depfile : SUBSET Files]]
      /\ NoJob.state = "none"
  BY <1>1, JobOver
<1>3. TypeOK'
  BY <1>1, <1>2 DEF IInv, TypeOK
<1>4. RunInv' /\ OrderInv' /\ CacheInv'
  BY <1>1, <1>2 DEF IInv, RunInv, OrderInv, CacheInv
<1>5. JobInv'
  BY <1>1, <1>2 DEF IInv, JobInv, Undeclared
<1>6. LogInv'
  BY <1>1 DEF IInv, LogInv
<1>7. OwnedInv' /\ SettledInv'
  BY <1>1, <1>2 DEF IInv, TypeOK, OwnedInv, SettledInv
<1> QED BY <1>3, <1>4, <1>5, <1>6, <1>7 DEF IInv

(* What the user does between two runs: no job is there to be disturbed,   *)
(* and what was settled no longer is.                                      *)
LEMMA UserStep ==
  ASSUME IInv, pc = "idle", NEW f \in Files, NEW content,
         disk' = [disk EXCEPT ![f] = content],
         f \in Sources => content \in {Missing} \cup ({f} \X Versions),
         settled' = {}, owned' \in SUBSET Outputs,
         \A t \in owned' : IF t = f THEN t \in DOMAIN log /\ content = Mine(t) ELSE t \in owned,
         UNCHANGED <<log, run>>
  PROVE  IInv'
<1>1. UNCHANGED <<log, cache, pc, thrown, pending, job, failed>>
  BY DEF run
<1>2. /\ DOMAIN disk' = Files /\ \A g \in Files : disk'[g] = IF g = f THEN content ELSE disk[g]
  BY DEF IInv, TypeOK
<1>3. DOMAIN cache = {} /\ pending = {} /\ \A t \in Outputs : job[t] = NoJob
  BY DEF IInv, TypeOK, RunInv
<1>4. NoJob.state = "none"
  BY DEF NoJob
<1>5. TypeOK'
  BY <1>1, <1>2 DEF IInv, TypeOK, Files
<1>6. RunInv' /\ OrderInv' /\ CacheInv' /\ JobInv'
  BY <1>1, <1>3, <1>4 DEF IInv, RunInv, OrderInv, CacheInv, JobInv
<1>7. LogInv'
  BY <1>1 DEF IInv, LogInv
<1>8. OwnedInv'
  BY <1>1, <1>2, <1>3 DEF IInv, OwnedInv, Files
<1>9. SettledInv'
  BY DEF SettledInv
<1> QED BY <1>5, <1>6, <1>7, <1>8, <1>9 DEF IInv

-----------------------------------------------------------------------------
(* Before the first run there is no log, and nothing is settled.           *)
LEMMA Start == Init => IInv
<1> SUFFICES ASSUME Init PROVE IInv
  OBVIOUS
<1>1. NoJob \in [state : {"none", "started", "succeeded", "failed"}, depfile : SUBSET Files] /\ NoJob.state = "none"
  BY DEF NoJob
<1>2. DOMAIN cache = {} /\ DOMAIN log = {}
  BY DEF Init, Nothing
<1>3. \A f \in Sources : disk[f] \in {f} \X Versions
  BY VersionsAssumption DEF Init, Files, Written
<1>4. TypeOK
  BY <1>1, <1>2, <1>3 DEF Init, TypeOK
<1>5. RunInv /\ OrderInv /\ CacheInv /\ LogInv /\ JobInv /\ OwnedInv /\ SettledInv
  BY <1>1, <1>2 DEF Init, RunInv, OrderInv, CacheInv, LogInv, JobInv, OwnedInv, SettledInv
<1> QED BY <1>4, <1>5 DEF IInv

(* Every step keeps the invariant, if no source is edited during a run.    *)
LEMMA Step == ASSUME ~EditsDuringRun, IInv, [Next]_vars PROVE IInv'
<1>1. ASSUME NEW targets \in SUBSET Outputs \ {{}}, StartRun(targets) PROVE IInv'
  BY <1>1, StartRunStep
<1>2. ASSUME NEW t \in Outputs,
             Refuse(t) \/ Skip(t) \/ Schedule(t) \/ CommandSucceeds(t) \/ CommandFails(t)
               \/ FinalizeThrows(t) \/ Finalize(t) \/ CollectFailed(t)
      PROVE  IInv'
  BY <1>2, RefuseStep, SkipStep, ScheduleStep, CommandSucceedsStep, CommandFailsStep,
     FinalizeThrowsStep, FinalizeStep, CollectFailedStep
<1>3. ASSUME NEW t \in Outputs, EditOutput(t) PROVE IInv'
  <2>1. /\ pc = "idle" /\ disk' = [disk EXCEPT ![t] = Mine(t)] /\ settled' = {}
        /\ owned' \in SUBSET Outputs
        /\ \A u \in owned' : IF u = t THEN u \in DOMAIN log ELSE u \in owned
        /\ UNCHANGED <<log, run>>
    BY <1>3 DEF EditOutput, Recorded, IInv, TypeOK, OwnedInv
  <2>2. t \in Files /\ t \notin Sources
    BY RulesAssumption DEF Files
  <2> QED BY <2>1, <2>2, UserStep
<1>4. CASE Return \/ Crash
  BY <1>4, EndRunStep DEF Return, Crash
<1>5. ASSUME NEW f \in Sources, NEW v \in Versions, Edit(f, v) PROVE IInv'
  <2>1. /\ pc = "idle" /\ disk' = [disk EXCEPT ![f] = Written(f, v)] /\ settled' = {}
        /\ UNCHANGED <<log, run, owned>>
    BY <1>5 DEF Edit
  <2>2. f \in Files /\ f \notin owned /\ Written(f, v) \in {f} \X Versions
    BY RulesAssumption DEF Files, IInv, TypeOK, Written
  <2>3. owned' \in SUBSET Outputs /\ \A t \in owned' : t # f /\ t \in owned
    BY <2>1, <2>2 DEF IInv, TypeOK
  <2> QED BY <2>1, <2>2, <2>3, UserStep
<1>6. ASSUME NEW f \in Files, Delete(f) PROVE IInv'
  <2>1. /\ pc = "idle" /\ disk' = [disk EXCEPT ![f] = Missing] /\ settled' = {}
        /\ owned' = owned \ {f} /\ UNCHANGED <<log, run>>
    BY <1>6 DEF Delete
  <2>2. owned' \in SUBSET Outputs /\ \A t \in owned' : t # f /\ t \in owned
    BY <2>1 DEF IInv, TypeOK
  <2> QED BY <2>1, <2>2, UserStep
<1>7. CASE UNCHANGED vars
  <2>1. UNCHANGED <<disk, log, cache, pc, thrown, pending, job, failed, settled, owned>>
    BY <1>7 DEF vars
  <2>2. TypeOK' /\ RunInv' /\ OrderInv' /\ CacheInv'
    BY <2>1 DEF IInv, TypeOK, RunInv, OrderInv, CacheInv
  <2>3. LogInv' /\ JobInv'
    BY <2>1 DEF IInv, LogInv, JobInv, Undeclared
  <2>4. OwnedInv' /\ SettledInv'
    BY <2>1 DEF IInv, OwnedInv, SettledInv
  <2> QED BY <2>2, <2>3, <2>4 DEF IInv
<1> QED BY <1>1, <1>2, <1>3, <1>4, <1>5, <1>6, <1>7 DEF Next

(* The invariant holds throughout every history.                           *)
LEMMA Inductive == ASSUME ~EditsDuringRun PROVE Spec => []IInv
BY Start, Step, PTL DEF Spec

(* Every variable keeps its type; no record is of a file that is missing.  *)
THEOREM TypeCorrect == ASSUME ~EditsDuringRun PROVE Spec => []TypeOK
<1>1. IInv => TypeOK
  BY DEF IInv
<1> QED BY <1>1, Inductive, PTL

(* The hash and the imprint of a record belong to one and the same run of  *)
(* the command, whatever the cache answered when they were computed.       *)
THEOREM RecordsTruthful == ASSUME ~EditsDuringRun PROVE Spec => []RecordsAreTruthful
<1>1. IInv => RecordsAreTruthful
  BY DEF IInv, LogInv, RecordsAreTruthful
<1> QED BY <1>1, Inductive, PTL

(* What is up to date is not made again, and nobody is accused of having   *)
(* changed it, until the user does something.                              *)
THEOREM WorkIsKept == ASSUME ~EditsDuringRun PROVE Spec => []NoWorkTwice
<1>1. IInv => NoWorkTwice
  BY DEF IInv, SettledInv, NoWorkTwice
<1> QED BY <1>1, Inductive, PTL

(* An output file the user has written over is not written by a command.   *)
THEOREM ChangesKept == ASSUME ~EditsDuringRun PROVE Spec => []LocalChangesKept
<1>1. IInv => LocalChangesKept
  BY DEF IInv, OwnedInv, LocalChangesKept
<1> QED BY <1>1, Inductive, PTL

-----------------------------------------------------------------------------
(* Commands are deterministic, whatever the contents of the files are.     *)
Deterministic == \A C : DeterministicOn([Files -> C])

(* What the depfiles say of what is recorded, of what is about to be, and  *)
(* of what is up to date; the log is of some earlier state of the files.   *)
JobReports ==
  \A t \in Outputs : job[t].state = "succeeded" /\ Undeclared(t) = {} =>
    job[t].depfile = Reported(t, disk)

ReportedIn(t, record, view) ==
  /\ record.deps = Undirect(t, Reported(t, view))
  /\ \A f \in Covered(t, record.deps) : view[f] = record.imprint[f]
WasReported(t, record) == \E C : \E view \in [Files -> C] : ReportedIn(t, record, view)

LogReports == \A t \in DOMAIN log : WasReported(t, log[t])

SettledReports == \A t \in settled : log[t].deps = Undirect(t, Reported(t, disk))

(* The files that are up to date were made one after the other.            *)
Grounded == \A S \in SUBSET settled : S # {} => \E t \in S : Plan!Producers[t] \cap S = {}

ReportInv ==
  /\ disk = [f \in Files |-> disk[f]]
  /\ JobReports /\ LogReports /\ SettledReports /\ Grounded

(* A command that finds what it read makes the same of it again.           *)
LEMMA SameReport ==
  ASSUME Deterministic, NEW t \in Outputs, NEW view, NEW other,
         view = [f \in Files |-> view[f]], other = [f \in Files |-> other[f]],
         \A f \in Reads(t, view) : other[f] = view[f]
  PROVE  /\ Reported(t, other) = Reported(t, view) /\ Reads(t, other) = Reads(t, view)
         /\ Generated(t, other) = Generated(t, view)
         /\ Runnable(t, view) => Runnable(t, other)
<1> DEFINE C == {view[f] : f \in Files} \cup {other[f] : f \in Files}
<1>1. view \in [Files -> C] /\ other \in [Files -> C]
  OBVIOUS
<1>2. Reported(t, other) = Reported(t, view)
  <2> HIDE DEF C
  <2>1. DeterministicOn([Files -> C])
    BY Zenon DEF Deterministic
  <2>2. (\A f \in Reads(t, view) : other[f] = view[f]) => Reported(t, other) = Reported(t, view)
    BY <1>1, <2>1, Zenon DEF DeterministicOn
  <2> QED BY <2>2
<1>3. Reads(t, other) = Reads(t, view)
  BY <1>2 DEF Reads
<1>4. [f \in Reads(t, other) |-> other[f]] = [f \in Reads(t, view) |-> view[f]]
  BY <1>3
<1> QED BY <1>2, <1>3, <1>4 DEF Generated, Runnable

(* A command that writes its file changes nothing for those that are up to *)
(* date or wait to be collected.                                           *)
LEMMA WrittenElsewhere ==
  ASSUME Deterministic, IInv, ReportInv, NEW t \in Outputs, job[t] # NoJob,
         disk' = [f \in Files |-> disk'[f]], \A f \in Files : f # t => disk'[f] = disk[f]
  PROVE  /\ \A u \in settled : Reported(u, disk') = Reported(u, disk)
         /\ \A u \in Outputs : job[u].state = "succeeded" /\ Undeclared(u) = {} =>
              Reported(u, disk') = Reported(u, disk)
<1>1. ASSUME NEW u \in Outputs, t \notin Reads(u, disk), Reads(u, disk) \subseteq Files
      PROVE  Reported(u, disk') = Reported(u, disk)
  <2>1. \A f \in Reads(u, disk) : disk'[f] = disk[f]
    BY <1>1
  <2> QED BY <2>1, SameReport DEF ReportInv
<1>2. ASSUME NEW u \in settled PROVE Reported(u, disk') = Reported(u, disk)
  <2>1. u \in Outputs /\ Reads(u, disk) = Covered(u, log[u].deps) /\ Reads(u, disk) \subseteq Files
    BY DEF IInv, TypeOK, SettledInv, ReportInv, SettledReports, Reads
  <2>2. t \notin Reads(u, disk)
    BY <2>1, Undisturbed
  <2> QED BY <1>1, <2>1, <2>2
<1>3. ASSUME NEW u \in Outputs, job[u].state = "succeeded", Undeclared(u) = {}
      PROVE  Reported(u, disk') = Reported(u, disk)
  <2>1. /\ Reads(u, disk) = Covered(u, Undirect(u, job[u].depfile))
        /\ Reads(u, disk) \subseteq Files
    BY <1>3 DEF ReportInv, JobReports, Reads, IInv, JobInv
  <2>2. job[u] # NoJob
    BY <1>3 DEF NoJob
  <2>3. t \notin Reads(u, disk)
    BY <1>3, <2>1, <2>2, Undisturbed
  <2> QED BY <1>1, <2>1, <2>3
<1> QED BY <1>2, <1>3

(* One more file, after all it is made from.                               *)
LEMMA GroundedGrows ==
  ASSUME Grounded, NEW t, settled' = settled \cup {t}, t \notin Plan!Producers[t],
         \A u \in settled : Plan!Producers[u] \subseteq settled
  PROVE  Grounded'
<1> SUFFICES ASSUME NEW S \in SUBSET settled', S # {}
             PROVE  \E u \in S : Plan!Producers[u] \cap S = {}
  BY DEF Grounded
<1>1. CASE S \subseteq settled
  BY <1>1 DEF Grounded
<1>2. CASE S = {t}
  BY <1>2
<1>3. CASE t \in S /\ t \notin settled /\ S \ {t} # {}
  <2>1. PICK u \in S \ {t} : Plan!Producers[u] \cap (S \ {t}) = {}
    BY <1>3 DEF Grounded
  <2>2. u \in settled
    BY <2>1
  <2>3. t \notin Plan!Producers[u]
    BY <1>3, <2>2
  <2> QED BY <2>1, <2>3
<1> QED BY <1>1, <1>2, <1>3

-----------------------------------------------------------------------------
(* A command has run: its depfile is what it reports, of the disk before   *)
(* or after.                                                               *)
LEMMA CommandReports ==
  ASSUME Deterministic, IInv, IInv', ReportInv, NEW t \in Outputs,
         CommandSucceeds(t) \/ CommandFails(t)
  PROVE  ReportInv'
<1>1. /\ job[t].state = "started" /\ job[t] # NoJob
      /\ UNCHANGED <<log, cache, pc, thrown, pending, failed, settled, owned>>
      /\ (disk' = disk \/ Writes(t))
  BY DEF CommandSucceeds, CommandFails, NoJob
<1>2. disk' = [f \in Files |-> disk'[f]] /\ \A f \in Files : f # t => disk'[f] = disk[f]
  <2>1. CASE disk' = disk
    BY <2>1 DEF ReportInv
  <2>2. CASE Writes(t)
    BY <2>2 DEF Writes, ReportInv
  <2> QED BY <1>1, <2>1, <2>2
<1>3. /\ \A u \in settled : Reported(u, disk') = Reported(u, disk)
      /\ \A u \in Outputs : job[u].state = "succeeded" /\ Undeclared(u) = {} =>
           Reported(u, disk') = Reported(u, disk)
  BY <1>1, <1>2, WrittenElsewhere
<1>4. LogReports' /\ Grounded'
  <2>1. LogReports'
    BY <1>1 DEF ReportInv, LogReports
  <2> QED BY <1>1, <2>1 DEF ReportInv, Grounded
<1>5. SettledReports'
  BY <1>1, <1>3 DEF ReportInv, SettledReports
<1>6. JobReports'
  <2> SUFFICES ASSUME NEW u \in Outputs, job'[u].state = "succeeded", Undeclared(u)' = {}
               PROVE  job'[u].depfile = Reported(u, disk')
    BY DEF JobReports
  <2>1. CASE u # t
    <3>1. job'[u] = job[u]
      BY <2>1 DEF CommandSucceeds, CommandFails, IInv, TypeOK
    <3> QED BY <1>3, <3>1 DEF ReportInv, JobReports, Undeclared
  <2>2. CASE u = t
    <3>1. CASE CommandFails(t)
      <4>1. job'[t].state = "failed"
        BY <3>1 DEF CommandFails, IInv, TypeOK
      <4> QED BY <2>2, <4>1
    <3>2. CASE CommandSucceeds(t)
      <4>1. job'[t] = [state |-> "succeeded", depfile |-> Reported(t, disk)] /\ Runnable(t, disk)
        BY <3>2 DEF CommandSucceeds, Writes, IInv, TypeOK
      <4>2. Undirect(t, Reported(t, disk)) \cap Outputs \subseteq Range(OrderOnly[t])
        BY <2>2, <4>1 DEF Undeclared
      <4>3. Reads(t, disk) \cap Outputs \subseteq Plan!Producers[t] /\ Reads(t, disk) \subseteq Files
        BY <4>1, <4>2, CoveredIsProduced DEF Reads, Runnable
      <4>4. t \notin Reads(t, disk)
        <5>1. t \in pending /\ Plan!Producers[t] \cap pending = {}
          BY <1>1 DEF IInv, TypeOK, OrderInv
        <5> QED BY <4>3, <5>1
      <4>5. \A f \in Reads(t, disk) : disk'[f] = disk[f]
        BY <1>2, <4>3, <4>4
      <4>6. Reported(t, disk') = Reported(t, disk)
        BY <1>2, <4>5, SameReport DEF ReportInv
      <4> QED BY <2>2, <4>1, <4>6
    <3> QED BY <3>1, <3>2
  <2> QED BY <2>1, <2>2
<1> QED BY <1>2, <1>4, <1>5, <1>6 DEF ReportInv

(* A recorded file is found up to date: the command would report what it   *)
(* reported when the record was made.                                      *)
LEMMA SkipReports ==
  ASSUME Deterministic, IInv, IInv', ReportInv, NEW t \in Outputs, Skip(t)
  PROVE  ReportInv'
<1>1. /\ Queued(t) /\ t \in DOMAIN log /\ settled' = settled \cup {t}
      /\ UNCHANGED <<disk, log, job>>
  BY DEF Skip, SameImprint, Recorded
<1>2. Grounded'
  <2>1. t \notin Plan!Producers[t]
    BY <1>1 DEF Queued
  <2> QED BY <1>1, <2>1, GroundedGrows DEF IInv, SettledInv, ReportInv
<1>3. log[t].deps = Undirect(t, Reported(t, disk))
  <2>1. PICK C : \E view \in [Files -> C] : ReportedIn(t, log[t], view)
    BY <1>1 DEF ReportInv, LogReports, WasReported
  <2>2. PICK view \in [Files -> C] :
          /\ log[t].deps = Undirect(t, Reported(t, view))
          /\ \A f \in Covered(t, log[t].deps) : view[f] = log[t].imprint[f]
    BY <2>1 DEF ReportedIn
  <2>3. \A f \in Covered(t, log[t].deps) : disk[f] = log[t].imprint[f]
    BY <1>1 DEF IInv, SettledInv
  <2>4. \A f \in Reads(t, view) : disk[f] = view[f]
    BY <2>2, <2>3 DEF Reads
  <2>5. Reported(t, disk) = Reported(t, view)
    BY <2>4, SameReport DEF ReportInv
  <2> QED BY <2>2, <2>5
<1>4. SettledReports'
  BY <1>1, <1>3 DEF ReportInv, SettledReports
<1> QED BY <1>1, <1>2, <1>4 DEF ReportInv, JobReports, LogReports, Undeclared

(* A new record is of the disk as it is.                                   *)
LEMMA FinalizeReports ==
  ASSUME Deterministic, IInv, IInv', ReportInv, NEW t \in Outputs, Finalize(t)
  PROVE  ReportInv'
<1>1. /\ job[t].state = "succeeded" /\ job[t] # NoJob /\ Undeclared(t) = {}
      /\ job' = [job EXCEPT ![t] = NoJob] /\ settled' = settled \cup {t} /\ disk' = disk
      /\ DOMAIN log' = DOMAIN log \cup {t}
      /\ \A u \in DOMAIN log' : u # t => log'[u] = log[u]
      /\ log'[t].deps = Undirect(t, job[t].depfile)
  BY DEF Finalize, NoJob
<1>2. log'[t].deps = Undirect(t, Reported(t, disk))
  BY <1>1 DEF ReportInv, JobReports
<1>3. Grounded'
  <2>1. t \notin Plan!Producers[t]
    BY <1>1 DEF IInv, TypeOK, OrderInv
  <2> QED BY <1>1, <2>1, GroundedGrows DEF IInv, SettledInv, ReportInv
<1>4. t \notin settled /\ \A u \in settled : u \in DOMAIN log
  BY <1>1, Undisturbed DEF IInv, SettledInv
<1>5. SettledReports'
  BY <1>1, <1>2, <1>4 DEF ReportInv, SettledReports
<1>6. LogReports'
  <2> SUFFICES ASSUME NEW u \in DOMAIN log'
               PROVE  WasReported(u, log'[u])
    BY DEF LogReports
  <2>1. CASE u = t
    <3>1. \A f \in Covered(t, log'[t].deps) : disk[f] = log'[t].imprint[f]
      BY <1>1 DEF IInv, SettledInv
    <3>2. disk \in [Files -> {disk[f] : f \in Files}]
      BY DEF ReportInv
    <3> PICK record : record = log'[t]
      OBVIOUS
    <3>3. ReportedIn(t, record, disk)
      BY <1>2, <3>1 DEF ReportedIn
    <3>4. WasReported(t, record)
      BY <3>2, <3>3 DEF WasReported
    <3> QED BY <2>1, <3>4
  <2>2. CASE u # t
    <3>1. u \in DOMAIN log /\ log'[u] = log[u]
      BY <1>1, <2>2
    <3> QED BY <3>1 DEF ReportInv, LogReports
  <2> QED BY <2>1, <2>2
<1>7. JobReports'
  <2>1. \A u \in Outputs : job'[u] = IF u = t THEN NoJob ELSE job[u]
    BY <1>1 DEF IInv, TypeOK
  <2> QED BY <1>1, <2>1 DEF ReportInv, JobReports, Undeclared, NoJob
<1> QED BY <1>1, <1>3, <1>5, <1>6, <1>7 DEF ReportInv

(* Steps that leave the files and the log alone and begin or end jobs.     *)
LEMMA JobsReport ==
  ASSUME ReportInv, UNCHANGED <<disk, log, settled>>,
         \A t \in Outputs : job'[t] = job[t] \/ job'[t].state # "succeeded"
  PROVE  ReportInv'
<1>1. LogReports'
  BY DEF ReportInv, LogReports
<1>2. JobReports'
  BY DEF ReportInv, JobReports, Undeclared
<1>3. SettledReports' /\ Grounded'
  BY DEF ReportInv, SettledReports, Grounded
<1> QED BY <1>1, <1>2, <1>3 DEF ReportInv

(* The user does something, and no job is there.                           *)
LEMMA UserReports ==
  ASSUME IInv, ReportInv, pc = "idle", NEW f, NEW content, disk' = [disk EXCEPT ![f] = content],
         settled' = {}, UNCHANGED <<log, run>>
  PROVE  ReportInv'
<1>1. \A t \in Outputs : job'[t] = NoJob
  BY DEF IInv, TypeOK, RunInv, run
<1>2. JobReports'
  BY <1>1 DEF JobReports, NoJob
<1>3. LogReports' /\ SettledReports' /\ Grounded'
  BY DEF ReportInv, LogReports, SettledReports, Grounded
<1>4. (disk = [g \in Files |-> disk[g]])'
  BY DEF ReportInv
<1> QED BY <1>2, <1>3, <1>4 DEF ReportInv

(* Every step keeps what is said of depfiles.                              *)
LEMMA StepReports ==
  ASSUME ~EditsDuringRun, Deterministic, IInv, IInv', ReportInv, [Next]_vars
  PROVE  ReportInv'
<1>0. \A t \in Outputs : job[t] \in [state : {"none", "started", "succeeded", "failed"}, depfile : SUBSET Files]
  BY DEF IInv, TypeOK
<1>1. ASSUME NEW t \in Outputs, CommandSucceeds(t) \/ CommandFails(t) \/ Skip(t) \/ Finalize(t)
      PROVE  ReportInv'
  BY <1>1, CommandReports, SkipReports, FinalizeReports
<1>2. ASSUME NEW t \in Outputs, Refuse(t) \/ FinalizeThrows(t) PROVE ReportInv'
  <2>1. PICK e : Throw(e) /\ UNCHANGED <<disk, log, settled>>
    BY <1>2 DEF Refuse, FinalizeThrows
  <2>2. \A u \in Outputs : job'[u] = job[u] \/ job'[u].state # "succeeded"
    BY <2>1 DEF Throw, NoJob
  <2> QED BY <2>1, <2>2, JobsReport
<1>3. ASSUME NEW t \in Outputs, Schedule(t) \/ CollectFailed(t) PROVE ReportInv'
  <2>1. UNCHANGED <<disk, log, settled>>
    BY <1>3 DEF Schedule, CollectFailed
  <2>2. \A u \in Outputs : job'[u] = job[u] \/ job'[u].state # "succeeded"
    <3>1. CASE Schedule(t)
      BY <1>0, <3>1 DEF Schedule
    <3>2. CASE CollectFailed(t)
      BY <1>0, <3>2 DEF CollectFailed, NoJob
    <3> QED BY <1>3, <3>1, <3>2
  <2> QED BY <2>1, <2>2, JobsReport
<1>4. ASSUME NEW targets, StartRun(targets) PROVE ReportInv'
  BY <1>4, JobsReport DEF StartRun
<1>5. CASE Return \/ Crash
  <2>1. UNCHANGED <<disk, log, settled>> /\ \A u \in Outputs : job'[u].state # "succeeded"
    BY <1>5 DEF Return, Crash, EndRun, NoJob
  <2> QED BY <2>1, JobsReport
<1>6. ASSUME NEW t \in Outputs, EditOutput(t) PROVE ReportInv'
  BY <1>6, UserReports DEF EditOutput
<1>7. ASSUME NEW f \in Sources, NEW v \in Versions, Edit(f, v) PROVE ReportInv'
  BY <1>7, UserReports DEF Edit
<1>8. ASSUME NEW f \in Files, Delete(f) PROVE ReportInv'
  BY <1>8, UserReports DEF Delete
<1>9. CASE UNCHANGED vars
  BY <1>9, JobsReport DEF vars
<1> QED BY <1>1, <1>2, <1>3, <1>4, <1>5, <1>6, <1>7, <1>8, <1>9 DEF Next

(* Before the first run there is nothing to say of depfiles.               *)
LEMMA StartReports == Init => ReportInv
<1> SUFFICES ASSUME Init PROVE ReportInv
  OBVIOUS
<1>1. JobReports /\ LogReports /\ SettledReports /\ Grounded
  BY DEF Init, JobReports, LogReports, SettledReports, Grounded, NoJob, Nothing
<1>2. disk = [f \in Files |-> disk[f]]
  BY DEF Init
<1> QED BY <1>1, <1>2 DEF ReportInv

(* Both invariants hold throughout every history.                          *)
LEMMA InductiveReports ==
  ASSUME ~EditsDuringRun, Deterministic PROVE Spec => [](IInv /\ ReportInv)
<1>1. Init => IInv /\ ReportInv
  BY Start, StartReports
<1>2. (IInv /\ ReportInv) /\ [Next]_vars => (IInv /\ ReportInv)'
  BY Step, StepReports
<1> QED BY <1>1, <1>2, PTL DEF Spec

-----------------------------------------------------------------------------
(* Induction over the natural numbers, for a set.                          *)
LEMMA Induction ==
  ASSUME NEW S \in SUBSET Nat, 0 \in S, \A n \in S : n + 1 \in S
  PROVE  S = Nat
<1> SUFFICES ASSUME S # Nat PROVE FALSE
  OBVIOUS
<1> DEFINE T == Nat \ S
           R == OpToRel(<, Nat)
<1>1. IsWellFoundedOn(R, Nat)
  BY NatLessThanWellFounded, Zenon
<1>2. T \subseteq Nat /\ T # {}
  OBVIOUS
<1>3. PICK x \in T : \A y \in T : ~ (<<y, x>> \in R)
  <2> HIDE DEF T, R
  <2> QED BY <1>1, <1>2, WFMin
<1>4. \A y \in T : ~ (y < x)
  BY <1>2, <1>3 DEF OpToRel
<1>5. x \in Nat /\ x \notin S /\ x # 0
  OBVIOUS
<1>6. x - 1 \in Nat /\ x - 1 < x /\ (x - 1) + 1 = x
  BY <1>5
<1>7. x - 1 \in S
  BY <1>4, <1>6
<1> QED BY <1>5, <1>6, <1>7

(* The results of running all commands over and over, up to n times.       *)
IsRounds(A, n) == A = [m \in 0..n |-> IF m = 0 THEN FromNothing ELSE Again(A[m - 1])]

(* There are such results: what Fresh means rests on this.                 *)
LEMMA RoundsExist == \A n \in Nat : \E A : IsRounds(A, n)
<1> DEFINE S == {n \in Nat : \E A : IsRounds(A, n)}
<1>1. 0 \in S
  <2>1. IsRounds([m \in 0..0 |-> FromNothing], 0)
    BY DEF IsRounds
  <2> QED BY <2>1
<1>2. ASSUME NEW n \in S PROVE n + 1 \in S
  <2>1. n \in Nat
    OBVIOUS
  <2>2. PICK A : IsRounds(A, n)
    OBVIOUS
  <2> DEFINE B == [m \in 0..(n + 1) |-> IF m = n + 1 THEN Again(A[n]) ELSE A[m]]
  <2>3. ASSUME NEW m \in 0..(n + 1)
        PROVE  B[m] = IF m = 0 THEN FromNothing ELSE Again(B[m - 1])
    <3>1. CASE m = n + 1
      BY <2>1, <3>1
    <3>2. CASE m # n + 1
      <4>1. m \in 0..n /\ B[m] = A[m] /\ (m # 0 => B[m - 1] = A[m - 1])
        BY <2>1, <3>2
      <4>2. A[m] = IF m = 0 THEN FromNothing ELSE Again(A[m - 1])
        BY <2>2, <4>1 DEF IsRounds
      <4> HIDE DEF B
      <4> QED BY <4>1, <4>2
    <3> QED BY <3>1, <3>2
  <2>4. B = [m \in 0..(n + 1) |-> B[m]]
    OBVIOUS
  <2> HIDE DEF B
  <2>5. IsRounds(B, n + 1)
    BY <2>3, <2>4 DEF IsRounds
  <2> QED BY <2>1, <2>5
<1> HIDE DEF S
<1>3. S = Nat
  <2>1. S \in SUBSET Nat
    BY DEF S
  <2> QED BY <1>1, <1>2, <2>1, Induction
<1> QED BY <1>3 DEF S

(* What is settled is what its command makes of the files as they are.     *)
LEMMA SettledIsMade ==
  ASSUME IInv, ReportInv, NEW t \in settled
  PROVE  /\ t \in Outputs /\ Plan!Producers[t] \subseteq settled
         /\ Reads(t, disk) \subseteq Files /\ Reads(t, disk) \cap Outputs \subseteq Plan!Producers[t]
         /\ Runnable(t, disk) /\ disk[t] = Generated(t, disk)
<1>1. t \in Outputs /\ t \in DOMAIN log /\ Plan!Producers[t] \subseteq settled
  BY DEF IInv, TypeOK, SettledInv
<1>2. Reads(t, disk) = Covered(t, log[t].deps)
  BY DEF ReportInv, SettledReports, Reads
<1>3. /\ Reads(t, disk) \subseteq Files /\ Reads(t, disk) \cap Outputs \subseteq Plan!Producers[t]
  BY <1>1, <1>2, CoveredIsProduced DEF IInv, TypeOK, LogInv
<1>4. \A f \in Reads(t, disk) : disk[f] = log[t].imprint[f] /\ disk[f] # Missing
  BY <1>1, <1>2 DEF IInv, TypeOK, SettledInv
<1>5. Runnable(t, disk)
  BY <1>3, <1>4 DEF Runnable
<1>6. disk[t] = Made(t, log[t].imprint)
      /\ log[t].imprint = [f \in Covered(t, log[t].deps) |-> log[t].imprint[f]]
  BY <1>1 DEF IInv, LogInv, SettledInv
<1>7. log[t].imprint = [f \in Reads(t, disk) |-> disk[f]]
  BY <1>2, <1>4, <1>6
<1> QED BY <1>1, <1>3, <1>5, <1>6, <1>7 DEF Generated

(* Files are made in some order: in each round, one more of the settled    *)
(* ones at least is what it is on disk, and remains so in the next ones.   *)
LEMMA SettledAreFresh == ASSUME Deterministic, IInv, ReportInv PROVE SettledIsFresh
<1> DEFINE N == Cardinality(Outputs)
           A == CHOOSE B : IsRounds(B, N)
<1>1. Fresh = A[N]
  BY Zenon DEF Fresh, IsRounds
<1>2. IsFiniteSet(Outputs) /\ N \in Nat
  BY RulesAssumption, FS_CardinalityType
<1>3. IsRounds(A, N)
  BY <1>2, RoundsExist
<1> HIDE DEF N, A
<1> DEFINE Good(n) == {t \in settled : \A m \in n..N : A[m][t] = disk[t]}
<1>4. settled \subseteq Outputs /\ IsFiniteSet(settled)
  <2>1. settled \subseteq Outputs
    BY DEF IInv, TypeOK
  <2> QED BY <1>2, <2>1, FS_Subset
<1>5. Cardinality(settled) <= N /\ Cardinality(settled) \in Nat
  BY <1>2, <1>4, FS_Subset, FS_CardinalityType DEF N
<1>6. \A n \in 0..N : A[n] = [f \in Files |-> A[n][f]] /\ \A f \in Sources : A[n][f] = disk[f]
  <2> SUFFICES ASSUME NEW n \in 0..N
               PROVE  A[n] = [f \in Files |-> A[n][f]] /\ \A f \in Sources : A[n][f] = disk[f]
    OBVIOUS
  <2>1. A[n] = IF n = 0 THEN FromNothing ELSE Again(A[n - 1])
    BY <1>3 DEF IsRounds
  <2>2. CASE n = 0
    BY <2>1, <2>2 DEF FromNothing, Files
  <2>3. CASE n # 0
    BY <2>1, <2>3 DEF Again, Files
  <2> QED BY <2>2, <2>3
<1>7. ASSUME NEW n \in Nat, n + 1 \in 0..N, NEW t \in settled, Plan!Producers[t] \subseteq Good(n)
      PROVE  t \in Good(n + 1)
  <2> SUFFICES ASSUME NEW m \in (n + 1)..N PROVE A[m][t] = disk[t]
    OBVIOUS
  <2>1. m \in 0..N /\ m # 0 /\ m - 1 \in n..N /\ m - 1 \in 0..N
    BY <1>2, <1>7
  <2> PICK view : view = A[m - 1]
    OBVIOUS
  <2>2. A[m] = Again(view)
    BY <1>3, <2>1 DEF IsRounds
  <2>3. view = [f \in Files |-> view[f]] /\ \A f \in Sources : view[f] = disk[f]
    BY <1>6, <2>1
  <2>4. \A f \in Plan!Producers[t] : view[f] = disk[f]
    BY <1>7, <2>1
  <2>5. /\ t \in Outputs /\ Reads(t, disk) \subseteq Files
        /\ Reads(t, disk) \cap Outputs \subseteq Plan!Producers[t]
        /\ Runnable(t, disk) /\ disk[t] = Generated(t, disk)
    BY SettledIsMade
  <2>6. \A f \in Reads(t, disk) : view[f] = disk[f]
    BY <2>3, <2>4, <2>5 DEF Files
  <2>7. Generated(t, view) = Generated(t, disk) /\ Runnable(t, view)
    BY <2>3, <2>5, <2>6, SameReport DEF ReportInv
  <2>8. t \in Files /\ t \notin Sources
    BY <2>5, RulesAssumption DEF Files
  <2> QED BY <2>2, <2>5, <2>7, <2>8 DEF Again
<1>8. ASSUME NEW n \in Nat, n + 1 \in 0..N PROVE Good(n) \subseteq Good(n + 1)
  <2>1. \A m \in (n + 1)..N : m \in n..N
    BY <1>2, <1>8
  <2> QED BY <2>1
<1>9. ASSUME NEW n \in Nat, n + 1 \in 0..N, settled \ Good(n) # {}
      PROVE  \E t \in settled \ Good(n) : t \in Good(n + 1)
  <2>1. PICK t \in settled \ Good(n) : Plan!Producers[t] \cap (settled \ Good(n)) = {}
    BY <1>9 DEF ReportInv, Grounded
  <2>2. Plan!Producers[t] \subseteq settled
    BY SettledIsMade
  <2>3. Plan!Producers[t] \subseteq Good(n)
    BY <2>1, <2>2
  <2> HIDE DEF Good
  <2> QED BY <1>7, <1>9, <2>1, <2>3
<1> DEFINE Left(n) == settled \ Good(n)
           S == {n \in Nat : n \in 0..N => Cardinality(Left(n)) <= N - n}
<1>10. \A n \in Nat : IsFiniteSet(Left(n)) /\ Cardinality(Left(n)) \in Nat
                      /\ Cardinality(Left(n)) <= Cardinality(settled)
  <2> SUFFICES ASSUME NEW n \in Nat
               PROVE  IsFiniteSet(Left(n)) /\ Cardinality(Left(n)) \in Nat
                      /\ Cardinality(Left(n)) <= Cardinality(settled)
    OBVIOUS
  <2>1. Left(n) \subseteq settled
    OBVIOUS
  <2> HIDE DEF Left
  <2> QED BY <1>4, <2>1, FS_Subset, FS_CardinalityType
<1>11. 0 \in S
  <2>1. Cardinality(Left(0)) <= N - 0
    <3> HIDE DEF Left
    <3> QED BY <1>2, <1>5, <1>10
  <2> HIDE DEF Left
  <2> QED BY <2>1
<1>12. ASSUME NEW n \in S PROVE n + 1 \in S
  <2>0. n \in Nat
    OBVIOUS
  <2> SUFFICES ASSUME n + 1 \in 0..N PROVE Cardinality(Left(n + 1)) <= N - (n + 1)
    BY <2>0
  <2>1. n \in 0..N /\ Cardinality(Left(n)) <= N - n
    <3>1. n \in 0..N
      BY <1>2, <2>0
    <3> HIDE DEF Left
    <3> QED BY <3>1
  <2>2. Left(n + 1) \subseteq Left(n)
    BY <1>8, <2>0
  <2>3. CASE Left(n) = {}
    <3>1. Left(n + 1) = {}
      BY <2>2, <2>3
    <3> HIDE DEF Left, S
    <3>2. Cardinality(Left(n + 1)) = 0
      BY <3>1, FS_EmptySet
    <3> QED BY <1>2, <2>0, <3>2
  <2>4. CASE Left(n) # {}
    <3>1. PICK t \in Left(n) : t \in Good(n + 1)
      BY <1>9, <2>0, <2>4
    <3>2. Left(n + 1) \subseteq Left(n) \ {t}
      BY <2>2, <3>1
    <3> HIDE DEF Left, S, Good
    <3>3. /\ IsFiniteSet(Left(n) \ {t}) /\ Cardinality(Left(n) \ {t}) = Cardinality(Left(n)) - 1
      BY <1>10, <2>0, <3>1, FS_RemoveElement
    <3>4. Cardinality(Left(n + 1)) <= Cardinality(Left(n) \ {t})
      BY <3>2, <3>3, FS_Subset
    <3>5. Cardinality(Left(n)) \in Nat /\ Cardinality(Left(n + 1)) \in Nat
      BY <1>10, <2>0
    <3> QED BY <1>2, <2>0, <2>1, <3>3, <3>4, <3>5
  <2> QED BY <2>3, <2>4
<1>13. Left(N) = {}
  <2>1. S = Nat
    <3>1. S \in SUBSET Nat
      OBVIOUS
    <3> HIDE DEF S
    <3> QED BY <1>11, <1>12, <3>1, Induction
  <2>2. N \in 0..N
    BY <1>2
  <2> HIDE DEF Left
  <2>3. Cardinality(Left(N)) <= N - N
    BY <1>2, <2>1, <2>2
  <2>4. Cardinality(Left(N)) = 0
    BY <1>2, <1>10, <2>3
  <2> QED BY <1>2, <1>10, <2>4, FS_EmptySet
<1>14. \A t \in settled : A[N][t] = disk[t]
  <2>1. N \in N..N
    BY <1>2
  <2> QED BY <1>13, <2>1
<1> QED BY <1>1, <1>14 DEF SettledIsFresh

(* Incremental updates are what a build from nothing would be, as long as  *)
(* sources are edited between runs only and commands are deterministic:    *)
(* what any run found or brought up to date is so, and stays so (the       *)
(* decisions of src/update.cpp and what its hash cache remembers).         *)
THEOREM SettledFresh ==
  ASSUME ~EditsDuringRun, Deterministic PROVE Spec => []SettledIsFresh
<1>1. IInv /\ ReportInv => SettledIsFresh
  BY SettledAreFresh
<1> QED BY <1>1, InductiveReports, PTL
==============================================================================
