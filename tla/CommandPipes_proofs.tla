------------------------ MODULE CommandPipes_proofs ------------------------
(***************************************************************************)
(* The invariants of CommandPipes for every set of workers, number of jobs *)
(* and capacity of the pipes. The inductive invariant IInv says, for each  *)
(* place a worker may be at, what is open, who reads and how far the       *)
(* process is; and that an end whose reader has seen the end of the file   *)
(* is open nowhere, so that nobody can write to it any more.               *)
(***************************************************************************)
EXTENDS CommandPipes, TLAPS

Before == {"assigned", "piped", "opened", "listening"}
During == {"spawned", "halfclosed", "closed"}
Collected  == {"gathered", "succeeded", "failed", "finalizing", "kept", "releasing"}
After  == {"reaped"} \cup Collected
Closed == {"idle", "finalizing", "releasing"}
Over(j) == proc[j] \in {"exited", "gone"}

(* A worker that is not idle has a job of its own.                         *)
JobsInv ==
  /\ \A w \in Workers : loc[w] # "idle" => job[w] # 0
  /\ \A w \in Workers : job[w] <= scheduled
  /\ \A v, w \in Workers : job[v] = job[w] /\ job[v] # 0 => v = w

(* How far its process is.                                                 *)
ProcInv ==
  /\ \A j \in JobIds : j > scheduled => proc[j] = "none"
  /\ \A j \in JobIds : j <= scheduled => Over(j) \/ \E w \in Workers : job[w] = j /\ loc[w] # "idle"
  /\ \A w \in Workers : loc[w] \in Before => proc[job[w]] = "none"
  /\ \A w \in Workers : loc[w] \in During => proc[job[w]] # "none"
  /\ \A w \in Workers : loc[w] \in After => Over(job[w])

(* A process that writes has what it writes to.                            *)
WriterInv ==
  \A w \in Workers : job[w] # 0 /\ proc[job[w]] \in Kinds =>
    EndOf(proc[job[w]], w) \in procHeld[job[w]] /\ budget[job[w]] > 0

(* What upd itself has open, and when.                                     *)
PipeHeld ==
  \A j \in JobIds : <<"stdout", j>> \in held =>
    \E w \in Workers : job[w] = j /\ loc[w] \in {"piped", "opened", "listening", "spawned"}
TerminalHeld ==
  \A w \in Workers : <<"stderr", w>> \in held =>
    loc[w] \in {"opened", "listening", "spawned", "halfclosed"}
DepfileHeld ==
  \A j \in JobIds : <<"depfile", j>> \in held <=>
    \E w \in Workers : job[w] = j /\ loc[w] \notin Closed
HeldInv == PipeHeld /\ TerminalHeld /\ DepfileHeld

Listening == {"listening", "spawned", "halfclosed", "closed", "reaped"}

(* Who reads, and when.                                                    *)
PipeReader ==
  /\ \A j \in JobIds : j > scheduled => reader[<<"stdout", j>>] = "none"
  /\ \A w \in Workers : loc[w] \in {"assigned", "piped", "opened"} => reader[<<"stdout", job[w]>>] = "none"
  /\ \A w \in Workers : loc[w] \in Collected => reader[<<"stdout", job[w]>>] = "ended"
  /\ \A j \in JobIds : reader[<<"stdout", j>>] = "reading" =>
       \E w \in Workers : job[w] = j /\ loc[w] \in Listening
TerminalReader ==
  \A w \in Workers : /\ loc[w] \in Collected => reader[<<"stderr", w>>] = "ended"
                     /\ reader[<<"stderr", w>>] = "reading" => loc[w] \in Listening
DepfileReader ==
  /\ \A j \in JobIds : j > scheduled => reader[<<"depfile", j>>] = "none"
  /\ \A j \in JobIds : reader[<<"depfile", j>>] = "reading" =>
       \E w \in Workers : job[w] = j /\ loc[w] # "idle"
ReaderInv == PipeReader /\ TerminalReader /\ DepfileReader

(* What a reader that has ended implies.                                   *)
PipeEnd ==
  \A j \in JobIds : reader[<<"stdout", j>>] = "ended" =>
    unread[<<"stdout", j>>] = 0 /\ ~Open(<<"stdout", j>>)
TerminalEnd ==
  \A w \in Workers : reader[<<"stderr", w>>] = "ended" =>
    unread[<<"stderr", w>>] = 0 /\ (loc[w] = "opened" \/ ~Open(<<"stderr", w>>))
DepfileEnd ==
  \A j \in JobIds : reader[<<"depfile", j>>] = "ended" =>
    unread[<<"depfile", j>>] = 0 /\ ~Open(<<"depfile", j>>) /\ Over(j)
EndInv == PipeEnd /\ TerminalEnd /\ DepfileEnd

MainInv == main = "returned" => \A w \in Workers : loc[w] = "idle"

IInv == TypeOK /\ JobsInv /\ ProcInv /\ WriterInv /\ HeldInv /\ ReaderInv /\ EndInv /\ MainInv

LEMMA ScheduleStep == ASSUME IInv, NEW w \in Workers, Schedule(w) PROVE IInv'
<1> USE DEF IInv
<1>1. PICK j1 \in JobIds : j1 = scheduled + 1
  BY BoundsAssumption DEF Schedule, Assign, TypeOK, JobIds
<1>a. /\ scheduled' = j1
      /\ loc[w] = "idle" /\ main = "looping"
      /\ held' = held \cup {<<"depfile", j1>>}
      /\ <<"depfile", j1>> \in Ends
      /\ \A j \in JobIds : j > scheduled' <=> j > scheduled /\ j # j1
      /\ \A v \in Workers : job[v] # j1
      /\ j1 > scheduled /\ j1 # 0
      /\ UNCHANGED <<main, failing, proc, procHeld, budget, unread>>
  BY <1>1 DEF Schedule, Assign, Main, procVars, TypeOK, JobIds, Ends, Depfiles, JobsInv
<1>b. /\ \A v \in Workers : loc'[v] = IF v = w THEN "assigned" ELSE loc[v]
      /\ \A v \in Workers : job'[v] = IF v = w THEN j1 ELSE job[v]
  BY <1>1 DEF TypeOK, Schedule, Assign, Main
<1>c. /\ \A j \in JobIds : reader'[<<"stdout", j>>] = reader[<<"stdout", j>>]
      /\ \A v \in Workers : reader'[<<"stderr", v>>] = reader[<<"stderr", v>>]
      /\ \A j \in JobIds : reader'[<<"depfile", j>>] = IF j = j1 THEN "reading" ELSE reader[<<"depfile", j>>]
  BY <1>1 DEF TypeOK, Ends, Depfiles, Schedule, Assign
<1>d. /\ \A j \in JobIds : <<"stdout", j>> \in held' <=> <<"stdout", j>> \in held
      /\ \A v \in Workers : <<"stderr", v>> \in held' <=> <<"stderr", v>> \in held
      /\ \A j \in JobIds : <<"depfile", j>> \in held' <=> j = j1 \/ <<"depfile", j>> \in held
  BY <1>a
<1>2. TypeOK'
  <2>1. held' \in SUBSET Ends
    BY <1>a DEF TypeOK
  <2>2. reader' \in [Ends -> {"none", "reading", "ended", "threw"}]
    BY <1>1 DEF TypeOK, Schedule, Assign
  <2> QED BY <1>1, <1>a, <2>1, <2>2 DEF TypeOK, Schedule, Assign, Main, JobIds, Locs
<1>3. JobsInv'
  <2>1. \A v \in Workers : loc'[v] # "idle" => job'[v] # 0
    BY <1>a, <1>b DEF JobsInv
  <2>2. \A v \in Workers : job'[v] <= scheduled'
    BY <1>1, <1>a, <1>b DEF JobsInv, TypeOK
  <2>3. \A u, v \in Workers : job'[u] = job'[v] /\ job'[u] # 0 => u = v
    BY <1>a, <1>b DEF JobsInv
  <2> QED BY <2>1, <2>2, <2>3 DEF JobsInv
<1>4. ProcInv'
  <2>1. \A j \in JobIds : j > scheduled' => proc'[j] = "none"
    BY <1>a DEF ProcInv
  <2>2. \A j \in JobIds : j <= scheduled' => Over(j)' \/ \E v \in Workers : job'[v] = j /\ loc'[v] # "idle"
    <3> SUFFICES ASSUME NEW j \in JobIds, j <= scheduled', ~Over(j)
                 PROVE  \E v \in Workers : job'[v] = j /\ loc'[v] # "idle"
      BY <1>a DEF Over
    <3>1. CASE j = j1
      BY <3>1, <1>b
    <3>2. CASE j # j1
      <4>1. j <= scheduled
        BY <3>2, <1>1, <1>a DEF TypeOK, JobIds
      <4> QED BY <4>1, <1>a, <1>b DEF ProcInv
    <3> QED BY <3>1, <3>2
  <2>3. \A v \in Workers : /\ loc'[v] \in Before => proc'[job'[v]] = "none"
                           /\ loc'[v] \in During => proc'[job'[v]] # "none"
                           /\ loc'[v] \in After => Over(job[v])'
    BY <1>a, <1>b DEF ProcInv, Over, Before, During, After, Collected
  <2> QED BY <2>1, <2>2, <2>3 DEF ProcInv
<1>w. WriterInv'
  BY <1>1, <1>a, <1>b DEF WriterInv, ProcInv, JobsInv, TypeOK, JobIds, Kinds, EndOf
<1>5. HeldInv'
  <2>1. PipeHeld'
    BY <1>a, <1>b, <1>d DEF HeldInv, PipeHeld, JobsInv, TypeOK
  <2>2. TerminalHeld'
    BY <1>a, <1>b, <1>d DEF HeldInv, TerminalHeld
  <2>3. DepfileHeld'
    <3> SUFFICES ASSUME NEW j \in JobIds
                 PROVE  <<"depfile", j>> \in held' <=>
                          \E v \in Workers : job'[v] = j /\ loc'[v] \notin Closed
      BY DEF DepfileHeld
    <3>1. CASE j = j1
      BY <3>1, <1>a, <1>b, <1>d DEF Closed
    <3>2. CASE j # j1
      BY <3>2, <1>a, <1>b, <1>d DEF HeldInv, DepfileHeld, Closed
    <3> QED BY <3>1, <3>2
  <2> QED BY <2>1, <2>2, <2>3 DEF HeldInv
<1>6. ReaderInv'
  <2>1. PipeReader'
    <3>1. \A j \in JobIds : j > scheduled' => reader'[<<"stdout", j>>] = "none"
      BY <1>a, <1>c DEF ReaderInv, PipeReader
    <3>2. \A v \in Workers : loc'[v] \in {"assigned", "piped", "opened"} => reader'[<<"stdout", job'[v]>>] = "none"
      BY <1>a, <1>b, <1>c DEF ReaderInv, PipeReader, TypeOK, JobsInv, JobIds
    <3>3. \A v \in Workers : loc'[v] \in Collected => reader'[<<"stdout", job'[v]>>] = "ended"
      BY <1>a, <1>b, <1>c DEF ReaderInv, PipeReader, Collected, TypeOK, JobsInv, JobIds
    <3>4. \A j \in JobIds : reader'[<<"stdout", j>>] = "reading" =>
            \E v \in Workers : job'[v] = j /\ loc'[v] \in Listening
      BY <1>a, <1>b, <1>c DEF ReaderInv, PipeReader, Listening
    <3> QED BY <3>1, <3>2, <3>3, <3>4 DEF PipeReader
  <2>2. TerminalReader'
    BY <1>a, <1>b, <1>c DEF ReaderInv, TerminalReader, Collected, Listening
  <2>3. DepfileReader'
    <3>1. \A j \in JobIds : j > scheduled' => reader'[<<"depfile", j>>] = "none"
      BY <1>a, <1>c DEF ReaderInv, DepfileReader
    <3>2. \A j \in JobIds : reader'[<<"depfile", j>>] = "reading" =>
            \E v \in Workers : job'[v] = j /\ loc'[v] # "idle"
      BY <1>a, <1>b, <1>c DEF ReaderInv, DepfileReader
    <3> QED BY <3>1, <3>2 DEF DepfileReader
  <2> QED BY <2>1, <2>2, <2>3 DEF ReaderInv
<1>7. EndInv'
  BY <1>1, <1>a, <1>b, <1>c, <1>d
     DEF EndInv, PipeEnd, TerminalEnd, DepfileEnd, Over, Open, Alive, TypeOK, ReaderInv, DepfileReader
<1>8. MainInv'
  BY <1>a DEF MainInv
<1> QED BY <1>2, <1>3, <1>4, <1>w, <1>5, <1>6, <1>7, <1>8

LEMMA CollectFailedStep == ASSUME IInv, NEW w \in Workers, CollectFailed(w) PROVE IInv'
<1> USE DEF IInv
<1>a. /\ loc[w] = "failed" /\ job[w] \in JobIds /\ main = "looping"
      /\ UNCHANGED <<main, scheduled, job, held, proc, procHeld, budget, reader, unread>>
      /\ failing' \in BOOLEAN
  BY DEF CollectFailed, Main, EndOf, mainVars, procVars, readerVars, TypeOK, JobsInv, JobIds, Ends, Depfiles
<1>b. \A v \in Workers : loc'[v] = IF v = w THEN "kept" ELSE loc[v]
  BY DEF CollectFailed, Main, TypeOK
<1>1. TypeOK'
  BY <1>a, <1>b DEF TypeOK, CollectFailed, Main, Locs
<1>2. JobsInv'
  BY <1>a, <1>b DEF JobsInv
<1>3. ProcInv'
  BY <1>a, <1>b DEF ProcInv, Over, Before, During, After, Collected, JobsInv
<1>4. WriterInv'
  BY <1>a, <1>b DEF WriterInv, EndOf, ProcInv, Before, JobsInv
<1>5. HeldInv'
  BY <1>a, <1>b DEF HeldInv, PipeHeld, TerminalHeld, DepfileHeld, Closed, JobsInv
<1>6. ReaderInv'
  BY <1>a, <1>b DEF ReaderInv, PipeReader, TerminalReader, DepfileReader, Listening, Collected, JobsInv
<1>7. EndInv'
  BY <1>a, <1>b DEF EndInv, PipeEnd, TerminalEnd, DepfileEnd, ReaderInv, PipeReader, TerminalReader, Over, Open, Alive
<1>8. MainInv'
  BY <1>a, <1>b DEF MainInv
<1> QED BY <1>1, <1>2, <1>3, <1>4, <1>5, <1>6, <1>7, <1>8

LEMMA FinalizeStep == ASSUME IInv, NEW w \in Workers, Finalize(w) PROVE IInv'
<1> USE DEF IInv
<1>a. /\ loc[w] = "succeeded" /\ job[w] \in JobIds /\ main = "looping"
      /\ UNCHANGED <<main, scheduled, failing, job, proc, procHeld, budget, reader, unread>>
      /\ held' = held \ {<<"depfile", job[w]>>}
  BY DEF Finalize, Main, EndOf, mainVars, procVars, readerVars, TypeOK, JobsInv, JobIds, Ends, Depfiles
<1>b. \A v \in Workers : loc'[v] = IF v = w THEN "finalizing" ELSE loc[v]
  BY DEF Finalize, Main, TypeOK
<1>1. TypeOK'
  BY <1>a, <1>b DEF TypeOK, Finalize, Main, Locs
<1>2. JobsInv'
  BY <1>a, <1>b DEF JobsInv
<1>3. ProcInv'
  BY <1>a, <1>b DEF ProcInv, Over, Before, During, After, Collected, JobsInv
<1>4. WriterInv'
  BY <1>a, <1>b DEF WriterInv, EndOf, ProcInv, Before, JobsInv
<1>5. HeldInv'
  BY <1>a, <1>b DEF HeldInv, PipeHeld, TerminalHeld, DepfileHeld, Closed, JobsInv
<1>6. ReaderInv'
  BY <1>a, <1>b DEF ReaderInv, PipeReader, TerminalReader, DepfileReader, Listening, Collected, JobsInv
<1>7. EndInv'
  BY <1>a, <1>b DEF EndInv, PipeEnd, TerminalEnd, DepfileEnd, ReaderInv, PipeReader, TerminalReader, Over, Open, Alive
<1>8. MainInv'
  BY <1>a, <1>b DEF MainInv
<1> QED BY <1>1, <1>2, <1>3, <1>4, <1>5, <1>6, <1>7, <1>8

LEMMA FinalizedStep == ASSUME IInv, NEW w \in Workers, Finalized(w) PROVE IInv'
<1> USE DEF IInv
<1>a. /\ loc[w] = "finalizing" /\ job[w] \in JobIds /\ reader[<<"depfile", job[w]>>] = "ended"
      /\ UNCHANGED <<main, scheduled, failing, job, held, proc, procHeld, budget, reader, unread>>
  BY DEF Finalized, Main, EndOf, mainVars, procVars, readerVars, TypeOK, JobsInv, JobIds, Ends, Depfiles
<1>b. \A v \in Workers : loc'[v] = IF v = w THEN "idle" ELSE loc[v]
  BY DEF Finalized, Main, TypeOK
<1>1. TypeOK'
  BY <1>a, <1>b DEF TypeOK, Finalized, Main, Locs
<1>2. JobsInv'
  BY <1>a, <1>b DEF JobsInv
<1>3. ProcInv'
  BY <1>a, <1>b DEF ProcInv, Over, Before, During, After, Collected, JobsInv
<1>4. WriterInv'
  BY <1>a, <1>b DEF WriterInv, EndOf, ProcInv, Before, JobsInv
<1>5. HeldInv'
  BY <1>a, <1>b DEF HeldInv, PipeHeld, TerminalHeld, DepfileHeld, Closed, JobsInv
<1>6. ReaderInv'
  BY <1>a, <1>b DEF ReaderInv, PipeReader, TerminalReader, DepfileReader, Listening, Collected, JobsInv
<1>7. EndInv'
  BY <1>a, <1>b DEF EndInv, PipeEnd, TerminalEnd, DepfileEnd, ReaderInv, PipeReader, TerminalReader, Over, Open, Alive
<1>8. MainInv'
  BY <1>a, <1>b DEF MainInv
<1> QED BY <1>1, <1>2, <1>3, <1>4, <1>5, <1>6, <1>7, <1>8

LEMMA ReleaseStep == ASSUME IInv, NEW w \in Workers, Release(w) PROVE IInv'
<1> USE DEF IInv
<1>a. /\ loc[w] = "kept" /\ job[w] \in JobIds /\ main = "left"
      /\ UNCHANGED <<main, scheduled, failing, job, proc, procHeld, budget, reader, unread>>
      /\ held' = held \ {<<"depfile", job[w]>>}
  BY DEF Release, Main, EndOf, mainVars, procVars, readerVars, TypeOK, JobsInv, JobIds, Ends, Depfiles
<1>b. \A v \in Workers : loc'[v] = IF v = w THEN "releasing" ELSE loc[v]
  BY DEF Release, Main, TypeOK
<1>1. TypeOK'
  BY <1>a, <1>b DEF TypeOK, Release, Main, Locs
<1>2. JobsInv'
  BY <1>a, <1>b DEF JobsInv
<1>3. ProcInv'
  BY <1>a, <1>b DEF ProcInv, Over, Before, During, After, Collected, JobsInv
<1>4. WriterInv'
  BY <1>a, <1>b DEF WriterInv, EndOf, ProcInv, Before, JobsInv
<1>5. HeldInv'
  BY <1>a, <1>b DEF HeldInv, PipeHeld, TerminalHeld, DepfileHeld, Closed, JobsInv
<1>6. ReaderInv'
  BY <1>a, <1>b DEF ReaderInv, PipeReader, TerminalReader, DepfileReader, Listening, Collected, JobsInv
<1>7. EndInv'
  BY <1>a, <1>b DEF EndInv, PipeEnd, TerminalEnd, DepfileEnd, ReaderInv, PipeReader, TerminalReader, Over, Open, Alive
<1>8. MainInv'
  BY <1>a, <1>b DEF MainInv
<1> QED BY <1>1, <1>2, <1>3, <1>4, <1>5, <1>6, <1>7, <1>8

LEMMA ReleasedStep == ASSUME IInv, NEW w \in Workers, Released(w) PROVE IInv'
<1> USE DEF IInv
<1>a. /\ loc[w] = "releasing" /\ job[w] \in JobIds /\ reader[<<"depfile", job[w]>>] # "reading"
      /\ UNCHANGED <<main, scheduled, failing, job, held, proc, procHeld, budget, reader, unread>>
  BY DEF Released, Main, EndOf, mainVars, procVars, readerVars, TypeOK, JobsInv, JobIds, Ends, Depfiles
<1>b. \A v \in Workers : loc'[v] = IF v = w THEN "idle" ELSE loc[v]
  BY DEF Released, Main, TypeOK
<1>1. TypeOK'
  BY <1>a, <1>b DEF TypeOK, Released, Main, Locs
<1>2. JobsInv'
  BY <1>a, <1>b DEF JobsInv
<1>3. ProcInv'
  BY <1>a, <1>b DEF ProcInv, Over, Before, During, After, Collected, JobsInv
<1>4. WriterInv'
  BY <1>a, <1>b DEF WriterInv, EndOf, ProcInv, Before, JobsInv
<1>5. HeldInv'
  BY <1>a, <1>b DEF HeldInv, PipeHeld, TerminalHeld, DepfileHeld, Closed, JobsInv
<1>6. ReaderInv'
  BY <1>a, <1>b DEF ReaderInv, PipeReader, TerminalReader, DepfileReader, Listening, Collected, JobsInv
<1>7. EndInv'
  BY <1>a, <1>b DEF EndInv, PipeEnd, TerminalEnd, DepfileEnd, ReaderInv, PipeReader, TerminalReader, Over, Open, Alive
<1>8. MainInv'
  BY <1>a, <1>b DEF MainInv
<1> QED BY <1>1, <1>2, <1>3, <1>4, <1>5, <1>6, <1>7, <1>8

LEMMA MakePipeStep == ASSUME IInv, NEW w \in Workers, MakePipe(w) PROVE IInv'
<1> USE DEF IInv
<1>a. /\ loc[w] = "assigned" /\ job[w] \in JobIds
      /\ UNCHANGED <<main, scheduled, failing, job, proc, procHeld, budget, reader, unread>>
      /\ held' = held \cup {<<"stdout", job[w]>>} /\ <<"stdout", job[w]>> \in Ends
  BY DEF MakePipe, Thread, EndOf, mainVars, procVars, readerVars, TypeOK, JobsInv, JobIds, Ends, Depfiles
<1>b. \A v \in Workers : loc'[v] = IF v = w THEN "piped" ELSE loc[v]
  BY DEF MakePipe, Thread, TypeOK
<1>1. TypeOK'
  BY <1>a, <1>b DEF TypeOK, MakePipe, Thread, Locs
<1>2. JobsInv'
  BY <1>a, <1>b DEF JobsInv
<1>3. ProcInv'
  BY <1>a, <1>b DEF ProcInv, Over, Before, During, After, Collected, JobsInv
<1>4. WriterInv'
  BY <1>a, <1>b DEF WriterInv, EndOf, ProcInv, Before, JobsInv
<1>5. HeldInv'
  BY <1>a, <1>b DEF HeldInv, PipeHeld, TerminalHeld, DepfileHeld, Closed, JobsInv
<1>6. ReaderInv'
  BY <1>a, <1>b DEF ReaderInv, PipeReader, TerminalReader, DepfileReader, Listening, Collected, JobsInv
<1>7. EndInv'
  BY <1>a, <1>b DEF EndInv, PipeEnd, TerminalEnd, DepfileEnd, ReaderInv, PipeReader, TerminalReader, Over, Open, Alive
<1>8. MainInv'
  BY <1>a, <1>b DEF MainInv
<1> QED BY <1>1, <1>2, <1>3, <1>4, <1>5, <1>6, <1>7, <1>8

LEMMA OpenTerminalStep == ASSUME IInv, NEW w \in Workers, OpenTerminal(w) PROVE IInv'
<1> USE DEF IInv
<1>a. /\ loc[w] = "piped" /\ job[w] \in JobIds
      /\ UNCHANGED <<main, scheduled, failing, job, proc, procHeld, budget, reader, unread>>
      /\ held' = held \cup {<<"stderr", w>>} /\ <<"stderr", w>> \in Ends
  BY DEF OpenTerminal, Thread, EndOf, mainVars, procVars, readerVars, TypeOK, JobsInv, JobIds, Ends, Depfiles
<1>b. \A v \in Workers : loc'[v] = IF v = w THEN "opened" ELSE loc[v]
  BY DEF OpenTerminal, Thread, TypeOK
<1>1. TypeOK'
  BY <1>a, <1>b DEF TypeOK, OpenTerminal, Thread, Locs
<1>2. JobsInv'
  BY <1>a, <1>b DEF JobsInv
<1>3. ProcInv'
  BY <1>a, <1>b DEF ProcInv, Over, Before, During, After, Collected, JobsInv
<1>4. WriterInv'
  BY <1>a, <1>b DEF WriterInv, EndOf, ProcInv, Before, JobsInv
<1>5. HeldInv'
  BY <1>a, <1>b DEF HeldInv, PipeHeld, TerminalHeld, DepfileHeld, Closed, JobsInv
<1>6. ReaderInv'
  BY <1>a, <1>b DEF ReaderInv, PipeReader, TerminalReader, DepfileReader, Listening, Collected, JobsInv
<1>7. EndInv'
  BY <1>a, <1>b DEF EndInv, PipeEnd, TerminalEnd, DepfileEnd, ReaderInv, PipeReader, TerminalReader, Over, Open, Alive
<1>8. MainInv'
  BY <1>a, <1>b DEF MainInv
<1> QED BY <1>1, <1>2, <1>3, <1>4, <1>5, <1>6, <1>7, <1>8

LEMMA StartReadersStep == ASSUME IInv, NEW w \in Workers, StartReaders(w) PROVE IInv'
<1> USE DEF IInv
<1>a. /\ loc[w] = "opened" /\ job[w] \in JobIds
      /\ UNCHANGED <<main, scheduled, failing, job, held, proc, procHeld, budget, unread>>
  BY DEF StartReaders, Thread, EndOf, mainVars, procVars, readerVars, TypeOK, JobsInv, JobIds, Ends, Depfiles
<1>b. \A v \in Workers : loc'[v] = IF v = w THEN "listening" ELSE loc[v]
  BY DEF StartReaders, Thread, TypeOK
<1>c. /\ \A j \in JobIds : reader'[<<"stdout", j>>] = IF j = job[w] THEN "reading" ELSE reader[<<"stdout", j>>]
      /\ \A v \in Workers : reader'[<<"stderr", v>>] = IF v = w THEN "reading" ELSE reader[<<"stderr", v>>]
      /\ \A j \in JobIds : reader'[<<"depfile", j>>] = reader[<<"depfile", j>>]
  BY <1>a DEF TypeOK, Ends, Depfiles, StartReaders, EndOf
<1>1. TypeOK'
  BY <1>a, <1>b DEF TypeOK, StartReaders, Thread, Locs
<1>2. JobsInv'
  BY <1>a, <1>b DEF JobsInv
<1>3. ProcInv'
  BY <1>a, <1>b DEF ProcInv, Over, Before, During, After, Collected, JobsInv
<1>4. WriterInv'
  BY <1>a, <1>b DEF WriterInv, EndOf, ProcInv, Before, JobsInv
<1>5. HeldInv'
  BY <1>a, <1>b DEF HeldInv, PipeHeld, TerminalHeld, DepfileHeld, Closed, JobsInv
<1>6. ReaderInv'
  <2>1. PipeReader'
    <3>1. \A j \in JobIds : j > scheduled' => reader'[<<"stdout", j>>] = "none"
      BY <1>a, <1>c DEF ReaderInv, PipeReader, JobsInv, TypeOK, JobIds
    <3>2. \A v \in Workers : /\ loc'[v] \in {"assigned", "piped", "opened"} => reader'[<<"stdout", job'[v]>>] = "none"
                             /\ loc'[v] \in Collected => reader'[<<"stdout", job'[v]>>] = "ended"
      BY <1>a, <1>b, <1>c DEF ReaderInv, PipeReader, Collected, TypeOK, JobsInv, JobIds
    <3>3. \A j \in JobIds : reader'[<<"stdout", j>>] = "reading" =>
            \E v \in Workers : job'[v] = j /\ loc'[v] \in Listening
      BY <1>a, <1>b, <1>c DEF ReaderInv, PipeReader, Listening
    <3> QED BY <3>1, <3>2, <3>3 DEF PipeReader
  <2>2. TerminalReader'
    BY <1>a, <1>b, <1>c DEF ReaderInv, TerminalReader, Listening, Collected
  <2>3. DepfileReader'
    BY <1>a, <1>b, <1>c DEF ReaderInv, DepfileReader
  <2> QED BY <2>1, <2>2, <2>3 DEF ReaderInv
<1>7. EndInv'
  BY <1>a, <1>b, <1>c DEF EndInv, PipeEnd, TerminalEnd, DepfileEnd, Over, Open, Alive
<1>8. MainInv'
  BY <1>a, <1>b DEF MainInv
<1> QED BY <1>1, <1>2, <1>3, <1>4, <1>5, <1>6, <1>7, <1>8

LEMMA SpawnStep == ASSUME IInv, NEW w \in Workers, Spawn(w) PROVE IInv'
<1> USE DEF IInv
<1>a. /\ loc[w] = "listening" /\ job[w] \in JobIds /\ proc[job[w]] = "none"
      /\ UNCHANGED <<main, scheduled, failing, job, held, reader, unread>>
      /\ proc' = [proc EXCEPT ![job[w]] = "running"]
      /\ procHeld' = [procHeld EXCEPT ![job[w]] = held]
      /\ budget' = [budget EXCEPT ![job[w]] = Chunks[job[w]]]
  BY DEF Spawn, Thread, EndOf, mainVars, procVars, readerVars, TypeOK, JobsInv, ProcInv, Before, JobIds, Ends, Depfiles
<1>b. \A v \in Workers : loc'[v] = IF v = w THEN "spawned" ELSE loc[v]
  BY DEF Spawn, Thread, TypeOK
<1>c. \A j \in JobIds : /\ proc'[j] = IF j = job[w] THEN "running" ELSE proc[j]
                        /\ procHeld'[j] = IF j = job[w] THEN held ELSE procHeld[j]
                        /\ budget'[j] = IF j = job[w] THEN Chunks[j] ELSE budget[j]
  BY <1>a DEF TypeOK
<1>d. \A v \in Workers : job[v] # 0 => job[v] \in JobIds
  BY DEF TypeOK, JobIds
<1>1. TypeOK'
  <2>1. loc' \in [Workers -> Locs]
    BY DEF Spawn, Thread, TypeOK, Locs
  <2>2. proc' \in [JobIds -> Procs]
    BY <1>a DEF TypeOK, Procs
  <2>3. procHeld' \in [JobIds -> SUBSET Ends]
    BY <1>a DEF TypeOK
  <2>4. budget' \in [JobIds -> Nat] /\ \A j \in JobIds : budget'[j] <= Chunks[j]
    BY <1>a, <1>c, BoundsAssumption DEF TypeOK, JobIds
  <2> QED BY <1>a, <2>1, <2>2, <2>3, <2>4 DEF TypeOK
<1>2. JobsInv'
  BY <1>a, <1>b DEF JobsInv
<1>3. ProcInv'
  <2>1. \A j \in JobIds : j > scheduled' => proc'[j] = "none"
    BY <1>a, <1>c DEF ProcInv, JobsInv, TypeOK, JobIds
  <2>2. \A j \in JobIds : j <= scheduled' => Over(j)' \/ \E v \in Workers : job'[v] = j /\ loc'[v] # "idle"
    BY <1>a, <1>b, <1>c DEF ProcInv, Over
  <2>3. \A v \in Workers : /\ loc'[v] \in Before => proc'[job'[v]] = "none"
                           /\ loc'[v] \in During => proc'[job'[v]] # "none"
                           /\ loc'[v] \in After => Over(job[v])'
    BY <1>a, <1>b, <1>c, <1>d DEF ProcInv, JobsInv, Over, Before, During, After, Collected
  <2> QED BY <2>1, <2>2, <2>3 DEF ProcInv
<1>4. WriterInv'
  BY <1>a, <1>c, <1>d DEF WriterInv, EndOf, JobsInv, Kinds
<1>5. HeldInv'
  BY <1>a, <1>b DEF HeldInv, PipeHeld, TerminalHeld, DepfileHeld, Closed, JobsInv
<1>6. ReaderInv'
  BY <1>a, <1>b DEF ReaderInv, PipeReader, TerminalReader, DepfileReader, Listening, Collected, JobsInv
<1>7. EndInv'
  <2>1. \A e \in Ends : Open(e)' => Open(e)
    BY <1>a, <1>c DEF Open, Alive
  <2>2. \A j \in JobIds : <<"stdout", j>> \in Ends /\ <<"depfile", j>> \in Ends
    BY DEF Ends, Depfiles
  <2>3. \A v \in Workers : <<"stderr", v>> \in Ends
    BY DEF Ends
  <2>4. PipeEnd'
    BY <1>a, <2>1, <2>2 DEF EndInv, PipeEnd
  <2>5. TerminalEnd'
    BY <1>a, <1>b, <2>1, <2>3 DEF EndInv, TerminalEnd
  <2>6. DepfileEnd'
    BY <1>a, <1>c, <2>1, <2>2 DEF EndInv, DepfileEnd, Over
  <2> QED BY <2>4, <2>5, <2>6 DEF EndInv
<1>8. MainInv'
  BY <1>a, <1>b DEF MainInv
<1> QED BY <1>1, <1>2, <1>3, <1>4, <1>5, <1>6, <1>7, <1>8

LEMMA ClosePipeStep == ASSUME IInv, NEW w \in Workers, ClosePipe(w) PROVE IInv'
<1> USE DEF IInv
<1>a. /\ loc[w] = "spawned" /\ job[w] \in JobIds
      /\ UNCHANGED <<main, scheduled, failing, job, proc, procHeld, budget, reader, unread>>
      /\ held' = held \ {<<"stdout", job[w]>>}
  BY DEF ClosePipe, Thread, EndOf, mainVars, procVars, readerVars, TypeOK, JobsInv, JobIds, Ends, Depfiles
<1>b. \A v \in Workers : loc'[v] = IF v = w THEN "halfclosed" ELSE loc[v]
  BY DEF ClosePipe, Thread, TypeOK
<1>1. TypeOK'
  BY <1>a, <1>b DEF TypeOK, ClosePipe, Thread, Locs
<1>2. JobsInv'
  BY <1>a, <1>b DEF JobsInv
<1>3. ProcInv'
  BY <1>a, <1>b DEF ProcInv, Over, Before, During, After, Collected, JobsInv
<1>4. WriterInv'
  BY <1>a, <1>b DEF WriterInv, EndOf, ProcInv, Before, JobsInv
<1>5. HeldInv'
  BY <1>a, <1>b DEF HeldInv, PipeHeld, TerminalHeld, DepfileHeld, Closed, JobsInv
<1>6. ReaderInv'
  BY <1>a, <1>b DEF ReaderInv, PipeReader, TerminalReader, DepfileReader, Listening, Collected, JobsInv
<1>7. EndInv'
  BY <1>a, <1>b DEF EndInv, PipeEnd, TerminalEnd, DepfileEnd, ReaderInv, PipeReader, TerminalReader, Over, Open, Alive
<1>8. MainInv'
  BY <1>a, <1>b DEF MainInv
<1> QED BY <1>1, <1>2, <1>3, <1>4, <1>5, <1>6, <1>7, <1>8

LEMMA CloseTerminalStep == ASSUME IInv, NEW w \in Workers, CloseTerminal(w) PROVE IInv'
<1> USE DEF IInv
<1>a. /\ loc[w] = "halfclosed" /\ job[w] \in JobIds
      /\ UNCHANGED <<main, scheduled, failing, job, proc, procHeld, budget, reader, unread>>
      /\ held' = held \ {<<"stderr", w>>}
  BY DEF CloseTerminal, Thread, EndOf, mainVars, procVars, readerVars, TypeOK, JobsInv, JobIds, Ends, Depfiles
<1>b. \A v \in Workers : loc'[v] = IF v = w THEN "closed" ELSE loc[v]
  BY DEF CloseTerminal, Thread, TypeOK
<1>1. TypeOK'
  BY <1>a, <1>b DEF TypeOK, CloseTerminal, Thread, Locs
<1>2. JobsInv'
  BY <1>a, <1>b DEF JobsInv
<1>3. ProcInv'
  BY <1>a, <1>b DEF ProcInv, Over, Before, During, After, Collected, JobsInv
<1>4. WriterInv'
  BY <1>a, <1>b DEF WriterInv, EndOf, ProcInv, Before, JobsInv
<1>5. HeldInv'
  BY <1>a, <1>b DEF HeldInv, PipeHeld, TerminalHeld, DepfileHeld, Closed, JobsInv
<1>6. ReaderInv'
  BY <1>a, <1>b DEF ReaderInv, PipeReader, TerminalReader, DepfileReader, Listening, Collected, JobsInv
<1>7. EndInv'
  BY <1>a, <1>b DEF EndInv, PipeEnd, TerminalEnd, DepfileEnd, ReaderInv, PipeReader, TerminalReader, Over, Open, Alive
<1>8. MainInv'
  BY <1>a, <1>b DEF MainInv
<1> QED BY <1>1, <1>2, <1>3, <1>4, <1>5, <1>6, <1>7, <1>8

LEMMA ReapStep == ASSUME IInv, NEW w \in Workers, Reap(w) PROVE IInv'
<1> USE DEF IInv
<1>a. /\ loc[w] = "closed" /\ job[w] \in JobIds /\ Over(job[w])
      /\ UNCHANGED <<main, scheduled, failing, job, held, proc, procHeld, budget, reader, unread>>
  BY DEF Reap, Thread, Over, EndOf, mainVars, procVars, readerVars, TypeOK, JobsInv, JobIds, Ends, Depfiles
<1>b. \A v \in Workers : loc'[v] = IF v = w THEN "reaped" ELSE loc[v]
  BY DEF Reap, Thread, Over, TypeOK
<1>1. TypeOK'
  BY <1>a, <1>b DEF TypeOK, Reap, Thread, Over, Locs
<1>2. JobsInv'
  BY <1>a, <1>b DEF JobsInv
<1>3. ProcInv'
  BY <1>a, <1>b DEF ProcInv, Over, Before, During, After, Collected, JobsInv
<1>4. WriterInv'
  BY <1>a, <1>b DEF WriterInv, EndOf, ProcInv, Before, JobsInv
<1>5. HeldInv'
  BY <1>a, <1>b DEF HeldInv, PipeHeld, TerminalHeld, DepfileHeld, Closed, JobsInv
<1>6. ReaderInv'
  BY <1>a, <1>b DEF ReaderInv, PipeReader, TerminalReader, DepfileReader, Listening, Collected, JobsInv
<1>7. EndInv'
  BY <1>a, <1>b DEF EndInv, PipeEnd, TerminalEnd, DepfileEnd, ReaderInv, PipeReader, TerminalReader, Over, Open, Alive
<1>8. MainInv'
  BY <1>a, <1>b DEF MainInv
<1> QED BY <1>1, <1>2, <1>3, <1>4, <1>5, <1>6, <1>7, <1>8

LEMMA GatherStep == ASSUME IInv, NEW w \in Workers, Gather(w) PROVE IInv'
<1> USE DEF IInv
<1>a. /\ loc[w] = "reaped" /\ job[w] \in JobIds /\ reader[<<"stdout", job[w]>>] = "ended" /\ reader[<<"stderr", w>>] = "ended"
      /\ UNCHANGED <<main, scheduled, failing, job, held, proc, procHeld, budget, reader, unread>>
  BY DEF Gather, Thread, EndOf, mainVars, procVars, readerVars, TypeOK, JobsInv, JobIds, Ends, Depfiles
<1>b. \A v \in Workers : loc'[v] = IF v = w THEN "gathered" ELSE loc[v]
  BY DEF Gather, Thread, TypeOK
<1>1. TypeOK'
  BY <1>a, <1>b DEF TypeOK, Gather, Thread, Locs
<1>2. JobsInv'
  BY <1>a, <1>b DEF JobsInv
<1>3. ProcInv'
  BY <1>a, <1>b DEF ProcInv, Over, Before, During, After, Collected, JobsInv
<1>4. WriterInv'
  BY <1>a, <1>b DEF WriterInv, EndOf, ProcInv, Before, JobsInv
<1>5. HeldInv'
  BY <1>a, <1>b DEF HeldInv, PipeHeld, TerminalHeld, DepfileHeld, Closed, JobsInv
<1>6. ReaderInv'
  BY <1>a, <1>b DEF ReaderInv, PipeReader, TerminalReader, DepfileReader, Listening, Collected, JobsInv
<1>7. EndInv'
  BY <1>a, <1>b DEF EndInv, PipeEnd, TerminalEnd, DepfileEnd, ReaderInv, PipeReader, TerminalReader, Over, Open, Alive
<1>8. MainInv'
  BY <1>a, <1>b DEF MainInv
<1> QED BY <1>1, <1>2, <1>3, <1>4, <1>5, <1>6, <1>7, <1>8

LEMMA PublishStep == ASSUME IInv, NEW w \in Workers, Publish(w) PROVE IInv'
<1> USE DEF IInv
<1>r. PICK result \in {"succeeded", "failed"} : Thread(w, "gathered", result)
  BY DEF Publish
<1>a. /\ loc[w] = "gathered" /\ job[w] \in JobIds
      /\ UNCHANGED <<main, scheduled, failing, job, held, proc, procHeld, budget, reader, unread>>
  BY <1>r DEF Publish, Thread, EndOf, mainVars, procVars, readerVars, TypeOK, JobsInv, JobIds, Ends, Depfiles
<1>b. \A v \in Workers : loc'[v] = IF v = w THEN result ELSE loc[v]
  BY <1>r DEF Publish, Thread, TypeOK
<1>1. TypeOK'
  BY <1>r, <1>a, <1>b DEF TypeOK, Publish, Thread, Locs
<1>2. JobsInv'
  BY <1>r, <1>a, <1>b DEF JobsInv
<1>3. ProcInv'
  BY <1>r, <1>a, <1>b DEF ProcInv, Over, Before, During, After, Collected, JobsInv
<1>4. WriterInv'
  BY <1>r, <1>a, <1>b DEF WriterInv, EndOf, ProcInv, Before, JobsInv
<1>5. HeldInv'
  BY <1>r, <1>a, <1>b DEF HeldInv, PipeHeld, TerminalHeld, DepfileHeld, Closed, JobsInv
<1>6. ReaderInv'
  BY <1>r, <1>a, <1>b DEF ReaderInv, PipeReader, TerminalReader, DepfileReader, Listening, Collected, JobsInv
<1>7. EndInv'
  BY <1>r, <1>a, <1>b DEF EndInv, PipeEnd, TerminalEnd, DepfileEnd, ReaderInv, PipeReader, TerminalReader, Over, Open, Alive
<1>8. MainInv'
  BY <1>r, <1>a, <1>b DEF MainInv
<1> QED BY <1>1, <1>2, <1>3, <1>4, <1>5, <1>6, <1>7, <1>8

LEMMA HaltStep ==
  ASSUME IInv, main' \in Mains, main' = "returned" => \A w \in Workers : loc[w] = "idle",
         UNCHANGED <<scheduled, failing, job, loc, held, procVars, readerVars>>
  PROVE  IInv'
<1>1. TypeOK'
  BY DEF IInv, TypeOK, procVars, readerVars
<1>2. JobsInv' /\ ProcInv' /\ WriterInv' /\ HeldInv' /\ ReaderInv'
  BY DEF IInv, procVars, readerVars, JobsInv, ProcInv, Over, WriterInv, EndOf, HeldInv, PipeHeld, TerminalHeld,
         DepfileHeld, ReaderInv, PipeReader, TerminalReader, DepfileReader
<1>3. EndInv'
  BY DEF IInv, procVars, readerVars, EndInv, PipeEnd, TerminalEnd, DepfileEnd, Over, Open, Alive
<1>4. MainInv'
  BY DEF MainInv
<1> QED BY <1>1, <1>2, <1>3, <1>4 DEF IInv

(* What a process does leaves the places and what upd holds alone: an end  *)
(* that it does not take is open only if it was.                           *)
LEMMA CommandStep ==
  ASSUME IInv, NEW j \in JobIds, Command(j), TypeOK',
         proc[j] # "none", proc'[j] # "none", Over(j) => Over(j)',
         \A k \in JobIds : k # j => proc'[k] = proc[k] /\ procHeld'[k] = procHeld[k],
         \A e \in procHeld'[j] : e \in procHeld[j] \/ (e = <<"depfile", j>> /\ reader[e] # "ended"),
         \A e \in Ends : reader[e] = "ended" => unread'[e] = unread[e],
         Alive(j)' => Alive(j), WriterInv'
  PROVE  IInv'
<1>1. JobsInv' /\ HeldInv' /\ ReaderInv' /\ MainInv'
  BY DEF IInv, Command, mainVars, JobsInv, HeldInv, PipeHeld, TerminalHeld, DepfileHeld,
         ReaderInv, PipeReader, TerminalReader, DepfileReader, MainInv
<1>2. ProcInv'
  <2>1. \A k \in JobIds : /\ proc'[k] = "none" <=> proc[k] = "none"
                         /\ Over(k) => Over(k)'
    BY DEF Over
  <2>2. \A w \in Workers : loc[w] # "idle" => job[w] \in JobIds
    BY DEF IInv, JobsInv, TypeOK, JobIds
  <2>3. UNCHANGED <<scheduled, job, loc>>
    BY DEF Command, mainVars
  <2> QED BY <2>1, <2>2, <2>3 DEF IInv, ProcInv, Over, Before, During, After, Collected
<1>e. /\ \A k \in JobIds : <<"stdout", k>> \in Ends /\ <<"depfile", k>> \in Ends
      /\ \A w \in Workers : <<"stderr", w>> \in Ends
  BY DEF Ends, Depfiles
<1>3. \A e \in Ends : Open(e)' => Open(e) \/ (e = <<"depfile", j>> /\ reader[e] # "ended")
  BY DEF IInv, Command, mainVars, Open, Alive
<1>4. PipeEnd'
  BY <1>e, <1>3 DEF IInv, Command, EndInv, PipeEnd
<1>5. TerminalEnd'
  BY <1>e, <1>3 DEF IInv, Command, EndInv, TerminalEnd
<1>6. DepfileEnd'
  BY <1>e, <1>3 DEF IInv, Command, EndInv, DepfileEnd, Over
<1> QED BY <1>1, <1>2, <1>4, <1>5, <1>6 DEF IInv, EndInv

LEMMA CloseInheritedStep == ASSUME IInv, NEW w \in Workers, CloseInherited(w) PROVE IInv'
<1>1. job[w] \in JobIds /\ Command(job[w]) /\ proc[job[w]] = "running" /\ UNCHANGED <<proc, budget, unread>>
  BY DEF CloseInherited, IInv, TypeOK, JobIds
<1>2. \A k \in JobIds : /\ k # job[w] => procHeld'[k] = procHeld[k]
                       /\ procHeld'[k] \subseteq procHeld[k]
  BY DEF CloseInherited, IInv, TypeOK
<1>3. TypeOK'
  BY <1>1 DEF CloseInherited, Command, mainVars, IInv, TypeOK
<1>4. WriterInv'
  <2>1. \A v \in Workers : job[v] # 0 => job[v] \in JobIds
    BY DEF IInv, TypeOK, JobIds
  <2>2. \A v \in Workers : job[v] # 0 /\ proc[job[v]] \in Kinds => job[v] # job[w]
    BY <1>1 DEF Kinds
  <2> QED BY <1>1, <1>2, <2>1, <2>2 DEF IInv, WriterInv, Command, EndOf
<1> QED BY <1>1, <1>2, <1>3, <1>4, CommandStep DEF Over, Alive

LEMMA OpenDepfileStep == ASSUME IInv, NEW j \in JobIds, OpenDepfile(j) PROVE IInv'
<1>1. Command(j) /\ proc[j] = "running" /\ UNCHANGED <<proc, budget, unread>> /\ reader[<<"depfile", j>>] # "ended"
  BY DEF OpenDepfile
<1>2. <<"depfile", j>> \in Ends
  BY DEF Ends, Depfiles
<1>3. \A k \in JobIds : procHeld'[k] = IF k = j THEN procHeld[k] \cup {<<"depfile", j>>} ELSE procHeld[k]
  BY DEF OpenDepfile, IInv, TypeOK
<1>4. TypeOK'
  BY <1>1, <1>2 DEF OpenDepfile, Command, mainVars, IInv, TypeOK
<1>5. WriterInv'
  <2>1. \A w \in Workers : job[w] # 0 => job[w] \in JobIds
    BY DEF IInv, TypeOK, JobIds
  <2> QED BY <1>1, <1>3, <2>1 DEF IInv, WriterInv, Command, EndOf
<1> QED BY <1>1, <1>3, <1>4, <1>5, CommandStep DEF Over, Alive

LEMMA BeginWriteStep == ASSUME IInv, NEW w \in Workers, NEW kind \in Kinds, BeginWrite(w, kind) PROVE IInv'
<1>1. /\ job[w] \in JobIds /\ Command(job[w]) /\ proc[job[w]] = "running" /\ budget[job[w]] > 0
      /\ EndOf(kind, w) \in procHeld[job[w]] /\ UNCHANGED <<procHeld, budget, unread>>
  BY DEF BeginWrite, IInv, TypeOK, JobIds
<1>2. \A k \in JobIds : proc'[k] = IF k = job[w] THEN kind ELSE proc[k]
  BY DEF BeginWrite, IInv, TypeOK
<1>3. TypeOK'
  BY <1>1 DEF BeginWrite, Command, mainVars, IInv, TypeOK, Procs
<1>4. WriterInv'
  <2>1. \A v \in Workers : job[v] # 0 => job[v] \in JobIds
    BY DEF IInv, TypeOK, JobIds
  <2> QED BY <1>1, <1>2, <2>1 DEF IInv, WriterInv, Command, EndOf, JobsInv
<1> QED BY <1>1, <1>2, <1>3, <1>4, CommandStep DEF Over, Alive, Kinds

(* The end written to is open, so its reader has not ended: the terminal   *)
(* that has a reader left from the job before has no process to write.     *)
LEMMA EndWriteStep == ASSUME IInv, NEW w \in Workers, EndWrite(w) PROVE IInv'
<1> DEFINE e == EndOf(proc[job[w]], w)
<1>1. /\ job[w] \in JobIds /\ Command(job[w]) /\ proc[job[w]] \in Kinds
      /\ budget[job[w]] > 0 /\ e \in procHeld[job[w]] /\ e \in Ends
      /\ UNCHANGED procHeld
  BY DEF EndWrite, IInv, TypeOK, WriterInv, JobIds
<1>2. \A k \in JobIds : proc'[k] = IF k = job[w] THEN "running" ELSE proc[k]
  BY DEF EndWrite, IInv, TypeOK
<1>3. \A d \in Ends : d # e => unread'[d] = unread[d]
  BY DEF EndWrite, IInv, TypeOK
<1>4. TypeOK'
  <2>1. proc' \in [JobIds -> Procs]
    BY DEF EndWrite, IInv, TypeOK, Procs
  <2>2. unread' \in [Ends -> 0..Capacity]
    <3>1. unread[e] \in 0..Capacity /\ unread[e] < Capacity
      BY <1>1 DEF EndWrite, IInv, TypeOK
    <3>2. unread[e] + 1 \in 0..Capacity
      BY <3>1, BoundsAssumption
    <3>3. unread' = [unread EXCEPT ![e] = unread[e] + 1]
      BY DEF EndWrite
    <3> QED BY <3>2, <3>3 DEF IInv, TypeOK
  <2>3. budget' \in [JobIds -> Nat] /\ \A j \in JobIds : budget'[j] <= Chunks[j]
    BY <1>1, BoundsAssumption DEF EndWrite, IInv, TypeOK, JobIds
  <2> QED BY <1>1, <2>1, <2>2, <2>3 DEF Command, mainVars, IInv, TypeOK
<1>5. WriterInv'
  <2>1. \A v \in Workers : job[v] # 0 => job[v] \in JobIds
    BY DEF IInv, TypeOK, JobIds
  <2>2. \A k \in JobIds : k # job[w] => budget'[k] = budget[k]
    BY DEF EndWrite, IInv, TypeOK
  <2> QED BY <1>1, <1>2, <2>1, <2>2 DEF IInv, WriterInv, Command, EndOf, JobsInv, Kinds
<1>6. reader[e] # "ended"
  <2>1. Open(e)
    BY <1>1 DEF Open, Alive, Kinds
  <2>2. CASE proc[job[w]] = "stdout"
    BY <1>1, <2>1, <2>2 DEF IInv, EndInv, PipeEnd, EndOf
  <2>3. CASE proc[job[w]] = "stderr"
    BY <1>1, <2>1, <2>3 DEF IInv, EndInv, TerminalEnd, EndOf, ProcInv, Before
  <2>4. CASE proc[job[w]] = "depfile"
    BY <1>1, <2>1, <2>4 DEF IInv, EndInv, DepfileEnd, EndOf
  <2> QED BY <1>1, <2>2, <2>3, <2>4 DEF Kinds
<1> QED BY <1>1, <1>2, <1>3, <1>4, <1>5, <1>6, CommandStep DEF Over, Alive, Kinds

LEMMA ExitStep == ASSUME IInv, NEW j \in JobIds, Exit(j) PROVE IInv'
<1>1. Command(j) /\ proc[j] = "running" /\ UNCHANGED <<procHeld, unread>>
  BY DEF Exit
<1>2. \A k \in JobIds : proc'[k] = (IF k = j THEN "exited" ELSE proc[k]) /\ (k # j => budget'[k] = budget[k])
  BY DEF Exit, IInv, TypeOK
<1>3. TypeOK'
  BY <1>1, BoundsAssumption DEF Exit, Command, mainVars, IInv, TypeOK, Procs, JobIds
<1>4. WriterInv'
  <2>1. \A v \in Workers : job[v] # 0 => job[v] \in JobIds
    BY DEF IInv, TypeOK, JobIds
  <2> QED BY <1>1, <1>2, <2>1 DEF IInv, WriterInv, Command, EndOf, Kinds
<1> QED BY <1>1, <1>2, <1>3, <1>4, CommandStep DEF Over, Alive

LEMMA VanishStep == ASSUME IInv, NEW j \in JobIds, Vanish(j) PROVE IInv'
<1>1. Command(j) /\ proc[j] = "exited" /\ UNCHANGED <<budget, unread>>
  BY DEF Vanish
<1>2. \A k \in JobIds : /\ proc'[k] = IF k = j THEN "gone" ELSE proc[k]
                       /\ procHeld'[k] = IF k = j THEN {} ELSE procHeld[k]
  BY DEF Vanish, IInv, TypeOK
<1>3. TypeOK'
  BY <1>1 DEF Vanish, Command, mainVars, IInv, TypeOK, Procs
<1>4. WriterInv'
  <2>1. \A v \in Workers : job[v] # 0 => job[v] \in JobIds
    BY DEF IInv, TypeOK, JobIds
  <2> QED BY <1>1, <1>2, <2>1 DEF IInv, WriterInv, Command, EndOf, Kinds
<1> QED BY <1>1, <1>2, <1>3, <1>4, CommandStep DEF Over, Alive

(* A reader that goes on reading, or that throws.                          *)
LEMMA ReadOnStep ==
  ASSUME IInv, NEW e \in Ends, Reads(e),
         unread[e] > 0, unread' = [unread EXCEPT ![e] = @ - 1],
         \/ reader' = reader
         \/ e \in Depfiles /\ reader' = [reader EXCEPT ![e] = "threw"]
  PROVE  IInv'
<1>1. /\ reader[e] = "reading"
      /\ UNCHANGED <<main, scheduled, failing, job, loc, held, proc, procHeld, budget>>
  BY DEF Reads, mainVars, procVars
<1>2. \A d \in Ends : d # e => unread'[d] = unread[d] /\ reader'[d] = reader[d]
  BY DEF IInv, TypeOK
<1>3. reader'[e] = "reading" \/ (e \in Depfiles /\ reader'[e] = "threw")
  BY <1>1 DEF IInv, TypeOK
<1>e. /\ \A k \in JobIds : <<"stdout", k>> \in Ends \ Depfiles /\ <<"depfile", k>> \in Ends
      /\ \A w \in Workers : <<"stderr", w>> \in Ends \ Depfiles
  BY DEF Ends, Depfiles
<1>4. TypeOK'
  <2>1. unread' \in [Ends -> 0..Capacity]
    BY BoundsAssumption DEF IInv, TypeOK
  <2>2. reader' \in [Ends -> {"none", "reading", "ended", "threw"}]
    BY DEF IInv, TypeOK
  <2> QED BY <1>1, <2>1, <2>2 DEF IInv, TypeOK
<1>5. JobsInv' /\ ProcInv' /\ WriterInv' /\ HeldInv' /\ MainInv'
  BY <1>1 DEF IInv, JobsInv, ProcInv, Over, WriterInv, EndOf, HeldInv, PipeHeld, TerminalHeld, DepfileHeld, MainInv
<1>j. \A w \in Workers : loc[w] # "idle" => job[w] \in JobIds
  BY DEF IInv, JobsInv, TypeOK, JobIds
<1>6. ReaderInv'
  <2>1. PipeReader'
    <3>1. \A k \in JobIds : reader'[<<"stdout", k>>] = reader[<<"stdout", k>>]
      BY <1>1, <1>2, <1>3, <1>e
    <3> QED BY <1>1, <1>j, <3>1 DEF IInv, ReaderInv, PipeReader, Collected
  <2>2. TerminalReader'
    BY <1>1, <1>2, <1>3, <1>e DEF IInv, ReaderInv, TerminalReader
  <2>3. DepfileReader'
    BY <1>1, <1>2, <1>3, <1>e DEF IInv, ReaderInv, DepfileReader
  <2> QED BY <2>1, <2>2, <2>3 DEF ReaderInv
<1>7. EndInv'
  BY <1>1, <1>2, <1>3, <1>e DEF IInv, EndInv, PipeEnd, TerminalEnd, DepfileEnd, Open, Alive, Over
<1> QED BY <1>4, <1>5, <1>6, <1>7 DEF IInv

(* A depfile that is read to its end was let go of, and upd only does that *)
(* when the command is over.                                               *)
LEMMA EndOfFileStep == ASSUME IInv, NEW e \in Ends, EndOfFile(e) PROVE IInv'
<1>1. /\ reader[e] = "reading" /\ unread[e] = 0 /\ ~Open(e)
      /\ UNCHANGED <<main, scheduled, failing, job, loc, held, proc, procHeld, budget, unread>>
  BY DEF EndOfFile, Reads, mainVars, procVars
<1>2. \A d \in Ends : reader'[d] = IF d = e THEN "ended" ELSE reader[d]
  BY DEF EndOfFile, IInv, TypeOK
<1>e. /\ \A k \in JobIds : <<"stdout", k>> \in Ends /\ <<"depfile", k>> \in Ends
      /\ \A w \in Workers : <<"stderr", w>> \in Ends
  BY DEF Ends, Depfiles
<1>j. \A w \in Workers : loc[w] # "idle" => job[w] \in JobIds
  BY DEF IInv, JobsInv, TypeOK, JobIds
<1>4. TypeOK'
  BY <1>1 DEF EndOfFile, IInv, TypeOK
<1>5. JobsInv' /\ ProcInv' /\ WriterInv' /\ HeldInv' /\ MainInv'
  BY <1>1 DEF IInv, JobsInv, ProcInv, Over, WriterInv, EndOf, HeldInv, PipeHeld, TerminalHeld, DepfileHeld, MainInv
<1>6. ReaderInv'
  <2>1. PipeReader'
    <3>1. \A k \in JobIds : reader'[<<"stdout", k>>] = reader[<<"stdout", k>>]
                             \/ (reader[<<"stdout", k>>] = "reading" /\ reader'[<<"stdout", k>>] = "ended")
      <4>1. \A d \in Ends : reader'[d] = reader[d] \/ (reader[d] = "reading" /\ reader'[d] = "ended")
        BY <1>1, <1>2
      <4> QED BY <4>1, <1>e
    <3>2. \A j \in JobIds : j > scheduled' => reader'[<<"stdout", j>>] = "none"
      BY <1>1, <3>1 DEF IInv, ReaderInv, PipeReader
    <3>3. \A w \in Workers : /\ loc'[w] \in {"assigned", "piped", "opened"} => reader'[<<"stdout", job'[w]>>] = "none"
                             /\ loc'[w] \in Collected => reader'[<<"stdout", job'[w]>>] = "ended"
      BY <1>1, <1>j, <3>1 DEF IInv, ReaderInv, PipeReader, Collected
    <3>4. \A j \in JobIds : reader'[<<"stdout", j>>] = "reading" =>
            \E w \in Workers : job'[w] = j /\ loc'[w] \in Listening
      BY <1>1, <3>1 DEF IInv, ReaderInv, PipeReader
    <3> QED BY <3>2, <3>3, <3>4 DEF PipeReader
  <2>2. TerminalReader'
    BY <1>1, <1>2, <1>e DEF IInv, ReaderInv, TerminalReader
  <2>3. DepfileReader'
    BY <1>1, <1>2, <1>e DEF IInv, ReaderInv, DepfileReader
  <2> QED BY <2>1, <2>2, <2>3 DEF ReaderInv
<1>7. EndInv'
  <2>1. \A d \in Ends : Open(d)' <=> Open(d)
    BY <1>1 DEF Open, Alive
  <2>2. ASSUME NEW j \in JobIds, e = <<"depfile", j>> PROVE Over(j)
    <3>1. PICK w \in Workers : job[w] = j /\ loc[w] # "idle"
      BY <1>1, <2>2 DEF IInv, ReaderInv, DepfileReader
    <3>2. loc[w] \in Closed
      BY <1>1, <2>2, <3>1 DEF IInv, HeldInv, DepfileHeld, Open
    <3> QED BY <3>1, <3>2 DEF Closed, IInv, ProcInv, After, Collected
  <2>3. PipeEnd'
    BY <1>1, <1>2, <1>e, <2>1 DEF IInv, EndInv, PipeEnd
  <2>4. TerminalEnd'
    BY <1>1, <1>2, <1>e, <2>1 DEF IInv, EndInv, TerminalEnd
  <2>5. DepfileEnd'
    BY <1>1, <1>2, <1>e, <2>1, <2>2 DEF IInv, EndInv, DepfileEnd, Over
  <2> QED BY <2>3, <2>4, <2>5 DEF EndInv
<1> QED BY <1>4, <1>5, <1>6, <1>7 DEF IInv

LEMMA Start == Init => IInv
<1> SUFFICES ASSUME Init PROVE IInv
  OBVIOUS
<1>1. TypeOK
  <2>1. main \in Mains /\ failing \in BOOLEAN
    BY DEF Init, Mains
  <2>6. scheduled \in 0..Jobs
    BY BoundsAssumption DEF Init
  <2>2. job \in [Workers -> 0..Jobs] /\ loc \in [Workers -> Locs] /\ held \subseteq Ends
    BY BoundsAssumption DEF Init, Locs
  <2>3. proc \in [JobIds -> Procs] /\ procHeld \in [JobIds -> SUBSET Ends]
    BY DEF Init, Procs
  <2>4. budget \in [JobIds -> Nat] /\ \A j \in JobIds : budget[j] <= Chunks[j]
    BY BoundsAssumption DEF Init, JobIds
  <2>5. reader \in [Ends -> {"none", "reading", "ended", "threw"}] /\ unread \in [Ends -> 0..Capacity]
    BY BoundsAssumption DEF Init
  <2> QED BY <2>1, <2>2, <2>3, <2>4, <2>5, <2>6 DEF TypeOK
<1>e. /\ \A k \in JobIds : <<"stdout", k>> \in Ends /\ <<"depfile", k>> \in Ends
      /\ \A w \in Workers : <<"stderr", w>> \in Ends
  BY DEF Ends, Depfiles
<1>2. JobsInv /\ WriterInv /\ MainInv
  BY DEF Init, JobsInv, WriterInv, MainInv
<1>3. ProcInv
  BY DEF Init, ProcInv, JobIds, Before, During, After, Collected
<1>4. HeldInv
  BY DEF Init, HeldInv, PipeHeld, TerminalHeld, DepfileHeld, Closed
<1>5. ReaderInv
  BY <1>e DEF Init, ReaderInv, PipeReader, TerminalReader, DepfileReader, Collected
<1>6. EndInv
  BY <1>e DEF Init, EndInv, PipeEnd, TerminalEnd, DepfileEnd
<1> QED BY <1>1, <1>2, <1>3, <1>4, <1>5, <1>6 DEF IInv

LEMMA Step == IInv /\ [Next]_vars => IInv'
<1> SUFFICES ASSUME IInv, [Next]_vars PROVE IInv'
  OBVIOUS
<1>1. CASE Leave \/ Return \/ \E w \in Workers : FinalizeThrows(w) \/ RunThrows(w)
  BY <1>1, HaltStep DEF Leave, Return, FinalizeThrows, RunThrows, Mains
<1>2. ASSUME NEW w \in Workers, MainStep(w) PROVE IInv'
  <2>1. CASE FinalizeThrows(w)
    BY <2>1, HaltStep DEF FinalizeThrows, Mains
  <2> QED BY <1>2, <2>1, ScheduleStep, CollectFailedStep, FinalizeStep, FinalizedStep, ReleaseStep, ReleasedStep
          DEF MainStep
<1>3. ASSUME NEW w \in Workers, WorkerStep(w) PROVE IInv'
  BY <1>3, MakePipeStep, OpenTerminalStep, StartReadersStep, SpawnStep, ClosePipeStep, CloseTerminalStep,
     ReapStep, GatherStep, PublishStep DEF WorkerStep
<1>4. ASSUME NEW w \in Workers, EndWrite(w) \/ CloseInherited(w) \/ \E kind \in Kinds : BeginWrite(w, kind)
      PROVE IInv'
  BY <1>4, EndWriteStep, CloseInheritedStep, BeginWriteStep
<1>5. ASSUME NEW j \in JobIds, Exit(j) \/ Vanish(j) \/ OpenDepfile(j) PROVE IInv'
  BY <1>5, ExitStep, VanishStep, OpenDepfileStep
<1>6. ASSUME NEW e \in Ends, Read(e) \/ EndOfFile(e) PROVE IInv'
  <2>1. CASE Read(e)
    BY <2>1, ReadOnStep DEF Read
  <2> QED BY <1>6, <2>1, EndOfFileStep
<1>7. ASSUME NEW e \in Depfiles, ParseError(e) PROVE IInv'
  BY <1>7, ReadOnStep DEF ParseError, Ends
<1>8. CASE UNCHANGED vars
  <2>1. UNCHANGED <<main, scheduled, failing, job, loc, held, proc, procHeld, budget, reader, unread>>
    BY <1>8 DEF vars, mainVars, procVars, readerVars
  <2> QED BY <2>1 DEF IInv, TypeOK, JobsInv, ProcInv, Over, WriterInv, EndOf, HeldInv, PipeHeld, TerminalHeld,
             DepfileHeld, ReaderInv, PipeReader, TerminalReader, DepfileReader, EndInv, PipeEnd, TerminalEnd,
             DepfileEnd, Open, Alive, MainInv
<1> QED BY <1>1, <1>2, <1>3, <1>4, <1>5, <1>6, <1>7, <1>8 DEF Next, Progress, Choice, Done

LEMMA Inductive == Spec => []IInv
BY Start, Step, PTL DEF Spec

(* Every variable keeps its type: no more is unread of an end than it      *)
(* holds, and no command writes more than it may.                          *)
THEOREM TypeCorrect == Spec => []TypeOK
<1>1. IInv => TypeOK
  BY DEF IInv
<1> QED BY <1>1, Inductive, PTL

(* What the pool publishes for a job is all that its command printed,      *)
(* whatever the commands of the other jobs inherited.                      *)
THEOREM OutputComplete == Spec => []OutputIsComplete
<1>1. IInv => OutputIsComplete
  <2> SUFFICES ASSUME IInv, NEW w \in Workers, loc[w] \in Collected
               PROVE  \A kind \in {"stdout", "stderr"} : ~Open(EndOf(kind, w)) /\ unread[EndOf(kind, w)] = 0
    BY DEF OutputIsComplete, Collected
  <2>1. job[w] \in JobIds /\ loc[w] # "opened"
    BY DEF IInv, JobsInv, TypeOK, JobIds, Collected
  <2>2. reader[<<"stdout", job[w]>>] = "ended" /\ reader[<<"stderr", w>>] = "ended"
    BY DEF IInv, ReaderInv, PipeReader, TerminalReader
  <2> QED BY <2>1, <2>2 DEF IInv, EndInv, PipeEnd, TerminalEnd, EndOf
<1> QED BY <1>1, Inductive, PTL

(* The end of the depfile that upd keeps open is what makes its reader see *)
(* all of it.                                                              *)
THEOREM DepfileComplete == Spec => []DepfileOutlivesCommand
<1>1. IInv => DepfileOutlivesCommand
  BY DEF IInv, EndInv, DepfileEnd, DepfileOutlivesCommand, Over
<1> QED BY <1>1, Inductive, PTL

(* Nothing stays open in upd, and no thread goes on reading, once          *)
(* execute_update_plan has returned.                                       *)
THEOREM AllReleased == Spec => []NothingLeaks
<1>1. IInv => NothingLeaks
  <2> SUFFICES ASSUME IInv PROVE NothingLeaks
    OBVIOUS
  <2>1. ASSUME NEW e \in held PROVE \E w \in Workers, kind \in Kinds : loc[w] # "idle" /\ e = EndOf(kind, w)
    <3>1. e \in Ends
      BY DEF IInv, TypeOK
    <3>2. CASE \E j \in JobIds : e = <<"stdout", j>>
      BY <3>2 DEF IInv, HeldInv, PipeHeld, EndOf, Kinds
    <3>3. CASE \E w \in Workers : e = <<"stderr", w>>
      BY <3>3 DEF IInv, HeldInv, TerminalHeld, EndOf, Kinds
    <3>4. CASE \E j \in JobIds : e = <<"depfile", j>>
      BY <3>4 DEF IInv, HeldInv, DepfileHeld, Closed, EndOf, Kinds
    <3> QED BY <3>1, <3>2, <3>3, <3>4 DEF Ends, Depfiles
  <2>2. main = "returned" => held = {}
    BY <2>1 DEF IInv, MainInv
  <2>3. ASSUME main = "returned", NEW e \in Ends PROVE reader[e] # "reading"
    <3>1. \A w \in Workers : loc[w] = "idle"
      BY <2>3 DEF IInv, MainInv
    <3> QED BY <3>1 DEF IInv, ReaderInv, PipeReader, TerminalReader, DepfileReader, Listening, Ends, Depfiles
  <2> QED BY <2>1, <2>2, <2>3 DEF NothingLeaks
<1> QED BY <1>1, Inductive, PTL
============================================================================
