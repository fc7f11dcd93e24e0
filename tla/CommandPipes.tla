---------------------------- MODULE CommandPipes ----------------------------
(***************************************************************************)
(* What runs under a job of the worker pool: the command's process, the    *)
(* pipe it prints on, the pseudo-terminal of its errors, the FIFO of its   *)
(* depfile, and the threads that read the three (src/run_command_line.cpp, *)
(* src/system/spawn.cpp, schedule_file_update and                          *)
(* finalize_scheduled_update of src/update.cpp).                           *)
(*                                                                         *)
(* A reader ends once nobody holds the writing end any more, and nothing   *)
(* here is opened with O_CLOEXEC: a process that is spawned takes a copy   *)
(* of every end upd holds at that moment, those of other jobs included.    *)
(* So "who waits for whom" depends on the order of the steps of all the    *)
(* workers and of the main thread.                                         *)
(*                                                                         *)
(* ExecuteUpdatePlan has the plan, the statuses and the condition          *)
(* variables; here a job is any job, and the mutex shows only in that a    *)
(* worker cannot publish while the main thread schedules or finalizes.     *)
(***************************************************************************)
EXTENDS Naturals, FiniteSets

CONSTANTS Workers,   \* the worker threads
          Jobs,      \* how many jobs the plan has (bound)
          Capacity,  \* chunks a pipe, terminal or FIFO holds (bound)
          Chunks     \* chunks each job's command may write (bound)

ASSUME WorkersAssumption == IsFiniteSet(Workers) /\ Workers # {}
ASSUME BoundsAssumption  == Jobs \in Nat /\ Capacity \in Nat \ {0} /\ Chunks \in [1..Jobs -> Nat]

VARIABLES
  main,      \* what the main thread does
  scheduled, \* how many jobs have been scheduled
  failing,   \* has_errors
  job,       \* the job each worker was given last, 0 for none
  loc,       \* where that worker and its job are
  held,      \* the writing ends upd itself has open
  proc,      \* the process of each job's command, or what it writes to
  procHeld,  \* the writing ends it has open, its descendants' included
  budget,    \* chunks it may still write
  reader,    \* the thread that reads from each end
  unread     \* chunks written to each end and not read yet

mainVars   == <<main, scheduled, failing>>
procVars   == <<proc, procHeld, budget>>
readerVars == <<reader, unread>>
vars       == <<mainVars, job, loc, held, procVars, readerVars>>

(* Each job has its pipe and its FIFO; the terminal belongs to the worker, *)
(* which opens it anew for every job.                                      *)
JobIds  == 1..Jobs
Kinds   == {"stdout", "stderr", "depfile"}
Depfiles == {"depfile"} \X JobIds
Ends    == Depfiles \cup ({"stdout"} \X JobIds) \cup ({"stderr"} \X Workers)
EndOf(kind, w) == IF kind = "stderr" THEN <<kind, w>> ELSE <<kind, job[w]>>

Locs  == {"idle", "assigned", "piped", "opened", "listening", "spawned", "halfclosed", "closed",
          "reaped", "gathered", "succeeded", "failed", "finalizing", "kept", "releasing"}
Procs == {"none", "running", "exited", "gone"} \cup Kinds
Mains == {"looping", "left", "returned", "threw", "aborted"}

Stopped == main \in {"returned", "threw", "aborted"}
Waiting == \E w \in Workers : loc[w] \in {"finalizing", "releasing"}
Alive(j) == proc[j] \notin {"none", "gone"}
Open(e)  == e \in held \/ \E j \in JobIds : Alive(j) /\ e \in procHeld[j]

Init ==
  /\ main = "looping" /\ scheduled = 0 /\ failing = FALSE
  /\ job = [w \in Workers |-> 0]
  /\ loc = [w \in Workers |-> "idle"]
  /\ held = {}
  /\ proc = [j \in JobIds |-> "none"]
  /\ procHeld = [j \in JobIds |-> {}]
  /\ budget = [j \in JobIds |-> 0]
  /\ reader = [e \in Ends |-> "none"]
  /\ unread = [e \in Ends |-> 0]

-----------------------------------------------------------------------------
(* The main thread, which holds the mutex in all of these, and goes on     *)
(* holding it while it waits for a depfile.                                *)

Main(w, from, to) ==
  /\ ~Stopped /\ loc[w] = from
  /\ loc' = [loc EXCEPT ![w] = to]

(* schedule_file_update: make the FIFO, start the thread that reads it,    *)
(* and open it for writing. Either open waits for the other, so the two    *)
(* are one step. The mutant does not keep it open.                         *)
Assign(w, kept) ==
  /\ main = "looping" /\ ~Waiting /\ ~failing /\ scheduled < Jobs
  /\ Main(w, "idle", "assigned")
  /\ scheduled' = scheduled + 1
  /\ job' = [job EXCEPT ![w] = scheduled + 1]
  /\ held' = held \cup kept
  /\ reader' = [reader EXCEPT ![<<"depfile", scheduled + 1>>] = "reading"]
  /\ UNCHANGED <<main, failing, procVars, unread>>

ScheduleLetsGo(w) == Assign(w, {})

Schedule(w) == Assign(w, {<<"depfile", scheduled + 1>>})

(* A job that failed is not finalized: its FIFO stays, and st.sfu holds on *)
(* to its end and its reader. In the mutant the loop goes on.              *)
CollectFailedGoesOn(w) ==
  /\ main = "looping" /\ ~Waiting
  /\ Main(w, "failed", "idle")
  /\ UNCHANGED <<mainVars, job, held, procVars, readerVars>>

CollectFailed(w) ==
  /\ main = "looping" /\ ~Waiting
  /\ Main(w, "failed", "kept")
  /\ failing' = TRUE
  /\ UNCHANGED <<main, scheduled, job, held, procVars, readerVars>>

(* finalize_scheduled_update closes the end that was kept, then waits for  *)
(* what the depfile holds, and removes the FIFO. A depfile that cannot be  *)
(* parsed makes get() throw.                                               *)
Finalize(w) ==
  /\ main = "looping" /\ ~Waiting
  /\ Main(w, "succeeded", "finalizing")
  /\ held' = held \ {EndOf("depfile", w)}
  /\ UNCHANGED <<mainVars, job, procVars, readerVars>>

Finalized(w) ==
  /\ Main(w, "finalizing", "idle")
  /\ reader[EndOf("depfile", w)] = "ended"
  /\ UNCHANGED <<mainVars, job, held, procVars, readerVars>>

FinalizeThrows(w) ==
  /\ ~Stopped /\ loc[w] = "finalizing"
  /\ reader[EndOf("depfile", w)] = "threw"
  /\ main' = "threw"
  /\ UNCHANGED <<scheduled, failing, job, loc, held, procVars, readerVars>>

(* Leave the loop: no job is in progress, and either one failed or nothing *)
(* is left to do. The pool then destroys its workers, and with a schedule  *)
(* that was kept first the end, then the reader.                           *)
Leave ==
  /\ main = "looping" /\ (failing \/ scheduled = Jobs)
  /\ \A w \in Workers : loc[w] \in {"idle", "kept"}
  /\ main' = "left"
  /\ UNCHANGED <<scheduled, failing, job, loc, held, procVars, readerVars>>

Release(w) ==
  /\ main = "left" /\ ~Waiting
  /\ Main(w, "kept", "releasing")
  /\ held' = held \ {EndOf("depfile", w)}
  /\ UNCHANGED <<mainVars, job, procVars, readerVars>>

Released(w) ==
  /\ Main(w, "releasing", "idle")
  /\ reader[EndOf("depfile", w)] \in {"ended", "threw"}
  /\ UNCHANGED <<mainVars, job, held, procVars, readerVars>>

Return ==
  /\ main = "left" /\ \A w \in Workers : loc[w] = "idle"
  /\ main' = "returned"
  /\ UNCHANGED <<scheduled, failing, job, loc, held, procVars, readerVars>>

-----------------------------------------------------------------------------
(* run_command_line, in the thread of worker w.                            *)

Thread(w, from, to) ==
  /\ ~Stopped /\ loc[w] = from
  /\ loc' = [loc EXCEPT ![w] = to]
  /\ UNCHANGED <<mainVars, job>>

MakePipe(w) ==
  /\ Thread(w, "assigned", "piped")
  /\ held' = held \cup {EndOf("stdout", w)}
  /\ UNCHANGED <<procVars, readerVars>>

OpenTerminal(w) ==
  /\ Thread(w, "piped", "opened")
  /\ held' = held \cup {EndOf("stderr", w)}
  /\ UNCHANGED <<procVars, readerVars>>

(* The two std::async.                                                     *)
StartReaders(w) ==
  /\ Thread(w, "opened", "listening")
  /\ reader' = [reader EXCEPT ![EndOf("stdout", w)] = "reading", ![EndOf("stderr", w)] = "reading"]
  /\ UNCHANGED <<held, procVars, unread>>

(* The process has its own ends for stdout and stderr, and by inheritance  *)
(* whatever else upd has open now.                                         *)
Spawn(w) ==
  /\ Thread(w, "listening", "spawned")
  /\ proc' = [proc EXCEPT ![job[w]] = "running"]
  /\ procHeld' = [procHeld EXCEPT ![job[w]] = held]
  /\ budget' = [budget EXCEPT ![job[w]] = Chunks[job[w]]]
  /\ UNCHANGED <<held, readerVars>>

(* Without descriptors to spare or without the binary, pipe, open or       *)
(* posix_spawn throws out of the thread, which ends the program.           *)
RunThrows(w) ==
  /\ ~Stopped /\ loc[w] \in {"assigned", "piped", "listening"}
  /\ main' = "aborted"
  /\ UNCHANGED <<scheduled, failing, job, loc, held, procVars, readerVars>>

(* Mutant: the pipe stays open.                                            *)
ClosePipeNever(w) ==
  /\ Thread(w, "spawned", "halfclosed")
  /\ UNCHANGED <<held, procVars, readerVars>>

ClosePipe(w) ==
  /\ Thread(w, "spawned", "halfclosed")
  /\ held' = held \ {EndOf("stdout", w)}
  /\ UNCHANGED <<procVars, readerVars>>

CloseTerminal(w) ==
  /\ Thread(w, "halfclosed", "closed")
  /\ held' = held \ {EndOf("stderr", w)}
  /\ UNCHANGED <<procVars, readerVars>>

(* waitpid: the process itself has ended, its descendants may go on.       *)
Reap(w) ==
  /\ Thread(w, "closed", "reaped")
  /\ proc[job[w]] \in {"exited", "gone"}
  /\ UNCHANGED <<held, procVars, readerVars>>

(* read_stdout.get() and read_stderr.get(). Mutant: what was read by then. *)
GatherAtOnce(w) ==
  /\ Thread(w, "reaped", "gathered")
  /\ UNCHANGED <<held, procVars, readerVars>>

Gather(w) ==
  /\ Thread(w, "reaped", "gathered")
  /\ reader[EndOf("stdout", w)] = "ended" /\ reader[EndOf("stderr", w)] = "ended"
  /\ UNCHANGED <<held, procVars, readerVars>>

(* run_ publishes the result, for which it needs the mutex.                *)
Publish(w) ==
  /\ ~Waiting
  /\ \E result \in {"succeeded", "failed"} : Thread(w, "gathered", result)
  /\ UNCHANGED <<held, procVars, readerVars>>

-----------------------------------------------------------------------------
(* A command and its descendants. It may close what it did not ask for, as *)
(* long as it is not at its end.                                           *)

Command(j) ==
  /\ ~Stopped /\ Alive(j)
  /\ UNCHANGED <<mainVars, job, loc, held, reader>>

CloseInherited(w) ==
  /\ job[w] # 0 /\ Command(job[w])
  /\ proc[job[w]] = "running" /\ budget[job[w]] > 0
  /\ procHeld' = [procHeld EXCEPT ![job[w]] = @ \cap {EndOf("stdout", w), EndOf("stderr", w)}]
  /\ UNCHANGED <<proc, budget, unread>>

(* It opens its depfile by name, which waits for a reader.                 *)
OpenDepfile(j) ==
  /\ Command(j)
  /\ proc[j] = "running" /\ reader[<<"depfile", j>>] # "ended"
  /\ procHeld' = [procHeld EXCEPT ![j] = @ \cup {<<"depfile", j>>}]
  /\ UNCHANGED <<proc, budget, unread>>

(* It starts to write, and goes on once the chunk is in. Having a copy of  *)
(* the reading end of its own FIFO, it also waits where nobody reads.      *)
BeginWrite(w, kind) ==
  /\ job[w] # 0 /\ Command(job[w])
  /\ proc[job[w]] = "running" /\ budget[job[w]] > 0
  /\ EndOf(kind, w) \in procHeld[job[w]]
  /\ proc' = [proc EXCEPT ![job[w]] = kind]
  /\ UNCHANGED <<procHeld, budget, unread>>

EndWrite(w) ==
  /\ job[w] # 0 /\ Command(job[w])
  /\ proc[job[w]] \in Kinds
  /\ LET e == EndOf(proc[job[w]], w) IN
       /\ unread[e] < Capacity
       /\ unread' = [unread EXCEPT ![e] = @ + 1]
  /\ proc' = [proc EXCEPT ![job[w]] = "running"]
  /\ budget' = [budget EXCEPT ![job[w]] = @ - 1]
  /\ UNCHANGED procHeld

(* Its main process exits; its descendants, if any, hold its ends until    *)
(* they are gone, too.                                                     *)
Exit(j) ==
  /\ Command(j)
  /\ proc[j] = "running"
  /\ proc' = [proc EXCEPT ![j] = "exited"]
  /\ budget' = [budget EXCEPT ![j] = 0]
  /\ UNCHANGED <<procHeld, unread>>

Vanish(j) ==
  /\ Command(j)
  /\ proc[j] = "exited"
  /\ proc' = [proc EXCEPT ![j] = "gone"]
  /\ procHeld' = [procHeld EXCEPT ![j] = {}]
  /\ UNCHANGED <<budget, unread>>

-----------------------------------------------------------------------------
(* The threads that read: read_fd_to_string and depfile::read.             *)

Reads(e) ==
  /\ ~Stopped /\ reader[e] = "reading"
  /\ UNCHANGED <<mainVars, job, loc, held, procVars>>

Read(e) ==
  /\ Reads(e)
  /\ unread[e] > 0
  /\ unread' = [unread EXCEPT ![e] = @ - 1]
  /\ UNCHANGED reader

(* Nothing is left and no writing end is open: read() returns 0, or throws *)
(* EIO for the terminal.                                                   *)
EndOfFile(e) ==
  /\ Reads(e)
  /\ unread[e] = 0 /\ ~Open(e)
  /\ reader' = [reader EXCEPT ![e] = "ended"]
  /\ UNCHANGED unread

(* A depfile that does not parse makes its reader throw in the middle.     *)
ParseError(e) ==
  /\ Reads(e)
  /\ unread[e] > 0
  /\ reader' = [reader EXCEPT ![e] = "threw"]
  /\ unread' = [unread EXCEPT ![e] = @ - 1]

-----------------------------------------------------------------------------
Done == Stopped /\ UNCHANGED vars

MainStep(w) == Schedule(w) \/ CollectFailed(w) \/ Finalize(w) \/ Finalized(w) \/ FinalizeThrows(w)
               \/ Release(w) \/ Released(w)
WorkerStep(w) == MakePipe(w) \/ OpenTerminal(w) \/ StartReaders(w) \/ Spawn(w)
                 \/ ClosePipe(w) \/ CloseTerminal(w) \/ Reap(w) \/ Gather(w) \/ Publish(w)

(* What must go on: threads run, and a command that can end does end, as   *)
(* do the descendants it leaves behind.                                    *)
Progress ==
  \/ Leave \/ Return
  \/ \E w \in Workers : MainStep(w) \/ WorkerStep(w) \/ EndWrite(w)
  \/ \E j \in JobIds : Exit(j) \/ Vanish(j)
  \/ \E e \in Ends : Read(e) \/ EndOfFile(e)

(* What commands may do, and what may go wrong.                            *)
Choice ==
  \/ \E w \in Workers : RunThrows(w) \/ CloseInherited(w) \/ \E kind \in Kinds : BeginWrite(w, kind)
  \/ \E j \in JobIds : OpenDepfile(j)
  \/ \E e \in Depfiles : ParseError(e)

Next == Progress \/ Choice \/ Done

(* Every step uses something up, so it is enough that some step is taken   *)
(* as long as one can be.                                                  *)
Spec == Init /\ [][Next]_vars /\ WF_vars(Progress)

-----------------------------------------------------------------------------
TypeOK ==
  /\ main \in Mains /\ scheduled \in 0..Jobs /\ failing \in BOOLEAN
  /\ job \in [Workers -> 0..Jobs]
  /\ loc \in [Workers -> Locs]
  /\ held \subseteq Ends
  /\ proc \in [JobIds -> Procs]
  /\ procHeld \in [JobIds -> SUBSET Ends]
  /\ budget \in [JobIds -> Nat] /\ \A j \in JobIds : budget[j] <= Chunks[j]
  /\ reader \in [Ends -> {"none", "reading", "ended", "threw"}]
  /\ unread \in [Ends -> 0..Capacity]

(* When a job's result is published, all that its command printed, or a    *)
(* descendant may still print, has been read: the ends are closed          *)
(* everywhere, in the processes of other jobs, too (run_command_line.cpp   *)
(* 91-95).                                                                 *)
OutputIsComplete ==
  \A w \in Workers : loc[w] \in {"gathered", "succeeded", "failed", "finalizing", "kept", "releasing"} =>
    \A kind \in {"stdout", "stderr"} : ~Open(EndOf(kind, w)) /\ unread[EndOf(kind, w)] = 0

(* The purpose of depfile_dummy_fd: the depfile's reader does not see the  *)
(* end of the file before the command has ended, whether the command opens *)
(* it early, late, twice or never (update.cpp 161-162), and what is used   *)
(* of the depfile is all that was written.                                 *)
DepfileOutlivesCommand ==
  \A j \in JobIds : LET e == <<"depfile", j>> IN
    reader[e] = "ended" => proc[j] \in {"exited", "gone"} /\ unread[e] = 0 /\ ~Open(e)

(* A schedule is only replaced when its FIFO is closed: the assignment of  *)
(* file_descriptor does not close, so an end kept for a failed job would   *)
(* stay open for ever, and the assignment of its future would wait for a   *)
(* reader that never ends. When execute_update_plan has returned nothing   *)
(* is open in upd and no thread reads.                                     *)
NothingLeaks ==
  /\ \A e \in held : \E w \in Workers, kind \in Kinds : loc[w] # "idle" /\ e = EndOf(kind, w)
  /\ main = "returned" => held = {} /\ \A e \in Ends : reader[e] # "reading"

(* Whatever the commands inherit from each other, no wait is for ever:     *)
(* execute_update_plan comes to an end. The one exception is a command     *)
(* that writes more than its FIFO holds into a depfile whose reader has    *)
(* thrown: having a copy of the reading end it blocks where SIGPIPE would  *)
(* end it, and upd waits for it (src/depfile/read.h 25-28 says the error   *)
(* is thrown).                                                             *)
Stuck(j) == /\ proc[j] = "depfile"
            /\ reader[<<"depfile", j>>] = "threw" /\ unread[<<"depfile", j>>] = Capacity
Terminates == <>(Stopped \/ \E j \in JobIds : Stuck(j))
=============================================================================
