-------------------------- MODULE IncrementalUpdate --------------------------
(***************************************************************************)
(* Run after run of `upd update` over the files of one project: what       *)
(* src/update.cpp decides from the update log and the hashes of the files, *)
(* what the commands and the user do to the files meanwhile, and what is   *)
(* left when a run fails, is refused, or is killed.                        *)
(*                                                                         *)
(* The thread pool is seen through OrderedUpdate, which ExecuteUpdatePlan  *)
(* implements, and the update log through DurableRecords, which UpdateLog  *)
(* implements. A hash is the content it was computed from. The imprint     *)
(* hashes the paths along with the contents (update.cpp 35-42), so here it *)
(* is the content of each file, and their order does not matter. Files     *)
(* that rules read keep their names: a new source or another manifest is   *)
(* another instance.                                                       *)
(***************************************************************************)
EXTENDS Naturals, Sequences, FiniteSets, Functions

CONSTANTS
  Outputs,          \* the keys of update_map::output_files_by_path
  Sources,          \* every other file a command may read
  Inputs,           \* Inputs[t]: local_input_file_paths
  Groups,           \* Groups[t]: dependency_groups, flattened
  OrderOnly,        \* OrderOnly[t]: order_only_dependency_file_paths
  Reported(_, _),   \* the paths in the depfile of t's command when it finds
                    \* the given contents
  Versions,         \* the contents the user gives a source, in turn
  EditsDuringRun    \* whether the user edits sources while a run goes on

Files == Outputs \cup Sources
Rules == [Outputs -> Seq(Files)]

ASSUME RulesAssumption ==
  /\ IsFiniteSet(Outputs) /\ Outputs \cap Sources = {} /\ EditsDuringRun \in BOOLEAN
  /\ Inputs \in Rules /\ Groups \in Rules /\ OrderOnly \in Rules
ASSUME VersionsAssumption == Versions # {}

Plan == INSTANCE UpdatePlan WITH
          Deps <- [t \in Outputs |-> Inputs[t] \o Groups[t] \o OrderOnly[t]]

VARIABLES
  disk,      \* the content of each file
  log,       \* the update log, a function from some outputs to records
  cache,     \* file_hash_cache::cache_, of the run that goes on
  pc,        \* "idle" between runs, "running", or "throwing"
  thrown,    \* the exception that ends the run
  pending,   \* pending_output_file_paths
  job,       \* where the job of each output file is
  failed,    \* whether a failed job has been collected
  settled,   \* history: found or made up to date since the user's last change
  owned      \* history: recorded outputs the user has written over

run  == <<cache, pc, thrown, pending, job, failed>>
vars == <<disk, log, cache, pc, thrown, pending, job, failed, settled, owned>>

NoJob   == [state |-> "none", depfile |-> {}]
Nothing == [f \in {} |-> f]

(* Contents: a version of a source, what a command made from the files it  *)
(* read, what the user wrote over an output, and of a file that is not     *)
(* there.                                                                  *)
Written(f, v)    == <<f, v>>
Made(t, imprint) == <<t, imprint>>
Mine(t)          == <<t>>
Missing          == <<>>

-----------------------------------------------------------------------------
(* Hashes and imprints.                                                    *)

(* file_hash_cache::hash; a missing file throws and leaves no entry.       *)
Hash(f) == IF f \in DOMAIN cache THEN cache[f] ELSE disk[f]
Remembering(S) == [f \in DOMAIN cache \cup S |-> Hash(f)]

(* The files get_target_imprint goes through. It gives up at a missing     *)
(* one, with those before it hashed.                                       *)
Covered(t, dynDeps) == Range(Inputs[t] \o Groups[t]) \cup dynDeps
Imprint(S) == [f \in S |-> Hash(f)]
Hashed(S) ==
  LET there == {f \in S : Hash(f) # Missing} IN IF there = S THEN {S} ELSE SUBSET there

(* The dependencies that finalize_scheduled_update keeps of a depfile.     *)
Undirect(t, depfile) == depfile \ Range(Inputs[t])

(* What a command makes of the files it finds.                             *)
Reads(t, view)     == Covered(t, Undirect(t, Reported(t, view)))
Generated(t, view) == Made(t, [f \in Reads(t, view) |-> view[f]])
Runnable(t, view)  == Reads(t, view) \subseteq {f \in Files : view[f] # Missing}

(* Commands do and report the same where they find the same.               *)
DeterministicOn(Views) ==
  \A t \in Outputs : \A view, other \in Views :
    (\A f \in Reads(t, view) : other[f] = view[f]) => Reported(t, other) = Reported(t, view)

-----------------------------------------------------------------------------
Init ==
  /\ disk = [f \in Files |-> IF f \in Sources THEN Written(f, CHOOSE v \in Versions : TRUE) ELSE Missing]
  /\ log = Nothing /\ cache = Nothing
  /\ pc = "idle" /\ thrown = <<>> /\ pending = {} /\ failed = FALSE
  /\ job = [t \in Outputs |-> NoJob]
  /\ settled = {} /\ owned = {}

StartRun(targets) ==
  /\ pc = "idle"
  /\ pc' = "running" /\ pending' = Plan!Planned(targets)
  /\ UNCHANGED <<disk, log, cache, thrown, job, failed, settled, owned>>

EndRun ==
  /\ pc' = "idle" /\ thrown' = <<>> /\ pending' = {} /\ failed' = FALSE
  /\ cache' = Nothing /\ job' = [t \in Outputs |-> NoJob]
  /\ UNCHANGED <<disk, log, settled, owned>>

(* An exception drops the results nobody looked at yet; commands go on.    *)
Throw(exception) ==
  /\ pc' = "throwing" /\ thrown' = exception
  /\ job' = [t \in Outputs |-> IF job[t].state = "started" THEN job[t] ELSE NoJob]

-----------------------------------------------------------------------------
(* is_file_up_to_date and what execute_update_plan does with its answer.   *)

Queued(t) ==
  /\ pc = "running" /\ ~failed
  /\ t \in pending /\ job[t] = NoJob
  /\ Plan!Producers[t] \cap pending = {}

Recorded(t) == t \in DOMAIN log
(* Mutant: a file to be updated anyway is not asked about.                 *)
ChangedThoughCurrent(t) ==
  Recorded(t) /\ Hash(t) \notin {Missing, log[t].hash}
  /\ Imprint(Covered(t, log[t].deps)) = log[t].imprint
ChangedManually(t) == Recorded(t) /\ Hash(t) \notin {Missing, log[t].hash}
SameImprint(t) ==
  Recorded(t) /\ Hash(t) # Missing /\ Imprint(Covered(t, log[t].deps)) = log[t].imprint

(* What has been hashed by the time it says no.                            *)
Looked(t) ==
  IF ~Recorded(t) \/ Hash(t) = Missing THEN {{}}
  ELSE {{t} \cup seen : seen \in Hashed(Covered(t, log[t].deps))}

Refuse(t) ==
  /\ Queued(t) /\ ChangedManually(t)
  /\ Throw(<<"file_changed_manually", t>>)
  /\ UNCHANGED <<disk, log, cache, pending, failed, settled, owned>>

Skip(t) ==
  /\ Queued(t) /\ ~ChangedManually(t) /\ SameImprint(t)
  /\ pending' = pending \ {t} /\ settled' = settled \cup {t}
  /\ cache' = Remembering({t} \cup Covered(t, log[t].deps))
  /\ UNCHANGED <<disk, log, pc, thrown, job, failed, owned>>

(* Mutant: hash_cache.invalidate is not called.                            *)
NotInvalidated(c, t) == c

(* schedule_file_update: the hash of the file to be written is forgotten.  *)
Invalidated(c, t) == [f \in DOMAIN c \ {t} |-> c[f]]

Schedule(t) ==
  /\ Queued(t) /\ ~ChangedManually(t) /\ ~SameImprint(t)
  /\ \E seen \in Looked(t) : cache' = Invalidated(Remembering(seen), t)
  /\ job' = [job EXCEPT ![t].state = "started"]
  /\ UNCHANGED <<disk, log, pc, thrown, pending, failed, settled, owned>>

-----------------------------------------------------------------------------
(* The commands. A command that fails, or that prints on its standard      *)
(* output, may have written its file all the same.                         *)

Writes(t) == Runnable(t, disk) /\ disk' = [disk EXCEPT ![t] = Generated(t, disk)]

CommandSucceeds(t) ==
  /\ job[t].state = "started" /\ Writes(t)
  /\ job' = [job EXCEPT ![t] = [state |-> "succeeded", depfile |-> Reported(t, disk)]]
  /\ UNCHANGED <<log, cache, pc, thrown, pending, failed, settled, owned>>

CommandFails(t) ==
  /\ job[t].state = "started" /\ (Writes(t) \/ UNCHANGED disk)
  /\ job' = [job EXCEPT ![t].state = "failed"]
  /\ UNCHANGED <<log, cache, pc, thrown, pending, failed, settled, owned>>

-----------------------------------------------------------------------------
(* Collecting: finalize_scheduled_update, or the report of an error.       *)

Undeclared(t) ==
  (Undirect(t, job[t].depfile) \cap Outputs) \ Range(OrderOnly[t])

FinalizeThrows(t) ==
  /\ pc = "running" /\ job[t].state = "succeeded"
  /\ \E f \in Undeclared(t) : Throw(<<"undeclared_rule_dependency", t, f>>)
  /\ UNCHANGED <<disk, log, cache, pending, failed, settled, owned>>

(* Mutants: the record holds the whole depfile, or nothing of it; nothing  *)
(* is recorded once a job has failed.                                      *)
FinalizeWith(t, kept, paths, skipped) ==
  /\ pc = "running" /\ job[t].state = "succeeded" /\ Undeclared(t) = {}
  /\ LET entry == [imprint |-> Imprint(paths), hash |-> Hash(t), deps |-> kept]
     IN  log' = IF skipped THEN log
                ELSE [u \in DOMAIN log \cup {t} |-> IF u = t THEN entry ELSE log[u]]
  /\ cache' = Remembering(paths \cup {t})
  /\ job' = [job EXCEPT ![t] = NoJob]
  /\ pending' = pending \ {t} /\ settled' = settled \cup {t}
  /\ UNCHANGED <<disk, pc, thrown, failed, owned>>

DepsOf(t) == Undirect(t, job[t].depfile)
FinalizeForgetsDeps(t)    == FinalizeWith(t, {}, Covered(t, {}), FALSE)
FinalizeUnlessFailed(t)   == FinalizeWith(t, DepsOf(t), Covered(t, DepsOf(t)), failed)

Finalize(t) ==
  /\ pc = "running" /\ job[t].state = "succeeded" /\ Undeclared(t) = {}
  /\ LET deps  == Undirect(t, job[t].depfile)
         paths == Covered(t, deps)
         entry == [imprint |-> Imprint(paths), hash |-> Hash(t), deps |-> deps]
     IN  /\ log' = [u \in DOMAIN log \cup {t} |-> IF u = t THEN entry ELSE log[u]]
         /\ cache' = Remembering(paths \cup {t})
  /\ job' = [job EXCEPT ![t] = NoJob]
  /\ pending' = pending \ {t} /\ settled' = settled \cup {t}
  /\ UNCHANGED <<disk, pc, thrown, failed, owned>>

CollectFailed(t) ==
  /\ pc = "running" /\ job[t].state = "failed"
  /\ failed' = TRUE /\ job' = [job EXCEPT ![t] = NoJob]
  /\ UNCHANGED <<disk, log, cache, pc, thrown, pending, settled, owned>>

(* A run returns once no job is left: all is done, some failed, or an      *)
(* exception got past the destructor of the pool, which it does not while  *)
(* a job is in progress (see ExecuteUpdatePlan).                           *)
Return ==
  /\ \A t \in Outputs : job[t] = NoJob
  /\ pc = "throwing" \/ (pc = "running" /\ (failed \/ pending = {}))
  /\ EndRun

(* The run is killed, and the commands with it.                            *)
Crash == pc # "idle" /\ EndRun

-----------------------------------------------------------------------------
(* The user.                                                               *)

Edit(f, v) ==
  /\ pc = "idle" \/ EditsDuringRun
  /\ disk[f] # Written(f, v)
  /\ disk' = [disk EXCEPT ![f] = Written(f, v)]
  /\ settled' = {}
  /\ UNCHANGED <<log, run, owned>>

EditOutput(t) ==
  /\ pc = "idle"
  /\ disk' = [disk EXCEPT ![t] = Mine(t)]
  /\ settled' = {} /\ owned' = IF Recorded(t) THEN owned \cup {t} ELSE owned
  /\ UNCHANGED <<log, run>>

(* An output file, or a header that no rule names.                         *)
Deletable(f) == \A t \in Outputs : f \notin Range(Inputs[t] \o Groups[t]) \ Outputs

Delete(f) ==
  /\ pc = "idle" /\ Deletable(f) /\ disk[f] # Missing
  /\ disk' = [disk EXCEPT ![f] = Missing]
  /\ settled' = {} /\ owned' = owned \ {f}
  /\ UNCHANGED <<log, run>>

Next ==
  \/ \E targets \in SUBSET Outputs \ {{}} : StartRun(targets)
  \/ \E t \in Outputs :
       \/ Refuse(t) \/ Skip(t) \/ Schedule(t)
       \/ CommandSucceeds(t) \/ CommandFails(t)
       \/ FinalizeThrows(t) \/ Finalize(t) \/ CollectFailed(t)
       \/ EditOutput(t)
  \/ Return \/ Crash
  \/ \E f \in Sources, v \in Versions : Edit(f, v)
  \/ \E f \in Files : Delete(f)

Spec == Init /\ [][Next]_vars

-----------------------------------------------------------------------------
(* Every file has a content, every record an imprint of the files it       *)
(* depends on, and jobs only exist for the pending files of a run.         *)
TypeOK ==
  /\ DOMAIN disk = Files /\ \A f \in Sources : disk[f] \in {Missing} \cup ({f} \X Versions)
  /\ DOMAIN log \subseteq Outputs
  /\ \A t \in DOMAIN log : /\ Covered(t, log[t].deps) \subseteq Files
                           /\ DOMAIN log[t].imprint = Covered(t, log[t].deps)
                           /\ \A f \in DOMAIN log[t].imprint : log[t].imprint[f] # Missing
  /\ DOMAIN cache \subseteq Files
  /\ pc \in {"idle", "running", "throwing"} /\ failed \in BOOLEAN
  /\ pending \subseteq Outputs /\ settled \subseteq Outputs /\ owned \subseteq Outputs
  /\ job \in [Outputs -> [state : {"none", "started", "succeeded", "failed"}, depfile : SUBSET Files]]
  /\ \A t \in Outputs : job[t] # NoJob => t \in pending

(* What the log says of a file was true of one run of its command: the     *)
(* recorded hash is that of the file made from the recorded imprint, so    *)
(* what the cache remembers is never older than what the command read.     *)
RecordsAreTruthful == \A t \in DOMAIN log : log[t].hash = Made(t, log[t].imprint)

(* What a build from nothing would make of the sources as they are: all    *)
(* commands are run over and over, on what they have made so far.          *)
FromNothing == [f \in Files |-> IF f \in Sources THEN disk[f] ELSE Missing]

Again(view) ==
  [f \in Files |-> IF f \in Sources THEN disk[f]
                   ELSE IF Runnable(f, view) THEN Generated(f, view) ELSE Missing]

Fresh ==
  LET Round[n \in 0..Cardinality(Outputs)] ==
        IF n = 0 THEN FromNothing ELSE Again(Round[n - 1])
  IN  Round[Cardinality(Outputs)]

(* A file a run has made or found up to date is what a build from nothing  *)
(* gives, and stays so whatever later runs do, fail to do, or crash at.    *)
SettledIsFresh == \A t \in settled : disk[t] = Fresh[t]

(* A file that was brought up to date is not updated again, and nobody is  *)
(* accused of having changed it, until the user changes something; other   *)
(* files failing and runs crashing do not lose the work that was done.     *)
NoWorkTwice ==
  \A t \in settled : job[t] = NoJob /\ thrown # <<"file_changed_manually", t>>

(* A recorded output file the user has written over keeps what the user    *)
(* wrote until the user deletes it.                                        *)
LocalChangesKept == \A t \in owned : disk[t] = Mine(t)

(* What the message of src/main.impl.cpp:217-219 says: a file that is       *)
(* reported as modified manually has been modified by the user.            *)
OnlyTheUserIsBlamed ==
  pc = "throwing" /\ thrown[1] = "file_changed_manually" => thrown[2] \in owned

(* What src/update_log/file_record.struct.json says, lines 18 to 23: a     *)
(* file whose imprint is the recorded one is up to date.                   *)
SameImprintMeansUpToDate ==
  pc = "idle" => \A t \in DOMAIN log :
    disk[t] = log[t].hash /\ SameImprint(t) => disk[t] = Generated(t, disk)
==============================================================================
