------------------------------ MODULE UpdateLog ------------------------------
(***************************************************************************)
(* The update log (src/update_log/): the recorder that appends to          *)
(* `.upd/log`, the reader that rebuilds the cache from it, and the         *)
(* rewriting of the log at the end of a successful run, with the process   *)
(* possibly dying between any two writes.                                  *)
(*                                                                         *)
(* A file is the sequence of its entries, one for each io::write. Paths    *)
(* are sequences of names; an entity is a prefix of a path, numbered in    *)
(* the order the entities appear in the file.                              *)
(***************************************************************************)
EXTENDS Naturals, SequencesExt

CONSTANTS
  Paths,        \* the local paths files may have, sequences of names
  Values,       \* what a record holds besides its dependencies
  IdSpace,      \* how many entity ids ent_ids_by_path can tell apart: 2^16
  Absent,       \* stands for a file that does not exist
  MaxDeps,      \* bound: the dependencies of one record
  MaxLog        \* bound: the entries of a log

Prefix(p, k) == SubSeq(p, 1, k)
PrefixesOf(p) == {Prefix(p, k) : k \in 1..Len(p)}

Names    == UNION {ToSet(p) : p \in Paths}
Entities == UNION {PrefixesOf(p) : p \in Paths}
Records  == [value : Values, deps : BoundedSeq(Paths, MaxDeps)]

Version    == [kind |-> "version", number |-> 4]
OldVersion == [kind |-> "version", number |-> 3]

RootName(name)     == [kind |-> "root_entity_name", name |-> name]
Name(parent, name) == [kind |-> "entity_name", parent |-> parent, name |-> name]
Update(value, id, deps) == [kind |-> "file_update", value |-> value, id |-> id, deps |-> deps]

LogEntries ==
  {Version, OldVersion} \cup [kind : {"root_entity_name"}, name : Names]
  \cup [kind : {"entity_name"}, parent : Nat, name : Names]
  \cup [kind : {"file_update"}, value : Values, id : Nat, deps : Seq(Nat)]

ASSUME PathsAssumption   == \A p \in Paths : p \in Seq(Names) /\ p # <<>>
ASSUME IdSpaceAssumption ==
  IdSpace \in Nat /\ IsFiniteSet(Entities) /\ Cardinality(Entities) <= IdSpace
ASSUME AbsentAssumption  == Absent \notin Seq(LogEntries)
ASSUME BoundsAssumption  == MaxDeps \in Nat /\ MaxLog \in Nat

NoRecords == [p \in {} |-> p]
Set(f, k, v) == [x \in DOMAIN f \cup {k} |-> IF x = k THEN v ELSE f[x]]

VARIABLES
  log, temp,    \* the files `.upd/log` and `.upd/log_rewritten`
  pc,           \* where the process is, "down" between two runs
  records,      \* cache::cached_records_
  rewriting,    \* whether the recorder in use is that of rewrite_file
  index,        \* recorder::ent_ids_by_path_, of the recorder in use
  task,         \* what record() is at
  unwritten     \* the paths rewrite_file has still to record

memory == <<records, rewriting, index, task, unwritten>>
vars   == <<log, temp, pc, records, rewriting, index, task, unwritten>>

-----------------------------------------------------------------------------
(* Reading. An id beyond the entities read so far makes vector::at throw.  *)

ReadEntry(r, e) ==
  LET Known(id) == id + 1 \in DOMAIN r.ents
      Path(id)  == r.ents[id + 1]
  IN  CASE e.kind = "root_entity_name" -> [r EXCEPT !.ents = Append(@, <<e.name>>)]
        [] e.kind = "entity_name" /\ Known(e.parent) ->
             [r EXCEPT !.ents = Append(@, Append(Path(e.parent), e.name))]
        [] e.kind = "file_update" /\ Known(e.id) /\ \A k \in DOMAIN e.deps : Known(e.deps[k]) ->
             [r EXCEPT !.records = Set(@, Path(e.id),
                [value |-> e.value, deps |-> [k \in DOMAIN e.deps |-> Path(e.deps[k])]])]
        [] OTHER -> [r EXCEPT !.ok = FALSE]

NothingRead == [ok |-> TRUE, ents |-> <<>>, records |-> NoRecords]

ReadAll(file) ==
  LET After[k \in 1..Len(file)] ==
        IF k = 1 THEN NothingRead ELSE ReadEntry(After[k - 1], file[k])
  IN  After[Len(file)]

Empty(file)    == file \in {Absent, <<>>}
Readable(file) == ~Empty(file) /\ Head(file) = Version /\ ReadAll(file).ok
Outdated(file) == ~Empty(file) /\ Head(file) # Version

(* Where an entity is in the list the reader made, were it twice the last. *)
PlaceOf(e, ents) ==
  CHOOSE i \in DOMAIN ents : ents[i] = e /\ \A j \in DOMAIN ents : ents[j] = e => j <= i

(* Mutant: the index is rebuilt with ids counted from one.                 *)
BuildEntIndexFromOne(ents) == [e \in ToSet(ents) |-> PlaceOf(e, ents) % IdSpace]

BuildEntIndex(ents) == [e \in ToSet(ents) |-> (PlaceOf(e, ents) - 1) % IdSpace]

-----------------------------------------------------------------------------
(* The record() that goes on: its arguments, the ids of the paths already  *)
(* named, and how far the loop of get_path_id_ is in the path being named, *)
(* `parent` being parent_ent_id. Path 0 is that of the file itself.        *)
NoTask == [path |-> <<>>, record |-> <<>>, ids |-> <<>>, depth |-> 0, parent |-> 0]

TaskFor(p, r) == [path |-> p, record |-> r, ids |-> <<>>, depth |-> 0, parent |-> 0]

PathNumber(t, k) == IF k = 0 THEN t.path ELSE t.record.deps[k]

Named == Len(task.ids) = Len(task.record.deps) + 1

(* io::write, to the file of the recorder in use.                          *)
Write(e) ==
  IF rewriting THEN temp' = Append(temp, e) /\ UNCHANGED log
               ELSE log' = Append(log, e) /\ UNCHANGED temp

Init ==
  /\ log \in {Absent, <<OldVersion>>}
  /\ temp = Absent
  /\ pc = "down"
  /\ records = NoRecords /\ rewriting = FALSE /\ index = NoRecords
  /\ task = NoTask /\ unwritten = {}

(* cache::from_log_file: a missing log, or one of another version, is      *)
(* created anew; O_TRUNC takes effect before the version byte is written.  *)
OpenFresh ==
  /\ pc = "down"
  /\ log = Absent \/ Outdated(log)
  /\ log' = <<>> /\ pc' = "creating"
  /\ UNCHANGED <<temp, memory>>

(* The constructor of the recorder, of either file.                        *)
WriteVersion ==
  /\ pc = "creating"
  /\ Write(Version) /\ pc' = "up"
  /\ UNCHANGED memory

OpenExisting ==
  /\ pc = "down" /\ Readable(log)
  /\ records' = ReadAll(log).records
  /\ index' = BuildEntIndex(ReadAll(log).ents)
  /\ pc' = "up"
  /\ UNCHANGED <<log, temp, rewriting, task, unwritten>>

(* "update log is corrupted": the run ends there.                          *)
OpenFails ==
  /\ pc = "down" /\ log # Absent /\ ~Outdated(log) /\ ~Readable(log)
  /\ pc' = "corrupted"
  /\ UNCHANGED <<log, temp, memory>>

(* The user does as the message says: "delete or revert the file".         *)
DeleteLog ==
  /\ pc = "corrupted"
  /\ log' = Absent /\ pc' = "down"
  /\ UNCHANGED <<temp, memory>>

-----------------------------------------------------------------------------
(* The entries recording r for p adds: the new entities and the update.    *)
NewEntries(p, r) ==
  1 + Cardinality((PrefixesOf(p) \cup UNION {PrefixesOf(d) : d \in ToSet(r.deps)}) \ DOMAIN index)

(* cache::record                                                           *)
Record(p, r) ==
  /\ pc = "up" /\ ~rewriting
  /\ Len(log) + NewEntries(p, r) <= MaxLog
  /\ task' = TaskFor(p, r) /\ pc' = "recording"
  /\ UNCHANGED <<log, temp, records, rewriting, index, unwritten>>

(* The task once the id of the prefix at hand is known.                    *)
Advanced(id) ==
  IF task.depth + 1 < Len(PathNumber(task, Len(task.ids)))
  THEN [task EXCEPT !.depth = @ + 1, !.parent = id]
  ELSE [task EXCEPT !.depth = 0, !.parent = 0, !.ids = Append(@, id)]

(* Mutant: an entity takes its number once it is in the index.             *)
NameEntityLate ==
  LET path   == PathNumber(task, Len(task.ids))
      prefix == Prefix(path, task.depth + 1)
      id     == Cardinality(DOMAIN index) + 1
      name   == path[task.depth + 1]
  IN  /\ pc = "recording" /\ ~Named
      /\ IF prefix \in DOMAIN index
         THEN task' = Advanced(index[prefix]) /\ UNCHANGED <<log, temp, index>>
         ELSE /\ index' = Set(index, prefix, id % IdSpace)
              /\ Write(IF task.depth = 0 THEN RootName(name) ELSE Name(task.parent, name))
              /\ task' = Advanced(id)
      /\ UNCHANGED <<pc, records, rewriting, unwritten>>

(* One turn of the loop of get_path_id_: a prefix of the path without an   *)
(* id takes the next number, stored in 16 bits, and is written out under   *)
(* its parent. The id handed on is not yet truncated.                      *)
NameEntity ==
  LET path   == PathNumber(task, Len(task.ids))
      prefix == Prefix(path, task.depth + 1)
      id     == Cardinality(DOMAIN index)
      name   == path[task.depth + 1]
  IN  /\ pc = "recording" /\ ~Named
      /\ IF prefix \in DOMAIN index
         THEN task' = Advanced(index[prefix]) /\ UNCHANGED <<log, temp, index>>
         ELSE /\ index' = Set(index, prefix, id % IdSpace)
              /\ Write(IF task.depth = 0 THEN RootName(name) ELSE Name(task.parent, name))
              /\ task' = Advanced(id)
      /\ UNCHANGED <<pc, records, rewriting, unwritten>>

(* The buffer is written once it is complete, behind all it names.         *)
WriteUpdate ==
  /\ pc = "recording" /\ Named
  /\ Write(Update(task.record.value, task.ids[1],
                  [k \in DOMAIN task.record.deps |-> task.ids[k + 1]]))
  /\ pc' = "recorded"
  /\ UNCHANGED memory

(* The map in memory follows; rewrite_file leaves it alone.                *)
RecordReturns ==
  /\ pc = "recorded"
  /\ records' = IF rewriting THEN records ELSE Set(records, task.path, task.record)
  /\ task' = NoTask /\ pc' = "up"
  /\ UNCHANGED <<log, temp, rewriting, index, unwritten>>

-----------------------------------------------------------------------------
(* Mutant: the rewriting goes on with the index of the log.                *)
BeginRewriteWithIndex ==
  /\ pc = "up" /\ ~rewriting
  /\ temp' = <<>> /\ pc' = "creating" /\ rewriting' = TRUE
  /\ unwritten' = DOMAIN records
  /\ UNCHANGED <<log, records, index, task>>

(* rewrite_file: a fresh recorder on the temporary file, one record() per  *)
(* entry of the map in no particular order, and a rename.                  *)
BeginRewrite ==
  /\ pc = "up" /\ ~rewriting
  /\ temp' = <<>> /\ pc' = "creating" /\ rewriting' = TRUE
  /\ index' = NoRecords /\ unwritten' = DOMAIN records
  /\ UNCHANGED <<log, records, task>>

RewriteRecord(p) ==
  /\ pc = "up" /\ rewriting /\ p \in unwritten
  /\ task' = TaskFor(p, records[p]) /\ pc' = "recording"
  /\ unwritten' = unwritten \ {p}
  /\ UNCHANGED <<log, temp, records, rewriting, index>>

Forget ==
  /\ records' = NoRecords /\ rewriting' = FALSE /\ index' = NoRecords
  /\ task' = NoTask /\ unwritten' = {}

(* Mutant: the log is replaced before the new one is complete.             *)
RenameEarly ==
  /\ pc = "up" /\ rewriting
  /\ log' = temp /\ temp' = Absent /\ pc' = "down"
  /\ Forget

Rename ==
  /\ pc = "up" /\ rewriting /\ unwritten = {}
  /\ log' = temp /\ temp' = Absent /\ pc' = "down"
  /\ Forget

(* The process dies, or an exception keeps it from rewriting the log.      *)
Crash ==
  /\ pc \notin {"down", "corrupted"}
  /\ pc' = "down" /\ Forget
  /\ UNCHANGED <<log, temp>>

Next ==
  \/ OpenFresh \/ WriteVersion \/ OpenExisting \/ OpenFails \/ DeleteLog
  \/ \E p \in Paths, r \in Records : Record(p, r)
  \/ NameEntity \/ WriteUpdate \/ RecordReturns
  \/ BeginRewrite \/ (\E p \in Paths : RewriteRecord(p)) \/ Rename
  \/ Crash

Spec == Init /\ [][Next]_vars

-----------------------------------------------------------------------------
(* What the next run would read from the log as it is now.                 *)
OnDisk(file) == IF Readable(file) THEN ReadAll(file).records ELSE NoRecords

(* A run, and the recording of a file, as who calls cache::record sees it. *)
Recording == pc \in {"recording", "recorded"} /\ ~rewriting

Status  == IF pc \in {"down", "corrupted"} THEN "down"
           ELSE IF Recording THEN "recording" ELSE "idle"
Request == IF Recording THEN [path |-> task.path, record |-> task.record]
                        ELSE [path |-> <<>>, record |-> <<>>]

Durable == INSTANCE DurableRecords
             WITH store <- OnDisk(log), status <- Status, request <- Request

(* The log on disk is a durable map: a record whose recording has returned *)
(* is there until the same file is recorded again. The recording that is   *)
(* going on is all that can change what the log says; the opening and the  *)
(* creation of a log, the names written ahead of a record, the rewriting   *)
(* and its rename, a crash at any point and the deletion of a log that was *)
(* found corrupted lose nothing and invent nothing.                        *)
Implements == Durable!Spec

(* Between two records, and all along while the log is rewritten, the map  *)
(* in memory says what the log says: the reader resolves the ids the       *)
(* recorder handed out to the same paths, also when the recorder continues *)
(* a log that an earlier run left behind.                                  *)
CacheMatchesLog == pc = "up" \/ rewriting => records = OnDisk(log)

(* The numbers in the recorder's index are the places at which the reader  *)
(* finds the entities, after every write, in the log and in the file it is *)
(* rewritten to.                                                           *)
IndexMatchesFile ==
  pc \in {"up", "recording", "recorded"} =>
    LET ents == ReadAll(IF rewriting THEN temp ELSE log).ents
    IN  /\ Len(ents) = Cardinality(DOMAIN index)
        /\ \A e \in DOMAIN index : ents[index[e] + 1] = e

(* Whenever the process dies, what it leaves behind can be read, except in *)
(* the instant before a new log has its version.                           *)
ReadableAfterCrash == Empty(log) \/ Outdated(log) \/ Readable(log)

(* The promise of src/update_log/recorder.h, lines 17 to 23, that crashes  *)
(* are supported out of the box: no run finds the log corrupted.           *)
CrashesAreSupported == pc # "corrupted"
==============================================================================
