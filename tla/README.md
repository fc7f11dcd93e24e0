# A TLA+ model of upd

`upd` brings generated files up to date: it reads a manifest, works out which
output files are made from which inputs, and runs the commands of those that
are stale, several at a time, remembering in an *update log* what it made from
what. This directory models the parts of it that decide something, checks them
with TLC on small instances, and proves with TLAPS, for every instance, the most
important facts about the update plan, the thread pool, the commands and their pipes, the update log and
its encoding, the decisions taken run after run, the update map, the crawler of source files and the glob
matcher. Paths below are those of the repository.

## 1. The system

| component | state it keeps | operations | what makes it correct |
|---|---|---|---|
| glob matcher (`glob`) | place in the pattern and the name, indices, one bookmark | match a name | accepts what matches and nothing else; the indices are those of the accepted match |
| path patterns and crawler (`path_glob`) | directories to read with the bookmarks for each, current entry | parse a pattern string, find the next match | every match found once, for one pattern, with the right captures |
| update map (`gen_update_map`, `substitution`) | outputs and captures so far | resolve outputs, merge inputs, group dependencies | one rule per output; outputs, inputs and groups are what the rules say; no cycles |
| update plan (`update_plan.h/.cpp`) | pending set, queue, counts, descendants | `build_update_plan`, `erase` | counts agree with what is pending; each file queued once, after its inputs |
| plan execution (`execute_update_plan`, `update_worker`) | plan, worker statuses and results, one mutex, one condition variable per direction | schedule, wait, collect, shut down; the worker's loop | one job per file; no lost wake-up; full use of the pool; ends and reports exactly |
| update decisions (`update.cpp`, `xxhash64.cpp`) | hash cache of the run, records of the log, the files | `is_file_up_to_date`, `schedule_file_update`, `finalize_scheduled_update` | what is skipped is fresh; what was done is not redone; local changes are kept |
| update log (`update_log/`) | `.upd/log`, `.upd/log_rewritten`, entity index, record map | open, `record`, `rewrite_file` | a durable map under crashes; recorder and reader agree on ids |
| commands (`run_command_line`, `system/`, pseudoterminal, the depfile FIFO of `update.cpp`) | who has which end open, child processes, reading threads | spawn, read to the end, wait, finalize, release | all output and the whole depfile are seen; every end is released; no wait is for ever |
| depfile and log encodings (`depfile/`, `read_impl.h`, `write_impl.cpp`) | parser state | tokenize, parse; variable-length integers | reading gives back what was written |
| manifest and JSON (`manifest/`, `json/`) | a character and its location, the token after it, the nested readers | lex, read objects, arrays and expressions | what is written is read, or the error is where the fault is |
| command line templates, CLI, paths | none | parse, assemble | plain translations |

`execute_manifest` ties them together: it makes the update map, gives the
targets to `build_update_plan` one by one, loads the log, runs
`execute_update_plan` and rewrites the log. The main thread calls the update
decisions and the log directly; workers share only their status, result and
job with it, under the mutex of the pool. Files on disk are shared with the
commands and with the user.

The hard behaviours are the interleaving of the main thread and the workers
(who holds the mutex when, what a notification finds), a job that fails or an
exception that passes while other jobs run, a process killed between two
writes, what the log says against what the files have become, repeated or
cyclic inputs in the plan, and the backtracking of the matchers. `PROJECT.json` lists each of them at its line, with
the property that would catch it.

## 2. The modules

```
UpdatePlan ──────── closed forms of the plan: Planned, InitialCounts, Released, ...
 ├─ BuildUpdatePlan        the recursion and erase as written, against the closed forms
 │    └─ BuildUpdatePlan_proofs
 ├─ ExecuteUpdatePlan ──implements── OrderedUpdate
 │    ├─ MCExecuteUpdatePlan        instance for TLC
 │    └─ ExecuteUpdatePlan_proofs
 └─ IncrementalUpdate      runs, edits, crashes; takes Planned and Producers from it
      ├─ MCIncrementalUpdate
      └─ IncrementalUpdate_proofs
CommandPipes ────── what is under a job of ExecuteUpdatePlan
 ├─ MCCommandPipes
 └─ CommandPipes_proofs
UpdateLog ──implements── DurableRecords
 ├─ MCUpdateLog
 └─ UpdateLog_proofs
GlobPattern ─────── what it means for a name to match a glob pattern
 ├─ Glob                   the matcher, step by step
 │    ├─ MCGlob
 │    └─ Glob_proofs
 └─ PathGlob (with PathPattern)        the crawler
      └─ UpdateMap (with Substitution) from manifest and file tree to output files
           ├─ MCUpdateMap
           └─ UpdateMap_proofs
Depfile, LogReader, JsonLexer, ManifestReader ── the readers
 ├─ MCReaders
 └─ Readers_proofs
```

**UpdatePlan** has no state. `Deps[t]` is the list of paths of rule `t` in the
order the code goes through it: inputs, dependency groups, order-only
dependencies. As a path named twice is counted and erased twice, everything is
stated for the *slots* of that list.

**BuildUpdatePlan** is the plan as `build_update_plan` builds it (depth first,
a file marked pending before its inputs are visited) and as the loops of
`output_dot_graph` and `output_shell_script` consume it. The calls of `build_update_plan` that have
not returned are an explicit `stack`: `Enter` begins one, `VisitInput` is the next turn of one of its
three loops with the call of `build_update_plan_for_path`, and `LeaveTarget` is what follows the loops.
`Erase` is the loop over the descendants; `plan.corrupted` is the exception it may throw. The module
licenses the closed forms that the others are built on.

**ExecuteUpdatePlan** is the thread pool. `pc` is the place of the main
thread: `schedule` (the loop over the queue), `scan` and `wait` (the loop
around `global_cv.wait`), `collect`, `unwind` and `join` (the destructor).
`loc[w]` is the place of a worker: `ready` to look at its status, `waiting` on
its condition variable, `running` a command, `ended` with the result not yet
published, `exited`. The main thread holds the mutex throughout, except in
`wait`, once it is notified but has not run yet, and after the destructor has
unlocked; `MutexFree` says so, and a worker's critical sections (`Checks`,
`Publishes`) are steps that need it. The answers of
`is_file_up_to_date` and of the commands are left open, as is the order in
which `erase` meets descendants, and which idle worker is picked (they are
alike).

**OrderedUpdate** is what executing a plan promises: each file is started or
skipped once, when all it is made from is done, and not after a file was
dropped. `Phase` in ExecuteUpdatePlan is the refinement mapping: a job is
*running* from its assignment to its collection, *dropped* when it was collected
with an error or given up by the destructor.

**UpdateLog** has the two files as sequences of entries, one for each
`io::write`. A path is a sequence of names, an entity a prefix of one. `Record` begins a
`record()`, of the cache or (`RewriteRecord`) of `rewrite_file`; `task` is how far it is; each
`NameEntity` is one turn of the loop of `get_path_id_`, which writes an entry for
a prefix that has no id yet; `WriteUpdate` is the write of the update itself and `RecordReturns` the rest.
`rewriting` tells which recorder is in use, and with it the file that `Write` appends to.
`ReadAll` resolves ids by position, as the reader's vector does, and marks the file unreadable where
`vector::at` would throw. `Crash` may fall between any two of these; `O_SYNC`
and `O_APPEND` are why a completed write stays. `Init` also starts from the log of
an older version. **DurableRecords** is what it promises to who calls
`cache::record`: a map of records, and the one request that may be in progress. `Put` sets the record that is asked
for, `Return` needs it to be there, and the two other things that happen to a run, `Start` and `Stop`
(its end or its death), leave the map alone; no action drops a record. The mapping takes `OnDisk(log)`, what the next run
would read, for the map, and `Status` and `Request` from `pc` and `task`. `WriteUpdate` is `Put`, `Rename`
and `Crash` are `Stop`, and all that concerns the temporary file, the names and the version is a stutter. A missing, empty or outdated log
has no records to begin with, so its creation anew is no exception.

**IncrementalUpdate** is the system seen over many runs. `disk` has the contents
of all files; the content of an output is the pair of its name and the contents it
was made from, so a hash *is* a content, and two things are equal exactly when
they were made alike. An imprint hashes paths along with contents, so it is the
content of each file it covers, in no order; where `get_target_imprint` gives up at a
missing file, any of the others may have been hashed (`Hashed`). Jobs follow
OrderedUpdate (any number at once), the log
DurableRecords (a record arrives or does not). `Reported(t, view)` is the set of paths t's
command reads and names in its depfile; commands are otherwise opaque and well behaved: they
read what they report and what the rule names, write only their output, and
may fail having written it or not. `Fresh` is what the files would be if everything were
made from nothing, in rounds: in each, every command whose inputs are there runs again. `settled` and `owned` are history variables:
files found or made up to date since the user's last change, and recorded files
the user has written over. `Refuse` is `file_changed_manually_error`,
`FinalizeThrows` `undeclared_rule_dependency_error`.

**CommandPipes** opens up the job of a worker, which ExecuteUpdatePlan has as one step.
`loc[w]` follows `run_command_line` in the worker's thread (`assigned`, `piped`, `opened`,
`listening`, `spawned`, `halfclosed`, `closed`, `reaped`, `gathered`) and then the main thread
(`finalizing`; `kept` for a job that failed, whose descriptor and reader stay in the worker's
state; `releasing`). `held` has the writing ends open in upd, `procHeld[j]` those in the
command of job j and its descendants: `Spawn` copies all of `held`, since nothing is opened
with `O_CLOEXEC`. A command may open its depfile, write chunks to what it holds (waiting while
a pipe is full), close what it inherited, exit, and leave descendants that vanish later. A
reader ends when its end is open nowhere and nothing is unread, or throws in the middle of
a depfile that does not parse. While the main thread waits for a depfile it has the mutex,
so `Publish` waits for it (`Waiting`). `RunThrows` is an exception out of a worker's
thread, which ends the program.

**GlobPattern** defines matching as the existence of a cut of the name into one
piece for each segment. **Glob** is the `matcher` of `glob.cpp`: a step matches the
current segment and starts the next (`MatchSegment`), goes back to one character after the
bookmark (`Retry`) or returns (`GiveUp`); the two loops of the code both
come down to these. The code's `segment_ix` counts from zero, the model's from one.

**PathPattern** has the parser of pattern strings, one `ParseStep` per character,
segment start and segment end. **PathGlob** has the crawler: `NextDir` takes any pending
directory (the code takes the first of a hash map), `NextEnt` any entry, and
`TryBookmark` is one turn of the loop of `next()`, which ends with the caller
recording the match. It takes from GlobPattern whether a name matches and with which
indices, as `glob` shows that this is what the matcher computes. `FoundBySegments` says of the crawler
alone what it finds, from the segments of the parsed patterns (`SegmentsFit`: which names of a path they can stand for). `FoundOnce` and
`CapturesFit` do not trust the parser:
`Readings` reads the pattern *string* against the text of a path and gives
the places where its parentheses fall.

**UpdateMap** runs the crawler and then the rules: `GatherRule` is the loop over the inputs
of a rule with the errors it may throw (`Gather` is one turn of it), `StoreOutput` one turn of the loop over
`data_by_path`, in any order. **Substitution** has `parse`, `resolve` and `capture` as functions.
Manifests that `read_from_file` refuses are no inputs of this model, nor are those on
which the code is undefined (an index of a source or rule that is not there, a group
left open or opened at the end of a name, an unmatched `)`).

**Depfile** is the tokenizer, which holds the next character after one layer of
escapes, and the handler of its tokens; an action is a token, or a character of
one. `ReadsRules` compares it with a reading in two passes (`Plain`, `Marks`) and a
declarative `HasRule`. **LogReader** is below UpdateLog: an entry is its bytes.
`fields` is what the nested calls of `read.cpp` still have to read of the current
entry; `Refill` and `Fill` are `read_fd_forward`, where `read()` may return any number of
bytes. The ids of LogReader's entries are what `ReadEntry` of UpdateLog resolves.

**JsonLexer** is the lexer of `updfile.json`, an action for each character or token: `NextChar`
is `next_char_` with the character read ahead at the end of a number, and `in_json` has `c_`,
`good_` and both locations. **ManifestReader** takes its tokens: `frames` are the
`object_reader`s and `array_reader`s at work, each with the value its handler fills in, and each
action is what one of them does with one token. `Fields` is the table the handlers of
`read_from_file.cpp` amount to: the fields of each object, and whether their values are added to a
vector. `ManifestIsMeaning` compares the result with a declarative reading of the
document (`Meaning`), `ErrorsAreAtTheFault` states where an error is raised. Strings
that are patterns or commands are opaque here; PathPattern and Substitution have them.

Definitions named in a comment as *Mutant* are not part of any specification: each
is what a plausible slip would make of the definition after it, and TLC finds
the property it is paired with violated when it takes that definition's place.

## 3. What the runs check

| run | instance and bounds | shows |
|---|---|---|
| `build_plan` | all 9,261 update maps on three outputs and a source with at most two inputs per rule; every order of targets | `PlanIsClosedForm`, `EraseIsClosedForm`: recursion and closed form agree, also on cycles and repeated inputs; `LeftoverIsCyclic`: exactly the files behind a cycle are left over |
| `execute` | a diamond whose bottom side names an input twice, one more file; two workers; every non-empty set of targets | the safety properties of section 4; `Implements` (OrderedUpdate); `Terminates` under `FairSpec` |
| `log` | three paths over four entities, one of them a name used at two places; one dependency per record; files of at most six entries while recording; exactly as many ids as entities | `Implements` (DurableRecords: a record that has returned stays), `CacheMatchesLog`, `IndexMatchesFile`, `ReadableAfterCrash` |
| `pipes` | two workers, three jobs; pipes of one chunk; the first command may write three chunks, anywhere it holds an end | `OutputIsComplete`, `DepfileOutlivesCommand`, `NothingLeaks`; `Terminates` under the fairness of `Progress` |
| `build` | three outputs (a generated header, a file that includes it only for one version of its source, a file that comes to depend on an undeclared output), three sources in two versions; edits between runs only; unbounded runs, edits, failures and crashes | `RecordsAreTruthful`, `SettledIsFresh`, `NoWorkTwice`, `LocalChangesKept` |
| `glob` | every pattern of up to three segments over the literals "", a, b, ab (1,464 patterns) against every name of up to four letters and all of three with periods | `MatchesExactly`, `IndicesAreFirstSplit`, `Terminates` |
| `readers` | every depfile of up to five of the characters a, space, colon, newline, backslash; 108 rules with such characters in their names, on one line or several; sixteen logs cut off at each byte and four damaged or outdated ones, read in pieces of one to four bytes; integers of one bit a byte in three bytes; all JSON texts of up to five of eight characters; four manifests that have every kind of field, with one token deleted, replaced or inserted anywhere or the rest cut off, and all `{` followed by up to four tokens | `ReadsRules`, `WrittenIsRead`; `EntriesSurvive`; `TokensAreTheText`; `ManifestIsMeaning`, `ErrorsAreAtTheFault` |
| `update_map` | six lists of one to three overlapping patterns (nested groups, groups over several directories, folder wildcards, escapes) over two trees with hidden entries, a link and directories named like files; 192 manifests with two rules over one of the lists | `FoundOnce`, `FoundBySegments`, `CapturesFit`; `OutputsAreTheRules`, `OutputGroupsFit`, `CyclesNeedSharedPath`; no deadlock |

Why the bounds are enough. The diamond with a repeated input is the least plan
in which a file waits for two others, counts and slots differ, and two jobs can
run while a third is ready; two workers let one publish while the other runs and
leave the queue non-empty at the limit; the proofs of section 4 remove the
bound. In the log, six entries hold one record with all its entities and a second
record that shares them, with a crash at each place in between; since two records
of a file may differ in their dependencies, overwriting shows. In `build`
nothing is bounded but the versions, so every history over them is covered,
reverts included. In `pipes`, one chunk more than a pipe holds makes a command wait for a
reader, and two workers let a command inherit the ends of another's job; the third job is the
one that finds what the first left behind in its worker. Three segments give two wildcards with a segment between, before or after
them, the least where going back to the last wildcard only could be too little; section 4
removes the bound. In `update_map` every error is reached, and so are merged inputs, a file
that several bookmarks lead to, and outputs that are sources as well.

In `readers`, five characters hold a rule and what may follow it; the logs have names that
look like entries, values across several fills, and one number of the first
size that cannot be read back.

`build` and `update_map` check deadlock: elsewhere a plan is drained, a function or a
program returns, or a bounded log fills up.

Fairness (`FairSpec` of ExecuteUpdatePlan): the main thread takes its steps
when it can; commands end; a worker that wants the mutex gets it if the mutex is
free again and again (strong fairness of `Checks` and `Publishes`). The last is
needed only because the model lets a waiting main thread be woken
spuriously without end, each time taking the mutex; a mutex that lets one thread
starve for ever over that would break any program. Spurious wake-ups themselves
have no fairness, so nothing relies on them.
The fairness of `glob` is that of a sequential program, which goes
on as long as it can. `pipes` assumes only that *some* step of `Progress` is taken while there is one:
threads run, readers read, a command that is not waiting ends, and so do the descendants it left.
Each such step uses something up (a place in the code, a chunk, a process), so
nothing stronger is needed, and being blocked means that nobody at all can go on.

### Disagreements found

Four runs show a place where the code does not do what one of its comments or
messages says; each checks a single property.

* `shutdown` (`ShutdownIsClean`): an exception that leaves
  `execute_update_plan` while another worker's command runs blocks the program
  in `~worker_pool`: the worker overwrites `shutdown` with `finished`.
  `Terminates` says that this is the only way not to end.
* `log_creation` (`CrashesAreSupported`): a crash between creating the log and
  writing its version byte leaves a log that every later run calls corrupted.
* `blame` (`OnlyTheUserIsBlamed`): a run killed, or a command failing, after the
  output was written and before it was recorded makes the next run refuse the file
  as "modified manually". `LocalChangesKept` is the promise this refusal serves.
* `race` (`SameImprintMeansUpToDate`): inputs are hashed when a job is
  finalized; a source saved after the command read it is recorded as read. With
  edits between runs only, `RecordsAreTruthful` holds: this is the only way.

Also seen, without a run: the comment on `hash` in
`file_record.struct.json:26-28` says a file that changed after it was generated
"needs to be updated again", where `update.cpp:87-89` refuses it. A generated file in a rule's
`dependencies` is reported as undeclared when the depfile names it
(`update.cpp:194` looks at order-only dependencies, inputs having been taken out before), with the advice to
declare it there (`main.impl.cpp:171-172`). `README.md:110-112`
says that `upd` finds "all the files matching each of the patterns", where a file
goes to the first pattern it fits and to no other (`matcher.h:73`, as its tests have it; this
is what `FoundOnce` states), so that a pattern all of whose files fit earlier
ones is reported to have "matched no files on the filesystem" (`main.impl.cpp:160-162`). A
pattern ends silently at an empty name, as in `a//b` (`parse.cpp:16`). A size or an id from
2^28 on is written in five bytes or more and refused by the reader
(`read_impl.h:34-35`), which no log of a real project reaches. A command
that goes on writing into a depfile whose reader threw at a syntax error waits for ever in its
write, and `waitpid` (`run_command_line.cpp:89`) with it: `Terminates` of `pipes` names this as the
only wait without end. A manifest that is cut off, has an unknown field or a token where none
may be ends upd with an uncaught exception: `read_from_file.cpp:231-242` catches
three of the errors that `ErrorsAreAtTheFault` lists.

## 4. What is proved

`ExecuteUpdatePlan_proofs` proves, for every finite set of outputs, every update map,
every non-empty finite set of workers and every choice of targets, that each
safety property of `execute` is an invariant of `Spec`, and that `Spec`
implements `OrderedUpdate`. The assumptions are those named in the modules:
outputs are finite and disjoint from sources, `Deps` maps outputs to
sequences of files, workers are a non-empty finite set.

The properties are not inductive by themselves. `IInv` adds

* what the plan is made of: pending files are closed under producers, a file
  has a count exactly if it has a generated input, and the files that are neither
  queued nor in a worker's hands nor waiting for an input are those whose job
  failed;
* that a count is the number of slots still pending, which makes "reached zero"
  and "all inputs done" the same thing, so that erasing a file releases exactly
  the files for which it was the last input and none that is already queued;
* how a status and the place of its thread go together: a thread without a
  status does not exist, a running or ended command belongs to a worker in
  progress unless the pool is shut down, and a thread waits only when it has
  nothing to do;
* what the main thread knows where: no status is `finished` and some is
  `in_progress` while it waits, all workers are busy when files are left in the
  queue, and so on.

The proof goes action by action; the steps on `Erase` rest on lemmas about
counting slots (`EraseCount`: removing a file takes exactly its uses from
the slots of every other; `PushedQueue`, `PoppedQueue`: the queue keeps naming
each file once). `Refinement` follows: each action maps to one of OrderedUpdate's or to
a stutter. `JobsRunInOrder` is what it buys: OrderedUpdate keeps the inputs of a running job done for as
long as it runs, and so does whatever implements it.

`BuildUpdatePlan_proofs` proves that the plan the executor starts from, and each `erase` it makes, are
what the code computes: for every update map, cyclic or with repeated inputs, every choice and order of targets,
and with no assumption but that a rule names finitely many files, `PlanIsClosedForm`, `EraseIsClosedForm` and
`LeftoverIsCyclic` hold. While calls are on the stack, everything is stated of the slots *visited*: those in front of where
a call is, and all of a file whose call has returned. Descendants name a file once for each of its visited
slots (`DescendantsInv`); a call has counted the generated ones among its own (`StackInv`); only files whose call has returned have a count,
or are queued if they wait for nothing (`CountsInv`, `QueueInv`); visited slots lead to pending files, and every
closed set with the targets in it has all of these (`VisitedInv`, `PlannedInv`). When the stack is empty all slots are visited, which is
the closed form. While the plan is emptied (`DrainInv`), a count is the number of slots that are still
pending, the queue has the pending files without any, and no set of files that all wait for each other has
lost one: so what an empty queue leaves behind is exactly what is behind a cycle.

`CommandPipes_proofs` proves, for any workers, jobs, capacities and amounts of output, that
`OutputIsComplete`, `DepfileOutlivesCommand` and `NothingLeaks` hold. The invariant says, for each place a
worker can be at, which of its three ends are in `held` and which readers are at work
(`HeldInv`, `ReaderInv`), and that an end whose reader has ended is open nowhere (`EndInv`). The last is what
inheritance could break: `Spawn` copies `held`, and the ends of every job that is before its readers'
end are in `held` or their readers have not ended, so a copy is only ever taken of an end that is open, and
an end that is open nowhere stays so until its worker opens it anew with a new reader.

`UpdateLog_proofs` proves, for every finite set of entities no larger than the id space and every set
of values, with crashes anywhere and any number of runs, that `CacheMatchesLog`, `IndexMatchesFile` and
`ReadableAfterCrash` hold and that `UpdateLog` implements `DurableRecords`. A log is well-formed when it
starts with the version, can be read, and names each entity once, after its parent. `IInv` says that a log
is missing, empty, outdated or well-formed (`LogInv`); that the file of the recorder in use is well-formed
and its index gives each entity the place it has there, and that the path being named is known
as far as `task.depth` (`RecorderInv`); what the map in memory has to do
with the log (`CacheInv`), and with the temporary file while the log is rewritten (`RewriteInv`: that file has the
records dealt with so far). As ids are places, naming an entity must be one step with writing it, and the
next id is the number of entities: `NameEntityInv` is where 16 bits have to be enough. The refinement
(`LogIsDurable`) has one lemma per action, and takes from `IInv` what makes each of them fit: the log has the record at
`"recorded"` (`RecordReturnsReturns`); with nothing left unwritten the temporary file says what the log says (`RenameStops`);
and a log found corrupted can only be the empty one, so that deleting it loses nothing (`CorruptedStutters`). The reader is a
fold; the lemma `ReadAppended` says what one more entry does to it, and that is all the actions need.

`Readers_proofs` goes on below the entries: `EntriesAreRead` says of every log the recorder may write,
every place it may be cut off at, every size of the buffer and every way `read()` may return the bytes, that `EntriesSurvive` holds.
What it assumes of a log (`LogsAssumption`) is what `UpdateLog_proofs` proves of well-formed logs: entries name entities
written before them. Numbers come first: what `write_var_size_t` writes has the value it was given (`RoundTrip`, for numbers of any
size), all its bytes but the last are marked (`VarSizeShape`), and if it has `MaxBytes` of them or more the number does not fit (`LongIsLarge`). `EntryPlaces`
and `PartPlaces` say where in `LogBytes` each entry and each of its parts starts. Nothing in those bytes marks where an
entry begins, so the properties are not inductive: the reader would take any bytes for what `fields` asks. `IInv` says that
the bytes in `got` and `buffer` are those that follow in the file (`StreamInv`), that a number in progress has marked bytes
only (`SizeInv`), and that the place where it started is where part `j` of the next entry starts, for a `j` whose remaining
parts are what `fields` has and whose earlier parts are what `entry` has (`ParseInv`). Each `Get...` action then moves to the next part
(`Proceeds`), as the part tells by itself where it ends: it has the length asked for, or is a number whose last byte is not
marked (`NumberRead`). Where the end of the file meets the reader inside of an entry, the file is not the encoding of any
number of whole entries (`UnexpectedIsInside`).

Its second part is about the lexer of the manifest: `EveryTokenIsText` proves `TokensAreTheText` for every text. The property only
speaks of the end, when a wrong place may long have been made good or passed on; `LexerInv` says at every step what is
`Consumed`: all the lexer has read, less one character if that one is kept, be it by `has_lookahead_` or because a literal is being read, and
nothing less at the end of the file, where `good_` rather than a character is kept. What is consumed is whole tokens that fit (`TokensInv`), whitespace,
and then nothing more (`BetweenInv`), an opening quote and characters that do not close it, of which exactly the unescaped ones
are in the value (`StringInv`), or digits, with the value they make (`NumberInv`); and the locations are those of the place the lexer is at
(`PlaceFits`). `Reading` is what the lexer knows of the next character, whether it has been read just now or with the token before:
`BetweenReads` makes the two the same, so each action is proved once. Lines, columns and runs of backslashes are all
lengths of runs in the text, and `RunFacts` says what one more character does to these.

Its third part proves `WrittenIsRead` (`EveryRuleIsRead`): a rule with any number of dependencies, whose names have any characters, between
separators of any spaces and escaped newlines, is read as it was written. It is assumed only that names have
characters and separators are made of those two (`NamesAssumption`, `SeparatorsAssumption`). The tokenizer is a character ahead of the handler, and
that character may itself stand for two, so the reader is located by `Behind(o, c)`, the tokenizer after `o` characters of the text: it holds
what `Read` makes of what comes next (`ReadPlain`, `ReadEscaped`, `ReadEnd`), and `ReadNameChar` says that the loop over a string, with its
second call after a backslash, ends up behind the whole of an `EscapedChar`. `DepInv` says
that this place is one of the rule's, that `data` is the rule up to the dependency there, `name` the name as far as its character
there, and `state` what is expected there: in the target, at the colon, between the characters of a separator, in a dependency, at the newline, at the end. One lemma for each
of these places leads to the next (`TargetIsRead`, `ColonIsRead`, ...), with the reason why the tokenizer may look ahead without meeting
the end behind a backslash (`Legible`) and why a name ends where it does (`Breaks`).

Its last part proves `ReadsRules` (`EveryTextIsRead`) for every text, rules and others: what is returned is the rule of the text or nothing, and `parse`
throws exactly for the texts that are neither rule nor blank, or end in a backslash that escapes nothing. The two passes of the specification remove
places from a sequence, so a place of the tokenizer has one in each of the results (`PlainAt`, `MarkAt`, both from the lemma `Thinned`), and
`Facing` says that the tokenizer is in front of a certain mark: `RuleMark` and `NameMark` lead from each mark to the
next, the latter through the second call after a backslash that the first pass has left. From there on the proof is about marks only.
`Accounted` says that the marks in front of the tokenizer are in `name` (`NameSoFar`) or have been handled (`Handled`), and `Handled` what
these have been in each state: no name and no colon; one name; a target, its colon and no newline; a rule with its newline and spaces.
For each kind of mark there is a lemma for the states that take it (`MarkPassed`, `ColonPassed`, ...) and one for those that
throw (`ColonRefused`, ...), which shows that no continuation could make the text a rule. That names end before what is not part of one (`NamesEnd`)
is an induction along the marks.

`UpdateMap_proofs` proves `OutputsAreTheRules` and `CyclesNeedSharedPath` for every family of manifests whose
rules refer to existing source patterns, every set of patterns and every file tree. `IInv` relates the files stored and those still in `data`
to the rules dealt with (`FilesInv`: together they are what `Gathered` makes of the rule, and an output belongs to the
rule that stored it), and the captured paths of a rule to its outputs (`CapturedInv`). That a rule refers only to earlier ones, or
throws, makes the rule number a rank that falls along inputs, dependencies and order-only dependencies: a cycle would
need an output that is also matched as a source (`NeedsEarlier`, `NamedIsEarlier`).

The second half of that module is about the crawler: `EachFileIsFoundOnce` proves `FoundBySegments` for every list of patterns
that have a segment each, every file tree, and every order in which the file system and the hash map give
entries and directories. The crawler reads a directory once, with the bookmarks that have been gathered for it by then, and has
one flag to tell that an entry was matched; so the question is whether a bookmark can come too late, come twice, or come from a
pattern that has no claim. `Leads(segments, dir, s)` says, without the crawler, when the names of `dir` can be what the first `s - 1`
segments stand for, with `s` to be found next, and `LeadsOn` what that has to do with the parent of `dir`; a pattern fits a file if its last
segment is to be found in the directory and matches the name (`FitsEntry`), and leads somewhere in every directory above a file it fits
(`LeadsAbove`). `WalkInv` says that a directory that is read or pending has a bookmark for a segment exactly where its pattern leads,
in the order of the patterns (`BookmarksInv`; `Tried` is the same while the bookmarks of an entry are gone through, and makes the flag true
exactly if one of those tried so far has matched); that no two directories to be read lie one in the other, and what is unread of
the current one is in none of them (`Apart`); that what was found is for its first pattern, is listed once and does not lie ahead
(`MatchesInv`); and that what is to be found was found or lies ahead: below a pending directory, unread, or with the entry (`NothingMissed`).
The order of the bookmarks makes the first match of an entry the one of the first pattern (`TryFinds`).

`IncrementalUpdate_proofs` proves `RecordsAreTruthful`, `NoWorkTwice` and `LocalChangesKept`
for every update map whose rules name files, whatever commands report, with failures, refusals
and crashes anywhere, under the assumption that sources are edited between runs only
(`race` is what happens without it). Its `IInv` is about who may write a file
while others remember it: a file with a job is neither in the hash cache nor settled nor
covered by a record of a settled file or by a job in progress (`Undisturbed`), because what a record
covers is a source or something its rule declares (`LogInv`, which is why
`undeclared_rule_dependency_error` matters), and the plan lets a job start only when nothing it declares
is pending (`OrderInv`).
So the cache is always true of the disk (`CacheInv`), the command of a job
that has succeeded has read what will be recorded (`JobInv`), and a settled file is as recorded, and so
is all it was made from (`SettledInv`).

`SettledFresh` proves `SettledIsFresh` from it, for commands that are deterministic: which files a command reads
depends on nothing but the contents of the files it reads (`Deterministic`; `MCReportedAssumption` has TLC evaluate that for the
commands of `build`). Without it a command could start to read other files while none of those recorded changed, which nothing
could detect. `ReportInv` says that what is recorded was reported in *some* earlier state of the files that agrees
with the record on all it covers (`LogReports`), so that when the imprint still agrees, running the command again would
report the same (`SameReport`), and that the settled files were settled one after the other (`Grounded`: every set of them has
one that is made from none of the others). After n rounds of `Fresh`, then, at most all but n
of the settled files are still to be made, and those made are as they are on disk.

`Glob_proofs` proves, for every set of patterns and names over any characters, that the
matcher accepts a name exactly if it matches (`Correct`), that the indices it returns are the
leftmost cut (`IndicesAreFirst`), that they always cut what
has been matched (`PrefixesFit`) and stay in range (`TypeCorrect`). Only the last
wildcard is tried again, so the point is that no match is lost: `IInv` says that the matcher is never
to the right of *any* cut of the name. Up to the bookmark its indices are no greater than the
cut's, and behind it, where pieces have a fixed width, the cut is `ahead` characters
further at every place (`InReach`). A segment that matches keeps this (`Advance`), and a
wildcard that starts only starts a new distance. A mismatch shows that `ahead` is not zero for any
cut (`Stuck`), so moving the bookmark by one keeps them all in reach, and giving up
for want of room, or of a bookmark, means that there are none.

Folds and rounds are recursive *functions* over numbers. What they compute is proved by taking the set
of numbers for which the claim holds and the least number outside it (the lemma `Induction` of five of the
modules, from `NatLessThanWellFounded` of the library), as the library's own induction theorems take an operator as a
parameter, which the provers cannot instantiate.

The assumptions on constants (`PathsAssumption`, `AbsentAssumption`, `IdSpaceAssumption` of the log, `ManifestsAssumption`,
`RulesAssumption`, `TreesAssumption`, ...) are evaluated by TLC for the instances of section 3. Three of them leave something out that the code lets happen (sections 2 and 5): `IdSpaceAssumption`, logs with
more entities than ids; `ManifestsAssumption`, manifests that refer to a source pattern that is not there; and `PatternsAssumption`,
empty source patterns.

Only model-checked: every `Terminates` and everything about fairness (liveness is out
of the prover's reach); what the reader of the manifest's tokens returns (`ManifestIsMeaning`, `ErrorsAreAtTheFault`); that the segments the parser makes of a pattern string fit
what the string says (`FoundOnce`, where `FoundBySegments` is proved), and what is captured (`CapturesFit`, `OutputGroupsFit`), which needs
all the parser knows about where groups open and close. TLC checked each part of each
`IInv` invariant before it was proved.

## 5. What is not modelled

* Hash collisions, and the hash function; torn writes inside one `io::write` and power failure
  (`readers` shows what reading such a log does: it throws, and the log counts as corrupted).
* Commands that outlive a killed `upd` and write later; two `upd` processes in one directory; a
  manifest that changes between runs, and with it the records of files that no rule generates any
  more, which `cache.cpp:54` carries over for ever.
* The 65,537th entity of a log, whose id does not fit in 16 bits (`IdSpaceAssumption`).
* Patterns with a group that opens at the end of a name, for which `matcher.h:161` reads past the end
  of a vector, and empty patterns, which have no segment for `matcher.h:62` to read.
* What an error message says of a JSON token beyond its place; numbers from 2^24 on, which the float
  of the lexer rounds.
* Command line templates, path arithmetic, the creation of directories, option parsing, help,
  colours, wording: assembly of strings, with no state or order to get wrong.
* The exceptions of `schedule_file_update` (no temporary directory, no FIFO) count as those of
  the check before it; those of a system call in a worker's thread end the
  program (`RunThrows`): nothing catches them, and `std::terminate` is called without unwinding the
  stack, as compilers of today do. One that unwinds it would wait for the readers first, whose ends
  are still open.
* That a cyclic plan makes `execute_update_plan` spin is read off the code: `LeftoverIsBehindCycles`
  proves what stays pending.

## 6. How it was built, and what could follow

In this order: UpdatePlan and BuildUpdatePlan; OrderedUpdate and
ExecuteUpdatePlan with their proofs; DurableRecords and UpdateLog;
IncrementalUpdate; Glob with its proof, PathGlob and UpdateMap; Depfile and LogReader;
CommandPipes with its proof; JsonLexer and ManifestReader; IncrementalUpdate's proof, for which
its imprints became functions on sets of files; UpdateLog write by write, with its proof; UpdateMap's proof;
`Fresh` in rounds, and `SettledFresh`; BuildUpdatePlan call by call, with its proof; LogReader's proof, for which
an entry became a sequence of parts; the crawler's proof; the lexer's proof; the depfile reader's, for which the meaning of a text
became two passes that remove places from a sequence. What could follow:

1. A manifest that changes between runs, with UpdateMap feeding IncrementalUpdate and the
   records of abandoned outputs.
2. A second process on the same log, and an instance of UpdateLog with more entities than ids.
3. Proofs about the reader of the manifest's tokens.
