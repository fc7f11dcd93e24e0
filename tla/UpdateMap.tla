------------------------------ MODULE UpdateMap ------------------------------
(***************************************************************************)
(* From a manifest to an update map (src/gen_update_map.cpp): the source   *)
(* patterns are crawled, then each rule in turn resolves its output        *)
(* pattern for every file its inputs name, and what it generates can be    *)
(* the input of the rules after it.                                        *)
(***************************************************************************)
EXTENDS PathGlob, Substitution

CONSTANT Manifests    \* [source_patterns, rules], the patterns being strings

Input     == [type : {"source", "rule"}, ix : Nat \ {0}]
RulesWith(outputs) == [inputs : Seq(Input), dependencies : Seq(Input),
                       order_only_dependencies : Seq(Input), output : outputs]
InputsIn(rule)     == ToSet(rule.inputs) \cup ToSet(rule.dependencies)
                      \cup ToSet(rule.order_only_dependencies)

(* The code takes the index of a source pattern as the manifest has it.    *)
ASSUME ManifestsAssumption ==
  \A m \in Manifests :
    /\ m \in [source_patterns : Seq(Seq(STRING)), rules : Seq(RulesWith(Seq(STRING)))]
    /\ \A r \in DOMAIN m.rules : \A input \in InputsIn(m.rules[r]) :
         input.type = "source" => input.ix \in DOMAIN m.source_patterns

(* The crawler takes the first segment of a pattern without a look.        *)
ASSUME PatternsAssumption ==
  \A m \in Manifests : \A i \in DOMAIN m.source_patterns :
    Parse(m.source_patterns[i]).segments # <<>>

(* read_from_file(): patterns are parsed as the manifest is read.          *)
ReadManifest(m) ==
  [source_patterns |-> [i \in DOMAIN m.source_patterns |-> ParsedPattern(m.source_patterns[i])],
   rules |-> [r \in DOMAIN m.rules |-> [m.rules[r] EXCEPT !.output = ParsedOutput(@)]]]

VARIABLES
  manifest,
  phase,              \* "crawl", "rules", "done" or the error thrown
  sources,            \* what crawl_source_patterns returned
  rule,               \* the rule the loop is at
  data,               \* data_by_path, what is not yet stored of it
  output_files,       \* output_files_by_path, with the rule of each output
  captured_paths      \* rule_captured_paths

mapping == <<manifest, sources, rule, data, output_files, captured_paths>>
vars    == <<crawl, phase, mapping>>

Nothing == [p \in {} |-> p]

Init ==
  /\ manifest \in {ReadManifest(m) : m \in Manifests}
  /\ CrawlInit(manifest.source_patterns)
  /\ phase = "crawl" /\ sources = <<>> /\ rule = 0 /\ data = Nothing
  /\ output_files = Nothing
  /\ captured_paths = [r \in DOMAIN manifest.rules |-> <<>>]

Crawl == phase = "crawl" /\ CrawlNext /\ UNCHANGED <<phase, mapping>>

(* The end of crawl_source_patterns(): a pattern that was given no file is *)
(* an error; the files of each are sorted, into some order of their paths. *)
EndCrawl ==
  /\ phase = "crawl" /\ Crawled
  /\ IF \E i \in DOMAIN matches : matches[i] = <<>>
     THEN phase' = "no_source_matches" /\ UNCHANGED sources
     ELSE /\ phase' = "rules"
          /\ sources' = [i \in DOMAIN matches |->
               SetToSeq({[value |-> Text(m.value), groups |-> m.groups] : m \in ToSet(matches[i])})]
  /\ UNCHANGED <<crawl, manifest, rule, data, output_files, captured_paths>>

-----------------------------------------------------------------------------
Captures(input) == IF input.type = "source" THEN sources[input.ix] ELSE captured_paths[input.ix]
CapturesOf(inputs) == FlattenSeq([k \in DOMAIN inputs |-> Captures(inputs[k])])
Values(captures)   == [k \in DOMAIN captures |-> captures[k].value]

RefersToLater(input, r) == input.type = "rule" /\ input.ix >= r

(* What goes wrong first when rule r is read: its inputs in order, then    *)
(* its dependencies.                                                       *)
RuleError(r) ==
  LET d == manifest.rules[r]
      InputError(input) ==
        IF RefersToLater(input, r) THEN "cannot_refer_to_later_rule"
        ELSE IF \E c \in ToSet(Captures(input)) : ~Resolvable(d.output.segments, c)
        THEN "no_such_captured_group" ELSE "none"
      DependencyError(dep) == IF RefersToLater(dep, r) THEN "cannot_refer_to_later_rule" ELSE "none"
      deps   == d.dependencies \o d.order_only_dependencies
      errors == [k \in DOMAIN d.inputs |-> InputError(d.inputs[k])]
                \o [k \in DOMAIN deps |-> DependencyError(deps[k])]
      wrong  == {k \in DOMAIN errors : errors[k] # "none"}
  IN  IF wrong = {} THEN "none" ELSE errors[Min(wrong)]

(* Mutant: an output has the last input that resolves to it.               *)
GatherLast(gathered, segments, c) ==
  LET output == Resolve(segments, c)
  IN  [path \in DOMAIN gathered \cup {output.value} |->
         IF path # output.value THEN gathered[path]
         ELSE [inputs |-> <<c.value>>, starts |-> output.starts]]

(* An input is one more of the output it resolves to; where the segments   *)
(* of that output start is taken from it.                                  *)
Gather(gathered, segments, c) ==
  LET output == Resolve(segments, c)
      before == IF output.value \in DOMAIN gathered THEN gathered[output.value].inputs ELSE <<>>
  IN  [path \in DOMAIN gathered \cup {output.value} |->
         IF path # output.value THEN gathered[path]
         ELSE [inputs |-> Append(before, c.value), starts |-> output.starts]]

(* data_by_path, once it has all inputs of the rule.                       *)
Gathered(segments, captures) ==
  LET After[k \in 0..Len(captures)] ==
        IF k = 0 THEN Nothing ELSE Gather(After[k - 1], segments, captures[k])
  IN  After[Len(captures)]

GatherRule ==
  LET r == rule + 1
      d == manifest.rules[r]
  IN  /\ phase = "rules" /\ DOMAIN data = {} /\ rule < Len(manifest.rules)
      /\ rule' = r
      /\ IF RuleError(r) # "none"
         THEN phase' = RuleError(r) /\ UNCHANGED data
         ELSE /\ data' = Gathered(d.output.segments, CapturesOf(d.inputs))
              /\ UNCHANGED phase
      /\ UNCHANGED <<crawl, manifest, sources, output_files, captured_paths>>

OutputFile(path) ==
  LET d == manifest.rules[rule]
  IN  [rule |-> rule, inputs |-> data[path].inputs,
       dependencies |-> [k \in DOMAIN d.dependencies |-> Values(Captures(d.dependencies[k]))],
       order_only_dependencies |-> ToSet(Values(CapturesOf(d.order_only_dependencies)))]

(* Mutant: an output that another rule generates already is overwritten.   *)
StoreOverwrites ==
  /\ phase = "rules"
  /\ \E path \in DOMAIN data :
       /\ data' = Restrict(data, DOMAIN data \ {path})
       /\ output_files' = [p \in DOMAIN output_files \cup {path} |->
            IF p = path THEN OutputFile(path) ELSE output_files[p]]
       /\ captured_paths' = [captured_paths EXCEPT ![rule] = Append(@,
            Capture(manifest.rules[rule].output.capture_groups, path, data[path].starts))]
  /\ UNCHANGED <<crawl, manifest, phase, sources, rule>>

(* An output of the rule is stored; which comes first is up to a hash map. *)
StoreOutput ==
  /\ phase = "rules"
  /\ \E path \in DOMAIN data :
       IF path \in DOMAIN output_files
       THEN phase' = "duplicate_output" /\ UNCHANGED <<data, output_files, captured_paths>>
       ELSE /\ data' = Restrict(data, DOMAIN data \ {path})
            /\ output_files' = [p \in DOMAIN output_files \cup {path} |->
                 IF p = path THEN OutputFile(path) ELSE output_files[p]]
            /\ captured_paths' = [captured_paths EXCEPT ![rule] = Append(@,
                 Capture(manifest.rules[rule].output.capture_groups, path, data[path].starts))]
            /\ UNCHANGED phase
  /\ UNCHANGED <<crawl, manifest, sources, rule>>

Return ==
  /\ phase = "rules" /\ DOMAIN data = {} /\ rule = Len(manifest.rules)
  /\ phase' = "done"
  /\ UNCHANGED <<crawl, mapping>>

Errors == {"no_source_matches", "cannot_refer_to_later_rule", "no_such_captured_group",
           "duplicate_output"}
Finished == phase \in Errors \cup {"done"}

(* The program returns or has thrown; any other state without a successor  *)
(* is a deadlock for TLC.                                                  *)
Done == Finished /\ UNCHANGED vars

Next == Crawl \/ EndCrawl \/ GatherRule \/ StoreOutput \/ Return \/ Done
Spec == Init /\ [][Next]_vars

-----------------------------------------------------------------------------
InputsOf(r)   == ToSet(CapturesOf(manifest.rules[r].inputs))
SegmentsOf(r) == manifest.rules[r].output.segments
OutputOf(r, c) == Resolve(SegmentsOf(r), c).value

(* The map holds what the rules say and nothing else: each file a rule     *)
(* takes as input is an input of the output it resolves to, that output    *)
(* belongs to the rule, and an output has no other inputs. In particular   *)
(* no two rules generate the same file, and a rule sees all that the       *)
(* earlier rules it names generate (gen_update_map.cpp:81-127).            *)
OutputsAreTheRules ==
  phase = "done" =>
    /\ \A r \in DOMAIN manifest.rules : \A c \in InputsOf(r) :
         /\ OutputOf(r, c) \in DOMAIN output_files
         /\ output_files[OutputOf(r, c)].rule = r
         /\ Contains(output_files[OutputOf(r, c)].inputs, c.value)
    /\ \A path \in DOMAIN output_files : \A v \in ToSet(output_files[path].inputs) :
         \E c \in InputsOf(output_files[path].rule) :
           c.value = v /\ OutputOf(output_files[path].rule, c) = path

(* A group captured in an output is what its part of the output pattern    *)
(* resolves to for one of the inputs: later rules get the text between the *)
(* parentheses, even where several inputs are merged into one output or a  *)
(* placeholder stands for an empty text.                                   *)
OutputGroupsFit ==
  phase = "done" => \A r \in DOMAIN manifest.rules : \A out \in ToSet(captured_paths[r]) :
    \E c \in InputsOf(r) :
      /\ OutputOf(r, c) = out.value
      /\ \A g \in DOMAIN out.groups :
           LET bounds == manifest.rules[r].output.capture_groups[g]
           IN  SubString(out, g) = FlattenSeq([k \in 1..(bounds[2] - bounds[1]) |->
                                     SegmentText(SegmentsOf(r)[bounds[1] + k - 1], c)])

Needs(p, q) == \/ Contains(output_files[p].inputs, q)
               \/ \E d \in ToSet(output_files[p].dependencies) : Contains(d, q)
               \/ q \in output_files[p].order_only_dependencies

SourceTexts == UNION {ToSet(Values(sources[i])) : i \in DOMAIN sources}

(* Since a rule can only name earlier ones, files cannot need each other   *)
(* in a circle, which the plan could never carry out, unless a generated   *)
(* file is at the same time a source file that a pattern finds             *)
(* (gen_update_map.cpp:88-90, 41, 62, 111-116).                            *)
CyclesNeedSharedPath ==
  phase = "done" /\ DOMAIN output_files \cap SourceTexts = {}
    => \A S \in SUBSET DOMAIN output_files :
         S # {} => \E p \in S : \A q \in S : ~Needs(p, q)
==============================================================================
