--------------------------- MODULE DurableRecords ---------------------------
(***************************************************************************)
(* What the update log promises to the program that records in it: a map   *)
(* from output files to their last record that outlives the program. The   *)
(* recording of a file sets that file's record, and returns only once it   *)
(* is set. Nothing else changes the map: neither the beginning of a run    *)
(* nor its end, be it a crash in the middle of a recording or one that     *)
(* comes after the log was rewritten.                                      *)
(***************************************************************************)
CONSTANTS Paths, Records

VARIABLES
  store,         \* a function from some of Paths to Records
  status,        \* "down" between two runs, else "idle" or "recording"
  request        \* what is being recorded, and for which file

vars == <<store, status, request>>

NoRecords == [p \in {} |-> p]
NoRequest == [path |-> <<>>, record |-> <<>>]

Init == store = NoRecords /\ status = "down" /\ request = NoRequest

(* A run begins with the records there are.                                *)
Start ==
  /\ status = "down" /\ status' = "idle"
  /\ UNCHANGED <<store, request>>

Record(p, r) ==
  /\ status = "idle" /\ status' = "recording"
  /\ request' = [path |-> p, record |-> r]
  /\ UNCHANGED store

(* The file has the new record, every other file the one it had.           *)
Put ==
  /\ status = "recording"
  /\ store' = [p \in DOMAIN store \cup {request.path} |->
                 IF p = request.path THEN request.record ELSE store[p]]
  /\ UNCHANGED <<status, request>>

Return ==
  /\ status = "recording" /\ status' = "idle"
  /\ request.path \in DOMAIN store /\ store[request.path] = request.record
  /\ request' = NoRequest
  /\ UNCHANGED store

(* The run is over, or the process dies.                                   *)
Stop ==
  /\ status # "down" /\ status' = "down"
  /\ request' = NoRequest
  /\ UNCHANGED store

Next ==
  \/ Start \/ Put \/ Return \/ Stop
  \/ \E p \in Paths, r \in Records : Record(p, r)

Spec == Init /\ [][Next]_vars
==============================================================================
