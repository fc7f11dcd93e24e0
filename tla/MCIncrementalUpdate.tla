------------------------- MODULE MCIncrementalUpdate -------------------------
(* A generated header g, a file t that includes it for one version of its   *)
(* source, and a file u made from g that for one version of the text of g   *)
(* includes t, which its rule does not declare.                             *)
EXTENDS IncrementalUpdate, TLC

CONSTANTS g, t, u, s, h, k

MCInputs    == g :> <<h>> @@ t :> <<s>> @@ u :> <<g>>
MCGroups    == g :> <<>>  @@ t :> <<>>  @@ u :> <<>>
MCOrderOnly == g :> <<>>  @@ t :> <<g>> @@ u :> <<>>

MCReported(f, view) ==
  CASE f = g -> {h}
    [] f = t -> IF view[s] = Written(s, 1) THEN {s, g, k} ELSE {s}
    [] f = u -> IF view[g] = Made(g, h :> Written(h, 1)) THEN {t} ELSE {}

(* What the proof of SettledIsFresh asks of commands.                      *)
ASSUME MCReportedAssumption ==
  DeterministicOn([Files -> {Written(s, 1), Made(g, h :> Written(h, 1))}])
==============================================================================
