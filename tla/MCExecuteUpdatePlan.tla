------------------------ MODULE MCExecuteUpdatePlan ------------------------
(* A diamond whose bottom names one of its inputs twice, and a file of its  *)
(* own beside it, for two workers.                                          *)
EXTENDS ExecuteUpdatePlan, TLC

CONSTANTS a, b, c, d, e, src

MCDeps == a :> <<src>> @@ b :> <<a>> @@ c :> <<a, src, a>> @@ d :> <<b, c>> @@ e :> <<src>>
============================================================================
