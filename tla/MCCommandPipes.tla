--------------------------- MODULE MCCommandPipes ---------------------------
(***************************************************************************)
(* Two workers and three jobs, the first with a command that may write     *)
(* more than a pipe of one chunk holds. Every other command only has ends. *)
(***************************************************************************)
EXTENDS CommandPipes
CONSTANTS w1, w2
MCWorkers == {w1, w2}
MCChunks  == <<3, 0, 0>>
=============================================================================
