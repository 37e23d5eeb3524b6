-------------------------- MODULE MCWorkerSandbox --------------------------
(* Small instances of WorkerSandbox for TLC: the constants come from the *)
(* cfg files.                                                             *)
EXTENDS WorkerSandbox

(* The scripts of two requests fill the write FIFO. *)
MCFifoCap == 2

=============================================================================
