---------------------------- MODULE MCWorkerPool ----------------------------
(* Small instances of WorkerPool for TLC: the constants come from the cfg *)
(* files.                                                                 *)
EXTENDS WorkerPool

(* Requests of both kinds. *)
MCKinds == {"good", "bad"}

=============================================================================
