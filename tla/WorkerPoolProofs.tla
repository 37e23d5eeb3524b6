-------------------------- MODULE WorkerPoolProofs --------------------------
(***************************************************************************)
(* Proofs about the worker process's thread pool (WorkerPool), for every  *)
(* number of threads and connections.                                     *)
(*                                                                         *)
(* TypeOK is not inductive: CreateThread keeps spawned within NumThread   *)
(* only because main's loop leaves "spawn" once the last thread is made,  *)
(* and RegisterThread keeps registered within Threads only because main   *)
(* reaches "register" after creating a thread.                           *)
(***************************************************************************)
EXTENDS WorkerPool, TLAPS

USE PoolAssumption DEF Threads, Conns, NoFifo

(* Where main's loop in main() stands relative to the threads it made.    *)
MainLoopInv ==
    /\ mainPc = "setup" => spawned = 0
    /\ mainPc = "spawn" => spawned < NumThread
    /\ mainPc = "register" => spawned \in 1 .. NumThread

PoolInv ==
    /\ TypeOK
    /\ MainLoopInv

LEMMA InitPoolInv == Init => PoolInv
<1> SUFFICES ASSUME Init PROVE PoolInv
  OBVIOUS
<1>1. /\ mainPc \in {"setup", "spawn", "register", "wait", "exited"}
      /\ spawned \in 0..NumThread
      /\ registered \subseteq Threads
      /\ dead \subseteq Threads
  BY DEF Init
<1>2. listening \in BOOLEAN /\ accepting \in BOOLEAN
  BY Zenon DEF Init
<1>3. kind \in [Conns -> Kinds]
  BY DEF Init
<1>4. conn \in [Conns -> {"backlog", "accepted", "answered", "dropped", "closed"}]
  BY DEF Init
<1>5. fifoOf \in [Conns -> Threads \cup {NoFifo}]
  BY DEF Init
<1>6. MainLoopInv
  BY DEF Init, MainLoopInv
<1>. QED
  BY <1>1, <1>2, <1>3, <1>4, <1>5, <1>6 DEF PoolInv, TypeOK

(* The connection steps of thread t and SIGTERM leave main's loop, the    *)
(* created threads and their registration alone.                          *)
LEMMA ThreadStepKeepsMain ==
    ASSUME NEW t \in Threads, ThreadStep(t)
    PROVE  UNCHANGED << mainPc, spawned, registered >>
BY DEF ThreadStep, Accept, AcceptError, Serve, HandlerThrows

LEMMA NextPoolInv == PoolInv /\ [Next]_vars => PoolInv'
<1> SUFFICES ASSUME PoolInv, [Next]_vars
             PROVE  PoolInv'
  OBVIOUS
<1> USE DEF PoolInv
<1>0. listening' \in BOOLEAN /\ accepting' \in BOOLEAN
  <2>1. listening \in BOOLEAN /\ accepting \in BOOLEAN
    BY DEF TypeOK
  <2>2. CASE Setup
    BY <2>2, Zenon DEF Setup, BindOutcome
  <2>3. ASSUME NEW t \in Threads, AcceptError(t) PROVE listening' \in BOOLEAN /\ accepting' \in BOOLEAN
    BY <2>1, <2>3, Zenon DEF AcceptError
  <2>4. CASE ~Setup /\ ~\E t \in Threads : AcceptError(t)
    BY <2>1, <2>4, Zenon DEF Next, MainStep, ThreadStep, SetupFails, CreateThread,
                         RegisterThread, SigTerm, Accept, Serve, HandlerThrows, vars
  <2>. QED
    BY <2>2, <2>3, <2>4
<1>1. CASE Setup
  BY <1>0, <1>1 DEF Setup, TypeOK, MainLoopInv
<1>2. CASE SetupFails
  BY <1>0, <1>2 DEF SetupFails, CloseAll, TypeOK, MainLoopInv
<1>3. CASE CreateThread
  BY <1>0, <1>3 DEF CreateThread, TypeOK, MainLoopInv
<1>4. CASE RegisterThread
  <2>1. spawned \in 1 .. NumThread
    BY <1>4 DEF RegisterThread, MainLoopInv
  <2>. QED
    BY <1>0, <1>4, <2>1 DEF RegisterThread, TypeOK, MainLoopInv
<1>5. CASE SigTerm
  BY <1>0, <1>5 DEF SigTerm, CloseAll, TypeOK, MainLoopInv
<1>6. ASSUME NEW t \in Threads, ThreadStep(t) PROVE PoolInv'
  <2>1. UNCHANGED << mainPc, spawned, registered >>
    BY <1>6, ThreadStepKeepsMain
  <2>2. MainLoopInv'
    BY <2>1 DEF MainLoopInv
  <2>3. ASSUME NEW c \in Conns, Accept(t, c) PROVE TypeOK'
    BY <1>0, <2>3 DEF Accept, TypeOK
  <2>4. ASSUME NEW c \in Conns, Serve(t, c) PROVE TypeOK'
    <3>1. LookupOutcomes(t) \subseteq Threads \cup {NoFifo}
      BY DEF LookupOutcomes, FifoOf, TypeOK
    <3>. QED
      BY <1>0, <2>4, <3>1 DEF Serve, TypeOK
  <2>5. ASSUME NEW c \in Conns, HandlerThrows(t, c) PROVE TypeOK'
    BY <1>0, <2>5 DEF HandlerThrows, TypeOK
  <2>6. ASSUME AcceptError(t) PROVE TypeOK'
    <3>1. UNCHANGED << mainPc, spawned, registered, dead, kind, conn, fifoOf >>
      BY <2>6 DEF AcceptError
    <3>. QED
      BY <1>0, <3>1 DEF TypeOK
  <2>7. TypeOK'
    BY <1>6, <2>3, <2>4, <2>5, <2>6 DEF ThreadStep
  <2>. QED
    BY <2>2, <2>7
<1>7. CASE UNCHANGED vars
  BY <1>7 DEF vars, TypeOK, MainLoopInv
<1>. QED
  BY <1>1, <1>2, <1>3, <1>4, <1>5, <1>6, <1>7 DEF Next, MainStep

(* The worker's state always has the types TypeOK states, whatever        *)
(* --num_thread is: main's loop never creates more than numThread threads  *)
(* and registers only threads it has created.                              *)
THEOREM TypeCorrect == Spec => []TypeOK
<1>1. Spec => []PoolInv
  BY InitPoolInv, NextPoolInv, PTL DEF Spec
<1>. QED
  BY <1>1, PTL DEF PoolInv

=============================================================================
