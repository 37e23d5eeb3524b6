----------------------------- MODULE WorkerPool -----------------------------
(***************************************************************************)
(* The worker process of src/src/worker/pyexec.cpp at the level of its    *)
(* threads: main sets the process up, opens the ConnectionAcceptor, then  *)
(* creates the pool one thread at a time, each thread running             *)
(* io_service.run() (ThreadFun) from the moment it is created, and only   *)
(* afterwards registers the thread's FIFOs in threadInfo (OnThreadCreate).*)
(* Pool threads accept connections and run the sessions' handlers; a      *)
(* request ParseRequest rejects throws out of the handler, through        *)
(* io_service.run(), and ends the thread in ThreadFun's catch.  SIGTERM   *)
(* exits the process through AtExit.                                      *)
(*                                                                         *)
(* A connection carries one request of a kind: "good" (ParseRequest       *)
(* succeeds) or "bad" (read_json or a ptree.get throws).  What a good     *)
(* request does once its thread forks is WorkerSandbox's subject; here    *)
(* only whose FIFOs it uses is recorded.                                  *)
(***************************************************************************)
EXTENDS Naturals, FiniteSets

CONSTANTS
    NumThread,      \* numThread, from --num_thread (0 when it is not given)
    MaxConns,       \* connections the master opens in a run
    Kinds,          \* the kinds of request they carry, within {"good", "bad"}
    BindMayFail     \* whether bind/listen on the port may fail

ASSUME PoolAssumption ==
    /\ NumThread \in Nat
    /\ MaxConns \in Nat
    /\ Kinds \subseteq {"good", "bad"}
    /\ BindMayFail \in BOOLEAN

Threads == 1..NumThread     \* the pool threads, in order of creation
Conns == 1..MaxConns
NoFifo == 0                 \* the value-initialised ThreadParams: fd 0

VARIABLES
    mainPc,       \* where the main thread is: "setup", "spawn" (about to
                  \* create a thread), "register" (OnThreadCreate pending),
                  \* "wait" (in sigwait) or "exited"
    spawned,      \* threads created so far
    registered,   \* threads whose threadInfo entry OnThreadCreate has set
    dead,         \* threads whose io_service.run() ended with an exception
    listening,    \* bind and listen succeeded in the acceptor's constructor
    accepting,    \* an async_accept is outstanding
    kind,         \* the kind of request each connection carries
    conn,         \* "backlog", "accepted", "answered", "dropped" (the
                  \* handler threw) or "closed" (the process exited)
    fifoOf        \* the thread whose FIFOs the request's fork used

vars == << mainPc, spawned, registered, dead, listening, accepting, kind,
           conn, fifoOf >>

(* The threads of the pool that are inside io_service.run().               *)
Running == IF mainPc = "exited" THEN {} ELSE (1..spawned) \ dead

(* Every connection not answered yet is closed when the process exits.     *)
CloseAll == conn' = [c \in Conns |-> IF conn[c] = "answered" THEN "answered"
                                                             ELSE "closed"]

(* main up to the acceptor: signal handlers, atexit(AtExit), options,     *)
(* config, language runtime; SetupPyExecIPC succeeds.                      *)
BindOutcome == IF BindMayFail THEN BOOLEAN ELSE {TRUE}
Setup ==
    /\ mainPc = "setup"
    /\ listening' \in BindOutcome
    /\ accepting' = TRUE
    /\ mainPc' = IF NumThread = 0 THEN "wait" ELSE "spawn"
    /\ UNCHANGED << spawned, registered, dead, kind, conn, fifoOf >>

(* SetupPyExecIPC cannot open the shared memory: exit(1), AtExit.          *)
SetupFails ==
    /\ mainPc = "setup"
    /\ mainPc' = "exited"
    /\ CloseAll
    /\ UNCHANGED << spawned, registered, dead, listening, accepting, kind,
                    fifoOf >>

(* worker_threads.create_thread: the new thread is already running.        *)
CreateThread ==
    /\ mainPc = "spawn"
    /\ spawned' = spawned + 1
    /\ mainPc' = "register"
    /\ UNCHANGED << registered, dead, listening, accepting, kind, conn, fifoOf >>

(* OnThreadCreate: threadInfo[id] = threadParams, after the thread runs.   *)
RegisterThreadOffByOne ==
    /\ mainPc = "register"
    /\ registered' = registered \cup {spawned + 1}
    /\ mainPc' = IF spawned = NumThread THEN "wait" ELSE "spawn"
    /\ UNCHANGED << spawned, dead, listening, accepting, kind, conn, fifoOf >>
RegisterThread ==
    /\ mainPc = "register"
    /\ registered' = registered \cup {spawned}
    /\ mainPc' = IF spawned = NumThread THEN "wait" ELSE "spawn"
    /\ UNCHANGED << spawned, dead, listening, accepting, kind, conn, fifoOf >>

(* HandleAccept on thread t: post Session::Start and StartAccept again.   *)
AcceptNoRearm(t, c) ==
    /\ t \in Running /\ accepting /\ listening
    /\ conn[c] = "backlog"
    /\ conn' = [conn EXCEPT ![c] = "accepted"]
    /\ accepting' = FALSE
    /\ UNCHANGED << mainPc, spawned, registered, dead, listening, kind, fifoOf >>
Accept(t, c) ==
    /\ t \in Running /\ accepting /\ listening
    /\ conn[c] = "backlog"
    /\ conn' = [conn EXCEPT ![c] = "accepted"]
    /\ UNCHANGED << mainPc, spawned, registered, dead, listening, accepting,
                    kind, fifoOf >>

(* HandleAccept with an error (the acceptor never listened): it is logged *)
(* and no accept is started again.                                         *)
AcceptError(t) ==
    /\ t \in Running /\ accepting /\ ~listening
    /\ accepting' = FALSE
    /\ UNCHANGED << mainPc, spawned, registered, dead, listening, kind, conn,
                    fifoOf >>

(* Job::ParseRequest returns without throwing.                             *)
Parses(c) == kind[c] = "good"

(* threadInfo[this_thread] in DoFork: operator[] inserts a                *)
(* value-initialised entry when OnThreadCreate has not run yet.            *)
FifoOf(t) == IF t \in registered THEN t ELSE NoFifo

(* threadInfo is a std::map that OnThreadCreate writes without a lock     *)
(* while the pool threads look their entries up in DoFork: a lookup that  *)
(* overlaps main's insert is a data race, with undefined behaviour.  Such *)
(* a lookup may find the thread's entry or miss it and insert a           *)
(* value-initialised one, whichever thread it runs on.  (A crash is       *)
(* already a behaviour, through the exit of SigTerm.)                     *)
LookupOutcomes(t) ==
    IF mainPc = "register" THEN {FifoOf(t), NoFifo} ELSE {FifoOf(t)}

(* Session::HandleRequest on thread t for a request that parses: the      *)
(* script is executed with the thread's FIFOs and the response written.    *)
Serve(t, c) ==
    /\ t \in Running
    /\ conn[c] = "accepted" /\ Parses(c)
    /\ conn' = [conn EXCEPT ![c] = "answered"]
    /\ \E f \in LookupOutcomes(t) : fifoOf' = [fifoOf EXCEPT ![c] = f]
    /\ UNCHANGED << mainPc, spawned, registered, dead, listening, accepting,
                    kind >>

(* ParseRequest throws: the exception leaves the handler and              *)
(* io_service.run(); ThreadFun logs it and the thread ends.  The session  *)
(* is released and its socket closed.                                     *)
HandlerThrows(t, c) ==
    /\ t \in Running
    /\ conn[c] = "accepted" /\ ~Parses(c)
    /\ conn' = [conn EXCEPT ![c] = "dropped"]
    /\ dead' = dead \cup {t}
    /\ UNCHANGED << mainPc, spawned, registered, listening, accepting, kind,
                    fifoOf >>

(* SigHandler(SIGTERM): exit(0), which runs AtExit (FIFOs closed and       *)
(* unlinked, shared memory released, SIGTERM to the parent).               *)
SigTerm ==
    /\ mainPc # "exited"
    /\ mainPc' = "exited"
    /\ CloseAll
    /\ UNCHANGED << spawned, registered, dead, listening, accepting, kind,
                    fifoOf >>

Init ==
    /\ mainPc = "setup"
    /\ spawned = 0
    /\ registered = {}
    /\ dead = {}
    /\ listening = FALSE
    /\ accepting = FALSE
    /\ kind \in [Conns -> Kinds]
    /\ conn = [c \in Conns |-> "backlog"]
    /\ fifoOf = [c \in Conns |-> NoFifo]

MainStep == Setup \/ CreateThread \/ RegisterThread

ThreadStep(t) ==
    \/ \E c \in Conns : Accept(t, c) \/ Serve(t, c) \/ HandlerThrows(t, c)
    \/ AcceptError(t)

Next == MainStep \/ SetupFails \/ SigTerm \/ \E t \in Threads : ThreadStep(t)

(* The main thread runs its setup to the end, and every pool thread that  *)
(* has a ready handler eventually runs one (asio hands ready handlers to   *)
(* the threads inside run()).  SIGTERM and setup failure are not forced.  *)
Fairness == WF_vars(MainStep) /\ \A t \in Threads : WF_vars(ThreadStep(t))

Spec == Init /\ [][Next]_vars /\ Fairness

-----------------------------------------------------------------------------
(* Every variable holds a value of its intended type.                      *)
TypeOK ==
    /\ mainPc \in {"setup", "spawn", "register", "wait", "exited"}
    /\ spawned \in 0..NumThread
    /\ registered \subseteq Threads
    /\ dead \subseteq Threads
    /\ listening \in BOOLEAN /\ accepting \in BOOLEAN
    /\ kind \in [Conns -> Kinds]
    /\ conn \in [Conns -> {"backlog", "accepted", "answered", "dropped",
                           "closed"}]
    /\ fifoOf \in [Conns -> Threads \cup {NoFifo}]

(* A good request is about to be or being served.                          *)
Pending(c) == conn[c] \in {"backlog", "accepted"} /\ kind[c] = "good"

(* Spec: every request the master sends a live worker is answered.  A good *)
(* request on a connection the worker holds is eventually answered, unless *)
(* the process exits.                                                      *)
RequestsServed ==
    \A c \in Conns : Pending(c) ~> (conn[c] = "answered" \/ mainPc = "exited")

(* The pool only stalls a good request when it has lost every thread to   *)
(* exceptions from HandleRequest (or never had one), when the acceptor    *)
(* never listened, or when the process exits: accept re-arming, handler   *)
(* dispatch and the thread-creation loop never strand a request.          *)
ServedUnlessPoolLost ==
    \A c \in Conns :
        Pending(c) ~> \/ conn[c] = "answered"
                      \/ mainPc = "exited"
                      \/ dead = Threads
                      \/ ~listening

(* Every request a thread forks for uses the FIFOs OnThreadCreate made for *)
(* that thread, never the value-initialised entry (fd 0, no paths) that    *)
(* operator[] inserts when the thread runs before it is registered.        *)
FifosRegisteredBeforeUse ==
    \A c \in Conns : conn[c] = "answered" => fifoOf[c] # NoFifo


=============================================================================
