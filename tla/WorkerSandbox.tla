--------------------------- MODULE WorkerSandbox ---------------------------
(***************************************************************************)
(* The worker's execution sandbox (src/src/worker/pyexec.cpp): one worker *)
(* thread serving the requests of one Session, the thread's pair of named *)
(* pipes created by OnThreadCreate, and the child processes DoFork starts. *)
(*                                                                         *)
(* For each request the thread runs Session::HandleRequest, which calls   *)
(* ScriptExec::Execute: fork, then DoFifoIO on the write FIFO (the script  *)
(* for the child) and, if that succeeded, on the read FIFO (the int the    *)
(* child reports), each bounded by poll( timeout * 1000 ); on a poll       *)
(* timeout KillExec sends SIGTERM.  Then the session re-arms its read and  *)
(* sends job_'s error code.  The thread blocks in poll while the child     *)
(* runs, so the child's steps interleave with the thread's.                *)
(*                                                                         *)
(* The FIFOs are opened O_RDWR by the worker and live as long as the       *)
(* thread, and every child of the thread opens the same two paths: bytes   *)
(* a killed child did not read, or wrote too late, stay for the next task. *)
(* A script and a result are each one token tagged with the task whose     *)
(* script it is; the child side (the node driver scripts, not in src) is   *)
(* modelled from the protocol of spec section 4.3.                         *)
(***************************************************************************)
EXTENDS Naturals, Sequences

CONSTANTS
    MaxTasks,      \* requests the session receives
    FifoCap,       \* scripts the write FIFO holds before a write would block
    Timeouts,      \* signs poll's timeout argument can take: "positive", "negative"
    ForkMayFail    \* whether fork() may return -1

ASSUME SandboxAssumption ==
    /\ MaxTasks \in Nat
    /\ FifoCap \in Nat \ {0}
    /\ Timeouts \subseteq {"positive", "negative"}
    /\ Timeouts # {}
    /\ ForkMayFail \in BOOLEAN

Tasks == 1 .. MaxTasks

(* The int the node driver writes back: 0, or the script's failure. *)
ChildCodes == {"OK", "ScriptError"}

(* Values job_.errCode_ can hold: a child's code (never stored, see     *)
(* DoFifoIO) and the NODE_* codes of OnError.                            *)
ErrCodes == ChildCodes \cup {"Fatal", "Timeout", "LangNotSupported"}

(* A script token in the write FIFO: whose script, and whether write()   *)
(* put all of GetScriptLength() bytes there or only a prefix.            *)
Script == [task : Tasks, whole : BOOLEAN]

(* A result token in the read FIFO: the task whose script the child ran. *)
Result == [task : Tasks, code : ChildCodes]

NoResult == [task |-> 0, code |-> "none"]

ChildStates == {"none", "starting", "running", "stuck", "done", "exited", "killed"}

VARIABLES
    pc,         \* where the worker thread is in the session's handlers
    cur,        \* the number of the request being handled
    tmo,        \* the sign of the current request's poll timeout
    errCode,    \* job_.errCode_ of the Session's Job member
    fifoFD,     \* fifoFD["w"], fifoFD["r"]: whether CreateFifo gave an fd
    toChild,    \* the write FIFO: scripts not yet read by a child
    toParent,   \* the read FIFO: results not yet read by the worker
    child,      \* child[t]: the child process forked for request t
    script,     \* script[t]: whose script child t read (0: none yet)
    res,        \* the result DoFifoIO read for the current request
    responses   \* the responses the session wrote, in order

vars == <<pc, cur, tmo, errCode, fifoFD, toChild, toParent, child, script,
          res, responses>>

-----------------------------------------------------------------------------
(* The worker thread *)

(* Job::OnError *)
OnError(e) == errCode' = e

(* Mutant: after the error response the session Starts another read.    *)
FirstReadBadHeaderKeepsReading ==
    /\ pc = "idle"
    /\ cur < MaxTasks
    /\ cur' = cur + 1
    /\ responses' = Append(responses, [task |-> cur + 1, err |-> "Fatal",
                                       res |-> NoResult])
    /\ OnError("Fatal")
    /\ pc' = "idle"
    /\ UNCHANGED <<tmo, fifoFD, toChild, toParent, child, script, res>>

(* Session::FirstRead with OnFirstRead < 0 (a malformed header):         *)
(* OnError( NODE_FATAL ), WriteResponse, and no further read is issued.  *)
FirstReadBadHeader ==
    /\ pc = "idle"
    /\ cur < MaxTasks
    /\ cur' = cur + 1
    /\ responses' = Append(responses, [task |-> cur + 1, err |-> "Fatal",
                                       res |-> NoResult])
    /\ OnError("Fatal")
    /\ pc' = "closed"
    /\ UNCHANGED <<tmo, fifoFD, toChild, toParent, child, script, res>>

(* Session::HandleRequest up to the fork: ParseRequest, the executor     *)
(* from ExecCreator::Create, and ScriptExec::Execute's InitLanguageEnv.  *)
(* An unknown language or a missing interpreter entry in the config      *)
(* goes straight to the response.                                         *)
HandleRequest ==
    /\ pc = "idle"
    /\ cur < MaxTasks
    /\ cur' = cur + 1
    /\ tmo' \in Timeouts
    /\ res' = NoResult
    /\ \/ OnError("LangNotSupported") /\ pc' = "respond"
       \/ OnError("Fatal") /\ pc' = "respond"
       \/ pc' = "fork" /\ UNCHANGED errCode
    /\ UNCHANGED <<fifoFD, toChild, toParent, child, script, responses>>

(* ScriptExec::DoFork in the parent: pid > 0, the child starts. *)
Fork ==
    /\ pc = "fork"
    /\ child' = [child EXCEPT ![cur] = "starting"]
    /\ pc' = "write"
    /\ UNCHANGED <<cur, tmo, errCode, fifoFD, toChild, toParent, script, res,
                   responses>>

(* fork() returns -1: Execute only returns for pid > 0, so the worker     *)
(* thread itself goes on to execl the interpreter and ::exit( 1 ); either *)
(* way the worker process is gone and no response is written.            *)
ForkFails ==
    /\ ForkMayFail
    /\ pc = "fork"
    /\ pc' = "dead"
    /\ UNCHANGED <<cur, tmo, errCode, fifoFD, toChild, toParent, child, script,
                   res, responses>>

(* Mutant: the script is taken from the shared-memory slot of the next  *)
(* job id (an off-by-one in the slot offset).                            *)
WriteScriptWrongSlot ==
    /\ pc = "write"
    /\ \/ ~fifoFD["w"] /\ OnError("Fatal") /\ pc' = "respond"
                       /\ UNCHANGED toChild
       \/ /\ fifoFD["w"] /\ Len(toChild) < FifoCap
          /\ \E whole \in BOOLEAN :
                toChild' = Append(toChild, [task |-> cur + 1, whole |-> whole])
          /\ pc' = "read" /\ UNCHANGED errCode
       \/ /\ fifoFD["w"] /\ Len(toChild) = FifoCap /\ tmo = "positive"
          /\ OnError("Timeout") /\ pc' = "kill" /\ UNCHANGED toChild
    /\ UNCHANGED <<cur, tmo, fifoFD, toParent, child, script, res, responses>>

(* DoFifoIO( writeFifoFD, false, pid ).  No fd: NODE_FATAL.  poll ready: *)
(* write() of the script; any count > 0 is success, a partial write too. *)
(* poll times out (the FIFO is full): NODE_JOB_TIMEOUT and KillExec.     *)
(* Only success goes on to the read.                                      *)
WriteScript ==
    /\ pc = "write"
    /\ \/ ~fifoFD["w"] /\ OnError("Fatal") /\ pc' = "respond"
                       /\ UNCHANGED toChild
       \/ /\ fifoFD["w"] /\ Len(toChild) < FifoCap
          /\ \E whole \in BOOLEAN :
                toChild' = Append(toChild, [task |-> cur, whole |-> whole])
          /\ pc' = "read" /\ UNCHANGED errCode
       \/ /\ fifoFD["w"] /\ Len(toChild) = FifoCap /\ tmo = "positive"
          /\ OnError("Timeout") /\ pc' = "kill" /\ UNCHANGED toChild
    /\ UNCHANGED <<cur, tmo, fifoFD, toParent, child, script, res, responses>>

(* Mutant: the read's poll never times out. *)
ReadResultNoTimeout ==
    /\ pc = "read"
    /\ \/ ~fifoFD["r"] /\ OnError("Fatal") /\ pc' = "respond"
                       /\ UNCHANGED <<toParent, res>>
       \/ /\ fifoFD["r"] /\ toParent # << >>
          /\ res' = Head(toParent) /\ toParent' = Tail(toParent)
          /\ pc' = "respond" /\ UNCHANGED errCode
    /\ UNCHANGED <<cur, tmo, fifoFD, toChild, child, script, responses>>

(* Mutant: a result is read without being taken out of the FIFO. *)
ReadResultPeek ==
    /\ pc = "read"
    /\ \/ ~fifoFD["r"] /\ OnError("Fatal") /\ pc' = "respond"
                       /\ UNCHANGED <<toParent, res>>
       \/ /\ fifoFD["r"] /\ toParent # << >>
          /\ res' = Head(toParent) /\ UNCHANGED toParent
          /\ pc' = "respond" /\ UNCHANGED errCode
       \/ /\ fifoFD["r"] /\ toParent = << >> /\ tmo = "positive"
          /\ OnError("Timeout") /\ pc' = "kill" /\ UNCHANGED <<toParent, res>>
    /\ UNCHANGED <<cur, tmo, fifoFD, toChild, child, script, responses>>

(* DoFifoIO( readFifoFD, true, pid ).  No fd: NODE_FATAL.  poll ready:   *)
(* read() of an int; success returns true without OnError, so the code   *)
(* read is dropped and job_.errCode_ keeps its value.  poll times out    *)
(* (nothing in the FIFO yet): NODE_JOB_TIMEOUT and KillExec.              *)
ReadResult ==
    /\ pc = "read"
    /\ \/ ~fifoFD["r"] /\ OnError("Fatal") /\ pc' = "respond"
                       /\ UNCHANGED <<toParent, res>>
       \/ /\ fifoFD["r"] /\ toParent # << >>
          /\ res' = Head(toParent) /\ toParent' = Tail(toParent)
          /\ pc' = "respond" /\ UNCHANGED errCode
       \/ /\ fifoFD["r"] /\ toParent = << >> /\ tmo = "positive"
          /\ OnError("Timeout") /\ pc' = "kill" /\ UNCHANGED <<toParent, res>>
    /\ UNCHANGED <<cur, tmo, fifoFD, toChild, child, script, responses>>

(* DoFifoIO when poll() returns -1, or read() or write() returns <= 0    *)
(* after poll reported the FIFO ready: NODE_FATAL, no kill, no read.     *)
FifoIOFails ==
    /\ \/ pc = "write" /\ fifoFD["w"]
       \/ pc = "read" /\ fifoFD["r"]
    /\ OnError("Fatal")
    /\ pc' = "respond"
    /\ UNCHANGED <<cur, tmo, fifoFD, toChild, toParent, child, script, res,
                   responses>>

(* ScriptExec::KillExec( pid ): SIGTERM to the current request's child,  *)
(* a step of its own after poll returned 0, so the child may still write *)
(* its result in between.  A child that has already exited is untouched. *)
KillExec ==
    /\ pc = "kill"
    /\ child' = [child EXCEPT ![cur] =
                   IF @ \in {"starting", "running", "stuck"} THEN "killed" ELSE @]
    /\ pc' = "respond"
    /\ UNCHANGED <<cur, tmo, errCode, fifoFD, toChild, toParent, script, res,
                   responses>>

(* The end of Session::HandleRequest: request_.Reset(), Start() and      *)
(* WriteResponse(), which sends job_.GetResponse(), i.e. errCode_.        *)
Respond ==
    /\ pc = "respond"
    /\ responses' = Append(responses, [task |-> cur, err |-> errCode, res |-> res])
    /\ pc' = "idle"
    /\ UNCHANGED <<cur, tmo, errCode, fifoFD, toChild, toParent, child, script,
                   res>>

-----------------------------------------------------------------------------
(* The child processes: exec of the interpreter and the node driver *)

(* execl fails and the child calls ::exit( 1 ), or the driver cannot    *)
(* open a FIFO path that CreateFifo left empty: it exits, writing none.  *)
ChildExits(t) ==
    /\ child[t] = "starting"
    /\ child' = [child EXCEPT ![t] = "exited"]
    /\ UNCHANGED <<pc, cur, tmo, errCode, fifoFD, toChild, toParent, script,
                   res, responses>>

(* The driver reads scriptLength bytes from the thread's write FIFO: the *)
(* first script there, whoever's it is.  A partial script leaves it       *)
(* blocked waiting for the rest.                                          *)
ChildReadsScript(t) ==
    /\ child[t] = "starting"
    /\ fifoFD["w"] /\ fifoFD["r"]
    /\ toChild # << >>
    /\ toChild' = Tail(toChild)
    /\ child' = [child EXCEPT ![t] = IF Head(toChild).whole THEN "running"
                                                           ELSE "stuck"]
    /\ script' = [script EXCEPT ![t] = Head(toChild).task]
    /\ UNCHANGED <<pc, cur, tmo, errCode, fifoFD, toParent, res, responses>>

(* The script ends and the driver writes its code to the read FIFO. *)
ChildFinishes(t) ==
    /\ child[t] = "running"
    /\ \E c \in ChildCodes :
          toParent' = Append(toParent, [task |-> script[t], code |-> c])
    /\ child' = [child EXCEPT ![t] = "done"]
    /\ UNCHANGED <<pc, cur, tmo, errCode, fifoFD, toChild, script, res,
                   responses>>

-----------------------------------------------------------------------------

(* OnThreadCreate: each of the two CreateFifo calls may fail and leave   *)
(* fd -1.  Job is a member of Session, so errCode_ is uninitialised until *)
(* the first OnError: its first read may give any value.                 *)
Init ==
    /\ pc = "idle"
    /\ cur = 0
    /\ tmo \in Timeouts
    /\ errCode \in ErrCodes
    /\ fifoFD \in [{"w", "r"} -> BOOLEAN]
    /\ toChild = << >>
    /\ toParent = << >>
    /\ child = [t \in Tasks |-> "none"]
    /\ script = [t \in Tasks |-> 0]
    /\ res = NoResult
    /\ responses = << >>

ThreadStep ==
    \/ FirstReadBadHeader
    \/ HandleRequest
    \/ Fork
    \/ ForkFails
    \/ WriteScript
    \/ ReadResult
    \/ KillExec
    \/ Respond

ChildStep ==
    \E t \in Tasks : ChildExits(t) \/ ChildReadsScript(t) \/ ChildFinishes(t)

Next == ThreadStep \/ FifoIOFails \/ ChildStep

(* The worker thread is never descheduled for good: it blocks only in   *)
(* poll, which returns when the FIFO is ready or the timeout expires.    *)
(* A failing poll, read or write is not something to count on, and      *)
(* children get no fairness: an interpreter may run forever.             *)
Spec == Init /\ [][Next]_vars /\ WF_vars(ThreadStep)

-----------------------------------------------------------------------------
(* Properties *)

TypeOK ==
    /\ pc \in {"idle", "fork", "write", "read", "kill", "respond", "closed", "dead"}
    /\ cur \in 0 .. MaxTasks
    /\ tmo \in Timeouts
    /\ errCode \in ErrCodes
    /\ fifoFD \in [{"w", "r"} -> BOOLEAN]
    /\ toChild \in Seq(Script)
    /\ toParent \in Seq(Result)
    /\ child \in [Tasks -> ChildStates]
    /\ script \in [Tasks -> 0 .. MaxTasks]
    /\ res \in Result \cup {NoResult}
    /\ responses \in Seq([task : Tasks, err : ErrCodes, res : Result \cup {NoResult}])

(* A healthy session stays in step with its FIFOs: as long as every     *)
(* forked request got its result from the read FIFO, the worker thread    *)
(* idles between requests with both FIFOs empty and no child alive.       *)
(* The write of the script, the child's read and write, and the worker's  *)
(* read have to pair up one to one for this to hold.                      *)
FifosDrainedWhileHealthy ==
    (/\ pc = "idle"
     /\ \A i \in DOMAIN responses :
           responses[i].res # NoResult \/ responses[i].err = "LangNotSupported")
      => /\ toChild = << >>
         /\ toParent = << >>
         /\ \A t \in Tasks : child[t] \notin {"starting", "running", "stuck"}

(* Every request the worker starts handling is answered: the thread's    *)
(* blocking points are polls bounded by the request's timeout.            *)
RequestAnswered ==
    \A t \in Tasks :
        (cur = t /\ pc \in {"fork", "write", "read", "kill", "respond"})
          ~> (\E i \in DOMAIN responses : responses[i].task = t)

(* Every request the worker starts handling is answered unless the       *)
(* worker thread itself is gone (a failed fork in DoFork): no poll, FIFO   *)
(* state or child behaviour leaves a live thread blocked on a request.     *)
RequestAnsweredUnlessThreadDied ==
    \A t \in Tasks :
        (cur = t /\ pc \in {"fork", "write", "read", "kill", "respond"})
          ~> (\/ \E i \in DOMAIN responses : responses[i].task = t
              \/ pc = "dead")

(* The session as the master sees it: the handlers between taking a       *)
(* request and writing its response are one "busy" phase.                  *)
SessionPhase == IF pc \in {"idle", "closed", "dead"} THEN pc ELSE "busy"

Contract == INSTANCE SessionContract
                WITH phase <- SessionPhase, received <- cur,
                     Codes <- ErrCodes, FailureCodes <- ErrCodes \ ChildCodes,
                     Results <- Result

(* The session keeps its contract with the master: one response per       *)
(* request it takes, in order and for that request, none after it closed  *)
(* or its thread died, and every response that reports no child result    *)
(* carries a failure code (OnError ran on every path of HandleRequest,    *)
(* DoFork and DoFifoIO that read none).                                   *)
ImplementsSessionContract == Contract!Spec


(* The response to a request reports the outcome of that request's own   *)
(* script (spec 4.3: the sandbox reads the error code of the child it     *)
(* forked).                                                               *)
ResultBelongsToTask ==
    \A i \in DOMAIN responses :
        responses[i].res # NoResult => responses[i].res.task = responses[i].task

(* The error code in a response is the one the child reported (spec 4.3 *)
(* and scenario S1: a successful script yields err = 0).                 *)
ResponseErrIsResult ==
    \A i \in DOMAIN responses :
        responses[i].res # NoResult => responses[i].err = responses[i].res.code

=============================================================================
