------------------------ MODULE WorkerSandboxProofs ------------------------
(***************************************************************************)
(* Proofs about WorkerSandbox, for every value of the constants that      *)
(* satisfies SandboxAssumption: type correctness, that the sandbox        *)
(* implements the session contract of SessionContract, and that a healthy *)
(* session keeps its FIFOs drained between requests.                       *)
(***************************************************************************)
EXTENDS WorkerSandbox, SequenceTheorems, TLAPS

USE SandboxAssumption

(* The codes OnError stores: failures of the worker, never a child's code. *)
FailCodes == ErrCodes \ ChildCodes

(* A record of the responses sequence. *)
Response == [task : Tasks, err : ErrCodes, res : Result \cup {NoResult}]

(* Where the thread is in HandleRequest fixes what has been set so far:   *)
(* a request is being handled, no result has been read before the read    *)
(* step, and a timeout or a failure has gone through OnError.  These are   *)
(* what makes NoSuccessWithoutResult inductive.  A running child has read *)
(* a script, so the result it writes names a task.                         *)
ControlInv ==
    /\ pc \in {"fork", "write", "read", "kill", "respond", "closed", "dead"}
         => cur \in Tasks
    /\ pc \in {"fork", "write", "read", "kill"} => res = NoResult
    /\ pc = "kill" => errCode \in FailCodes
    /\ (pc = "respond" /\ res = NoResult) => errCode \in FailCodes
    /\ \A t \in Tasks : child[t] = "running" => script[t] \in Tasks

(* The contract's guard on Answer, as a fact about the history: a        *)
(* response without a result read from the child carries a failure code.  *)
NoSuccessWithoutResult ==
    \A i \in DOMAIN responses :
        responses[i].res = NoResult => responses[i].err \notin ChildCodes

IInv == TypeOK /\ ControlInv /\ NoSuccessWithoutResult

-----------------------------------------------------------------------------
(* The "no result" value is not a result a child can report.               *)
LEMMA NoResultIsNotAResult == NoResult \notin Result
BY DEF NoResult, Result, ChildCodes

(* Writing one more response keeps the responses well typed, and keeps     *)
(* NoSuccessWithoutResult when the new response respects it.               *)
LEMMA AppendResponse ==
    ASSUME TypeOK, NoSuccessWithoutResult,
           NEW r \in Response,
           r.res = NoResult => r.err \notin ChildCodes,
           responses' = Append(responses, r)
    PROVE  /\ responses' \in Seq(Response)
           /\ NoSuccessWithoutResult'
<1>1. responses \in Seq(Response)
  BY DEF TypeOK, Response
<1>2. /\ responses' \in Seq(Response)
      /\ Len(responses') = Len(responses) + 1
      /\ \A i \in 1 .. Len(responses) : responses'[i] = responses[i]
      /\ responses'[Len(responses) + 1] = r
  BY <1>1, AppendProperties
<1>3. ASSUME NEW i \in DOMAIN responses', responses'[i].res = NoResult
      PROVE  responses'[i].err \notin ChildCodes
  <2>1. CASE i \in 1 .. Len(responses)
    BY <1>1, <1>2, <1>3, <2>1 DEF NoSuccessWithoutResult
  <2>2. CASE i = Len(responses) + 1
    BY <1>2, <1>3, <2>2
  <2>. QED
    BY <1>1, <1>2, <2>1, <2>2
<1>. QED
  BY <1>2, <1>3 DEF NoSuccessWithoutResult

-----------------------------------------------------------------------------
LEMMA InitIInv == Init => IInv
<1> SUFFICES ASSUME Init PROVE IInv
  OBVIOUS
<1>1. TypeOK
  BY DEF Init, TypeOK, ChildStates
<1>2. ControlInv
  BY DEF Init, ControlInv
<1>3. NoSuccessWithoutResult
  BY DEF Init, NoSuccessWithoutResult
<1>. QED
  BY <1>1, <1>2, <1>3 DEF IInv

(* Every step of the thread, of the FIFO layer and of the children keeps  *)
(* the invariant: one step per action.                                    *)
LEMMA NextIInv == IInv /\ [Next]_vars => IInv'
<1> SUFFICES ASSUME IInv, [Next]_vars PROVE IInv'
  OBVIOUS
<1> USE DEF IInv
<1>1. CASE FirstReadBadHeader
  <2>1. [task |-> cur + 1, err |-> "Fatal", res |-> NoResult] \in Response
    BY <1>1 DEF FirstReadBadHeader, TypeOK, Response, Tasks, ErrCodes
  <2>2. responses' \in Seq(Response) /\ NoSuccessWithoutResult'
    BY <1>1, <2>1, AppendResponse DEF FirstReadBadHeader, ChildCodes
  <2>3. TypeOK'
    BY <1>1, <2>2 DEF FirstReadBadHeader, OnError, TypeOK, Response, ErrCodes
  <2>4. ControlInv'
    BY <1>1 DEF FirstReadBadHeader, OnError, ControlInv, TypeOK, Tasks
  <2>. QED
    BY <2>2, <2>3, <2>4
<1>2. CASE HandleRequest
  <2>1. TypeOK'
    BY <1>2 DEF HandleRequest, OnError, TypeOK, ErrCodes
  <2>2. ControlInv'
    BY <1>2 DEF HandleRequest, OnError, ControlInv, TypeOK, Tasks, FailCodes,
                ErrCodes, ChildCodes
  <2>3. NoSuccessWithoutResult'
    BY <1>2 DEF HandleRequest, NoSuccessWithoutResult
  <2>. QED
    BY <2>1, <2>2, <2>3
<1>3. CASE Fork
  BY <1>3 DEF Fork, TypeOK, ControlInv, NoSuccessWithoutResult, ChildStates
<1>4. CASE ForkFails
  BY <1>4 DEF ForkFails, TypeOK, ControlInv, NoSuccessWithoutResult
<1>5. CASE WriteScript
  <2>1. \A w \in BOOLEAN : [task |-> cur, whole |-> w] \in Script
    BY <1>5 DEF WriteScript, ControlInv, Script
  <2>7. toChild' \in Seq(Script)
    <3>1. CASE toChild' = toChild
      BY <3>1 DEF TypeOK
    <3>2. CASE \E w \in BOOLEAN :
                 toChild' = Append(toChild, [task |-> cur, whole |-> w])
      BY <3>2, <2>1, AppendProperties DEF TypeOK
    <3>. QED
      BY <1>5, <3>1, <3>2 DEF WriteScript
  <2>8. errCode' \in ErrCodes
    BY <1>5 DEF WriteScript, OnError, TypeOK, ErrCodes
  <2>9. pc' \in {"respond", "read", "kill"}
    BY <1>5 DEF WriteScript
  <2>2. TypeOK'
    BY <1>5, <2>7, <2>8, <2>9 DEF WriteScript, TypeOK
  <2>3. /\ res' = res /\ res = NoResult /\ cur' = cur /\ cur \in Tasks
        /\ child' = child /\ script' = script
    BY <1>5 DEF WriteScript, ControlInv
  <2>5. \/ pc' = "respond" /\ errCode' = "Fatal"
        \/ pc' = "read"
        \/ pc' = "kill" /\ errCode' = "Timeout"
    BY <1>5 DEF WriteScript, OnError
  <2>6. ControlInv'
    BY <2>3, <2>5 DEF ControlInv, FailCodes, ErrCodes, ChildCodes
  <2>4. NoSuccessWithoutResult'
    BY <1>5 DEF WriteScript, NoSuccessWithoutResult
  <2>. QED
    BY <2>2, <2>4, <2>6
<1>6. CASE ReadResult
  <2>1. toParent # << >> => /\ Head(toParent) \in Result
                           /\ Tail(toParent) \in Seq(Result)
    BY HeadTailProperties DEF TypeOK
  <2>2. TypeOK'
    BY <1>6, <2>1 DEF ReadResult, OnError, TypeOK, ErrCodes
  <2>3. ControlInv'
    BY <1>6, <2>1, NoResultIsNotAResult
       DEF ReadResult, OnError, ControlInv, FailCodes, ErrCodes, ChildCodes
  <2>4. NoSuccessWithoutResult'
    BY <1>6 DEF ReadResult, NoSuccessWithoutResult
  <2>. QED
    BY <2>2, <2>3, <2>4
<1>7. CASE KillExec
  BY <1>7 DEF KillExec, TypeOK, ControlInv, NoSuccessWithoutResult,
              ChildStates
<1>8. CASE Respond
  <2>1. [task |-> cur, err |-> errCode, res |-> res] \in Response
    BY <1>8 DEF Respond, TypeOK, ControlInv, Response
  <2>2. res = NoResult => errCode \notin ChildCodes
    BY <1>8 DEF Respond, ControlInv, FailCodes
  <2>3. responses' \in Seq(Response) /\ NoSuccessWithoutResult'
    BY <1>8, <2>1, <2>2, AppendResponse DEF Respond
  <2>4. TypeOK'
    BY <1>8, <2>3 DEF Respond, TypeOK, Response
  <2>5. ControlInv'
    BY <1>8 DEF Respond, ControlInv
  <2>. QED
    BY <2>3, <2>4, <2>5
<1>9. CASE FifoIOFails
  BY <1>9 DEF FifoIOFails, OnError, TypeOK, ControlInv,
              NoSuccessWithoutResult, FailCodes, ErrCodes, ChildCodes
<1>10. ASSUME NEW t \in Tasks, ChildExits(t) PROVE IInv'
  BY <1>10 DEF ChildExits, TypeOK, ControlInv, NoSuccessWithoutResult,
               ChildStates
<1>11. ASSUME NEW t \in Tasks, ChildReadsScript(t) PROVE IInv'
  <2>1. Head(toChild) \in Script /\ Tail(toChild) \in Seq(Script)
    BY <1>11, HeadTailProperties DEF ChildReadsScript, TypeOK
  <2>2. Head(toChild).task \in Tasks
    BY <2>1 DEF Script
  <2>6. child' \in [Tasks -> ChildStates]
    BY <1>11 DEF ChildReadsScript, TypeOK, ChildStates
  <2>7. script' \in [Tasks -> 0 .. MaxTasks]
    BY <1>11, <2>2 DEF ChildReadsScript, TypeOK, Tasks
  <2>3. TypeOK'
    BY <1>11, <2>1, <2>6, <2>7 DEF ChildReadsScript, TypeOK
  <2>4. ControlInv'
    <3>1. \A u \in Tasks : child'[u] = "running" => script'[u] \in Tasks
      BY <1>11, <2>2 DEF ChildReadsScript, ControlInv, TypeOK
    <3>. QED
      BY <1>11, <3>1 DEF ChildReadsScript, ControlInv
  <2>5. NoSuccessWithoutResult'
    BY <1>11 DEF ChildReadsScript, NoSuccessWithoutResult
  <2>. QED
    BY <2>3, <2>4, <2>5
<1>12. ASSUME NEW t \in Tasks, ChildFinishes(t) PROVE IInv'
  <2>1. PICK c \in ChildCodes :
               toParent' = Append(toParent, [task |-> script[t], code |-> c])
    BY <1>12 DEF ChildFinishes
  <2>2. script[t] \in Tasks
    BY <1>12 DEF ChildFinishes, ControlInv
  <2>3. [task |-> script[t], code |-> c] \in Result
    BY <2>2 DEF Result
  <2>4. toParent' \in Seq(Result)
    BY <2>1, <2>3, AppendProperties DEF TypeOK
  <2>. QED
    BY <1>12, <2>4 DEF ChildFinishes, TypeOK, ControlInv, NoSuccessWithoutResult,
                 ChildStates
<1>13. CASE UNCHANGED vars
  BY <1>13 DEF vars, TypeOK, ControlInv, NoSuccessWithoutResult
<1>. QED
  BY <1>1, <1>2, <1>3, <1>4, <1>5, <1>6, <1>7, <1>8, <1>9, <1>10, <1>11,
     <1>12, <1>13 DEF Next, ThreadStep, ChildStep

-----------------------------------------------------------------------------
(* Every reachable state of the sandbox satisfies the type invariant, for *)
(* every number of requests, FIFO capacity and timeout sign.               *)
THEOREM TypeCorrect == Spec => []TypeOK
<1>1. Spec => []IInv
  BY InitIInv, NextIInv, PTL DEF Spec
<1>. QED
  BY <1>1, PTL DEF IInv

-----------------------------------------------------------------------------
(* The refinement: the session's initial state is the contract's, and      *)
(* every step of the thread, the FIFOs or a child is a step of the         *)
(* contract or leaves the session's visible state unchanged.               *)
LEMMA InitRefines == Init => Contract!Init
BY DEF Init, Contract!Init, SessionPhase

LEMMA NextRefines ==
    IInv /\ [Next]_vars => [Contract!Next]_Contract!vars
<1> SUFFICES ASSUME IInv, [Next]_vars PROVE [Contract!Next]_Contract!vars
  OBVIOUS
<1> USE DEF IInv
(* A step inside HandleRequest that the master does not see. *)
<1>0. ASSUME pc \in {"fork", "write", "read", "kill", "respond"},
             pc' \in {"fork", "write", "read", "kill", "respond"},
             cur' = cur, responses' = responses
      PROVE  [Contract!Next]_Contract!vars
  BY <1>0 DEF Contract!vars, SessionPhase
<1>1. CASE FirstReadBadHeader
  <2>1. "Fatal" \in ErrCodes \ ChildCodes
    BY DEF ErrCodes, ChildCodes
  <2>2. Contract!Reject
    BY <1>1, <2>1 DEF FirstReadBadHeader, Contract!Reject, SessionPhase
  <2>. QED
    BY <2>2 DEF Contract!Next
<1>2. CASE HandleRequest
  <2>1. Contract!Receive
    BY <1>2 DEF HandleRequest, Contract!Receive, SessionPhase
  <2>. QED
    BY <2>1 DEF Contract!Next
<1>3. CASE Fork
  BY <1>3, <1>0 DEF Fork
<1>4. CASE ForkFails
  <2>1. Contract!Abort
    BY <1>4 DEF ForkFails, Contract!Abort, SessionPhase
  <2>. QED
    BY <2>1 DEF Contract!Next
<1>5. CASE WriteScript
  BY <1>5, <1>0 DEF WriteScript
<1>6. CASE ReadResult
  BY <1>6, <1>0 DEF ReadResult
<1>7. CASE KillExec
  BY <1>7, <1>0 DEF KillExec
<1>8. CASE Respond
  <2>1. errCode \in ErrCodes /\ res \in Result \cup {NoResult}
    BY DEF TypeOK
  <2>2. res = NoResult => errCode \in ErrCodes \ ChildCodes
    BY <1>8 DEF Respond, ControlInv, FailCodes
  <2>3. Contract!Answer
    BY <1>8, <2>1, <2>2 DEF Respond, Contract!Answer, SessionPhase
  <2>. QED
    BY <2>3 DEF Contract!Next
<1>9. CASE FifoIOFails
  BY <1>9, <1>0 DEF FifoIOFails
<1>10. CASE ChildStep
  BY <1>10 DEF ChildStep, ChildExits, ChildReadsScript, ChildFinishes,
               Contract!vars, SessionPhase
<1>11. CASE UNCHANGED vars
  BY <1>11 DEF vars, Contract!vars, SessionPhase
<1>. QED
  BY <1>1, <1>2, <1>3, <1>4, <1>5, <1>6, <1>7, <1>8, <1>9, <1>10, <1>11
     DEF Next, ThreadStep

(* The sandbox implements the session contract (ImplementsSessionContract, *)
(* checked by TLC on a small instance): for every number of requests,     *)
(* every behaviour of the worker thread, its FIFOs and its children is,   *)
(* seen through SessionPhase, a behaviour of SessionContract.             *)
THEOREM Refinement == Spec => ImplementsSessionContract
<1>1. Spec => []IInv
  BY InitIInv, NextIInv, PTL DEF Spec
<1>2. IInv /\ [Next]_vars => [Contract!Next]_Contract!vars
  BY NextRefines
<1>. QED
  BY <1>1, <1>2, InitRefines, PTL
     DEF Spec, ImplementsSessionContract, Contract!Spec

-----------------------------------------------------------------------------
(* FifosDrainedWhileHealthy.  It says nothing of the states between two   *)
(* requests, so it is not inductive; the strengthening follows one        *)
(* request through DoFork and the two DoFifoIO calls while the session is *)
(* healthy: the script is in the write FIFO, then in the child, then its  *)
(* result is the one token of the read FIFO, and only the current         *)
(* request's child is ever alive.                                          *)

(* Every response so far reports a child's result or an unknown language. *)
Healthy ==
    \A i \in DOMAIN responses :
        responses[i].res # NoResult \/ responses[i].err = "LangNotSupported"

(* The processes that may still touch the FIFOs. *)
Live == {"starting", "running", "stuck"}

(* No child other than those of S is alive. *)
OnlyLive(S) == \A t \in Tasks \ S : child[t] \notin Live

Drained == toChild = << >> /\ toParent = << >> /\ OnlyLive({})

(* Where the current request stands between DoFork and the response.      *)
InFlight ==
    /\ pc \in {"idle", "fork"} => Drained
    /\ pc = "write" =>
          /\ toChild = << >> /\ toParent = << >> /\ OnlyLive({cur})
          /\ child[cur] \in {"starting", "exited"}
    /\ pc = "read" =>
          /\ OnlyLive({cur})
          /\ \/ /\ Len(toChild) = 1 /\ toParent = << >>
                /\ child[cur] \in {"starting", "exited"}
             \/ /\ toChild = << >> /\ toParent = << >>
                /\ child[cur] \in {"running", "stuck"}
             \/ /\ toChild = << >> /\ Len(toParent) = 1
                /\ child[cur] = "done"
    /\ (pc = "respond" /\ (res # NoResult \/ errCode = "LangNotSupported"))
          => Drained

DrainInv ==
    /\ IInv
    /\ pc = "kill" => errCode = "Timeout"
    /\ Healthy => InFlight

(* A session that is healthy after writing one more response was healthy  *)
(* before, and the new response reports a result or an unknown language.  *)
LEMMA HealthyAppend ==
    ASSUME responses \in Seq(Response), NEW r \in Response,
           responses' = Append(responses, r), Healthy'
    PROVE  Healthy /\ (r.res # NoResult \/ r.err = "LangNotSupported")
<1>1. /\ Len(responses') = Len(responses) + 1
      /\ \A i \in 1 .. Len(responses) : responses'[i] = responses[i]
      /\ responses'[Len(responses) + 1] = r
  BY AppendProperties
<1>. QED
  BY <1>1 DEF Healthy

LEMMA InitDrainInv == Init => DrainInv
<1> SUFFICES ASSUME Init PROVE DrainInv
  OBVIOUS
<1>1. IInv
  BY InitIInv
<1>. QED
  BY <1>1 DEF Init, DrainInv, InFlight, Drained, OnlyLive, Live

(* The steps of the children, for the request in flight: the current      *)
(* request's child is the only live one, so it is the one that exits,     *)
(* takes the script or writes the result.                                 *)
LEMMA ChildStepInFlight ==
    ASSUME IInv, InFlight, NEW t \in Tasks,
           ChildExits(t) \/ ChildReadsScript(t) \/ ChildFinishes(t)
    PROVE  InFlight'
<1>0. /\ UNCHANGED << pc, cur, errCode, res >>
      /\ child[t] \in Live
      /\ \A u \in Tasks \ {t} : child'[u] = child[u]
      /\ child' \in [Tasks -> ChildStates]
  BY DEF ChildExits, ChildReadsScript, ChildFinishes, Live, IInv, TypeOK,
         ChildStates
<1>1. CASE pc \in {"idle", "fork"}
  BY <1>0, <1>1 DEF InFlight, Drained, OnlyLive
<1>2. CASE pc = "respond" /\ (res # NoResult \/ errCode = "LangNotSupported")
  BY <1>0, <1>2 DEF InFlight, Drained, OnlyLive
<1>3. CASE pc \in {"kill", "closed", "dead"}
      \/ (pc = "respond" /\ res = NoResult /\ errCode # "LangNotSupported")
  BY <1>0, <1>3 DEF InFlight
<1>4. CASE pc = "write"
  <2>1. t = cur /\ child[cur] = "starting" /\ toChild = << >>
    BY <1>0, <1>4 DEF InFlight, OnlyLive, Live
  <2>2. ChildExits(t)
    BY <2>1 DEF ChildReadsScript, ChildFinishes
  <2>. QED
    BY <1>0, <1>4, <2>1, <2>2 DEF ChildExits, InFlight, OnlyLive, IInv, TypeOK
<1>5. CASE pc = "read"
  <2>1. t = cur /\ cur \in Tasks
    BY <1>0, <1>5 DEF InFlight, OnlyLive
  <2>2. OnlyLive({cur})'
    BY <1>0, <1>5, <2>1 DEF InFlight, OnlyLive
  <2>3. CASE ChildExits(t)
    BY <1>0, <1>5, <2>1, <2>2, <2>3 DEF ChildExits, InFlight, IInv, TypeOK
  <2>4. CASE ChildReadsScript(t)
    <3>1. Len(toChild) = 1 /\ toParent = << >>
      BY <1>5, <2>1, <2>4 DEF ChildReadsScript, InFlight
    <3>2. toChild' = << >>
      BY <3>1, <2>4, HeadTailProperties, EmptySeq DEF ChildReadsScript, IInv, TypeOK
    <3>3. child'[cur] \in {"running", "stuck"} /\ toParent' = << >>
      BY <2>1, <2>4, <3>1 DEF ChildReadsScript, IInv, TypeOK
    <3>. QED
      BY <1>0, <1>5, <2>2, <3>2, <3>3 DEF InFlight
  <2>5. CASE ChildFinishes(t)
    <3>1. toChild = << >> /\ toParent = << >>
      BY <1>5, <2>1, <2>5 DEF ChildFinishes, InFlight
    <3>2. PICK c \in ChildCodes :
              toParent' = Append(toParent, [task |-> script[t], code |-> c])
      BY <2>5 DEF ChildFinishes
    <3>3. Len(toParent') = 1
      BY <3>1, <3>2, AppendProperties, EmptySeq
    <3>4. child'[cur] = "done" /\ toChild' = << >>
      BY <2>1, <2>5, <3>1 DEF ChildFinishes, IInv, TypeOK
    <3>. QED
      BY <1>0, <1>5, <2>2, <3>3, <3>4 DEF InFlight
  <2>. QED
    BY <2>3, <2>4, <2>5
<1>. QED
  BY <1>1, <1>2, <1>3, <1>4, <1>5 DEF IInv, TypeOK

LEMMA NextDrainInv == DrainInv /\ [Next]_vars => DrainInv'
<1> SUFFICES ASSUME DrainInv, [Next]_vars PROVE DrainInv'
  OBVIOUS
<1> USE DEF DrainInv
<1>0. /\ TypeOK /\ ControlInv
      /\ responses \in Seq(Response)
  BY DEF IInv, TypeOK, Response
<1>1. IInv'
  BY NextIInv
<1>2. (pc = "kill" => errCode = "Timeout")'
  <2>1. CASE WriteScript \/ ReadResult
    BY <2>1 DEF WriteScript, ReadResult, OnError
  <2>2. CASE ~(WriteScript \/ ReadResult)
    BY <2>2 DEF Next, ThreadStep, ChildStep, FirstReadBadHeader, HandleRequest,
                Fork, ForkFails, KillExec, Respond, FifoIOFails, ChildExits,
                ChildReadsScript, ChildFinishes, vars
  <2>. QED
    BY <2>1, <2>2
<1>3. Healthy' => InFlight'
  <2> SUFFICES ASSUME Healthy' PROVE InFlight'
    OBVIOUS
  <2>1. CASE FirstReadBadHeader
    <3>1. [task |-> cur + 1, err |-> "Fatal", res |-> NoResult] \in Response
      BY <1>0, <2>1 DEF FirstReadBadHeader, TypeOK, Response, Tasks, ErrCodes
    <3>. QED
      BY <1>0, <2>1, <3>1, HealthyAppend DEF FirstReadBadHeader
  <2>2. CASE Respond
    <3>1. [task |-> cur, err |-> errCode, res |-> res] \in Response
      BY <1>0, <2>2 DEF Respond, TypeOK, ControlInv, Response
    <3>2. Healthy /\ (res # NoResult \/ errCode = "LangNotSupported")
      BY <1>0, <2>2, <3>1, HealthyAppend DEF Respond
    <3>3. Drained
      BY <2>2, <3>2 DEF Respond, InFlight
    <3>. QED
      BY <2>2, <3>3 DEF Respond, InFlight, Drained, OnlyLive
  <2>3. CASE ~FirstReadBadHeader /\ ~Respond
    <3>1. responses' = responses
      BY <2>3 DEF Next, ThreadStep, ChildStep, HandleRequest, Fork, ForkFails,
                  WriteScript, ReadResult, KillExec, FifoIOFails, ChildExits,
                  ChildReadsScript, ChildFinishes, vars
    <3>2. InFlight
      BY <3>1 DEF Healthy
    <3>3. CASE HandleRequest
      BY <3>2, <3>3 DEF HandleRequest, OnError, InFlight, Drained, OnlyLive
    <3>4. CASE Fork
      <4>1. cur \in Tasks /\ Drained
        BY <1>0, <3>2, <3>4 DEF Fork, ControlInv, InFlight
      <4>2. OnlyLive({cur})' /\ child'[cur] = "starting"
        BY <1>0, <3>4, <4>1 DEF Fork, OnlyLive, Drained, TypeOK
      <4>. QED
        BY <3>4, <4>1, <4>2 DEF Fork, InFlight, Drained
    <3>5. CASE ForkFails
      BY <3>5 DEF ForkFails, InFlight
    <3>6. CASE WriteScript
      <4>1. /\ toChild = << >> /\ toParent = << >> /\ OnlyLive({cur})
            /\ child[cur] \in {"starting", "exited"} /\ res = NoResult
        BY <1>0, <3>2, <3>6 DEF WriteScript, InFlight, ControlInv
      <4>2. CASE pc' = "read"
        <5>1. PICK w \in BOOLEAN :
                  toChild' = Append(toChild, [task |-> cur, whole |-> w])
          BY <3>6, <4>2 DEF WriteScript
        <5>2. Len(toChild') = 1
          BY <4>1, <5>1, AppendProperties, EmptySeq
        <5>. QED
          BY <3>6, <4>1, <4>2, <5>2 DEF WriteScript, InFlight, OnlyLive
      <4>3. CASE pc' # "read"
        BY <3>6, <4>1, <4>3 DEF WriteScript, OnError, InFlight
      <4>. QED
        BY <4>2, <4>3
    <3>7. CASE ReadResult
      <4>1. res = NoResult /\ OnlyLive({cur}) /\ cur \in Tasks
        BY <1>0, <3>2, <3>7 DEF ReadResult, ControlInv, InFlight
      <4>2. CASE fifoFD["r"] /\ toParent # << >>
        <5>1. /\ toChild = << >> /\ Len(toParent) = 1
              /\ child[cur] = "done"
          BY <3>2, <3>7, <4>2 DEF ReadResult, InFlight
        <5>2. toParent' = << >>
          BY <1>0, <3>7, <4>2, <5>1, HeadTailProperties, EmptySeq
             DEF ReadResult, TypeOK
        <5>3. OnlyLive({})
          BY <4>1, <5>1 DEF OnlyLive, Live
        <5>. QED
          BY <3>7, <4>2, <5>1, <5>2, <5>3 DEF ReadResult, InFlight, Drained,
                                              OnlyLive
      <4>3. CASE ~(fifoFD["r"] /\ toParent # << >>)
        BY <3>7, <4>1, <4>3 DEF ReadResult, OnError, InFlight
      <4>. QED
        BY <4>2, <4>3
    <3>8. CASE KillExec
      BY <1>0, <3>8 DEF KillExec, ControlInv, InFlight
    <3>9. CASE FifoIOFails
      BY <1>0, <3>9 DEF FifoIOFails, OnError, ControlInv, InFlight
    <3>10. ASSUME NEW t \in Tasks,
                  ChildExits(t) \/ ChildReadsScript(t) \/ ChildFinishes(t)
           PROVE  InFlight'
      BY <3>2, <3>10, ChildStepInFlight
    <3>11. CASE UNCHANGED vars
      BY <3>2, <3>11 DEF vars, InFlight, Drained, OnlyLive
    <3>. QED
      BY <2>3, <3>3, <3>4, <3>5, <3>6, <3>7, <3>8, <3>9, <3>10, <3>11
         DEF Next, ThreadStep, ChildStep
  <2>. QED
    BY <2>1, <2>2, <2>3
<1>. QED
  BY <1>1, <1>2, <1>3

(* A session whose every response so far reports a child's result (or an *)
(* unknown language) idles between requests with both FIFOs empty and no  *)
(* child alive, for every number of requests and FIFO capacity: DoFork,    *)
(* the two DoFifoIO calls and the node driver's read and write pair up    *)
(* one to one while nothing fails.                                         *)
THEOREM FifosDrainedWhileHealthyHolds == Spec => []FifosDrainedWhileHealthy
<1>1. Spec => []DrainInv
  BY InitDrainInv, NextDrainInv, PTL DEF Spec
<1>2. DrainInv => FifosDrainedWhileHealthy
  BY DEF DrainInv, Healthy, InFlight, Drained, OnlyLive, Live,
         FifosDrainedWhileHealthy
<1>. QED
  BY <1>1, <1>2, PTL

=============================================================================
