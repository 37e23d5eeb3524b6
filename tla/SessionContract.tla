-------------------------- MODULE SessionContract --------------------------
(***************************************************************************)
(* What a worker Session promises the master on one connection            *)
(* (src/src/worker/pyexec.cpp, class Session), with the sandbox's inner   *)
(* steps hidden: requests are taken one at a time; each one the session   *)
(* takes is answered by exactly one response, in order, unless the worker *)
(* is gone; a response claims a script outcome only when it carries a    *)
(* result the child reported; a malformed header is answered with a      *)
(* failure and ends the session.  WorkerSandbox implements it.            *)
(***************************************************************************)
EXTENDS Naturals, Sequences, SequenceTheorems, TLAPS

CONSTANTS
    MaxTasks,      \* requests the master sends on the connection
    Codes,         \* the error codes a response can carry
    FailureCodes,  \* the ones that report a failure of the worker itself
    Results,       \* the results a child can report
    NoResult       \* "no result read"

VARIABLES
    phase,      \* "idle" (reading the next request), "busy", "closed", "dead"
    received,   \* requests the session has taken so far
    responses   \* the responses written, in order

vars == << phase, received, responses >>

(* Session::HandleRequest takes the request that HandleRead completed.     *)
Receive ==
    /\ phase = "idle"
    /\ received < MaxTasks
    /\ received' = received + 1
    /\ phase' = "busy"
    /\ UNCHANGED responses

(* Session::FirstRead on a bad header: a failure is written and the       *)
(* session issues no further read.                                        *)
Reject ==
    /\ phase = "idle"
    /\ received < MaxTasks
    /\ received' = received + 1
    /\ \E e \in FailureCodes :
          responses' = Append(responses, [task |-> received + 1, err |-> e,
                                          res |-> NoResult])
    /\ phase' = "closed"

(* Session::WriteResponse for the request taken last.                     *)
Answer ==
    /\ phase = "busy"
    /\ \E e \in Codes, r \in Results \cup {NoResult} :
          /\ r = NoResult => e \in FailureCodes
          /\ responses' = Append(responses, [task |-> received, err |-> e,
                                             res |-> r])
    /\ phase' = "idle"
    /\ UNCHANGED received

(* The worker thread is gone in the middle of a request.                   *)
Abort ==
    /\ phase = "busy"
    /\ phase' = "dead"
    /\ UNCHANGED << received, responses >>

Init ==
    /\ phase = "idle"
    /\ received = 0
    /\ responses = << >>

Next == Receive \/ Reject \/ Answer \/ Abort

Spec == Init /\ [][Next]_vars

-----------------------------------------------------------------------------
(* Properties *)

Response == [task : Nat, err : Codes \cup FailureCodes, res : Results \cup {NoResult}]

TypeOK ==
    /\ phase \in {"idle", "busy", "closed", "dead"}
    /\ received \in Nat
    /\ responses \in Seq(Response)

(* The session answers the requests it takes one by one and in order:    *)
(* the i-th response is for the i-th request, and every request taken is *)
(* answered except the one in hand while busy or when the worker died.    *)
AnsweredInOrder ==
    /\ Len(responses) = IF phase \in {"busy", "dead"} THEN received - 1
                                                      ELSE received
    /\ \A i \in DOMAIN responses : responses[i].task = i

LEMMA InitAnsweredInOrder == Init => TypeOK /\ AnsweredInOrder
  BY EmptySeq DEF Init, TypeOK, AnsweredInOrder

LEMMA NextAnsweredInOrder ==
    TypeOK /\ AnsweredInOrder /\ [Next]_vars => TypeOK' /\ AnsweredInOrder'
<1> SUFFICES ASSUME TypeOK, AnsweredInOrder, [Next]_vars
             PROVE  TypeOK' /\ AnsweredInOrder'
  OBVIOUS
<1>1. CASE Receive
  BY <1>1 DEF Receive, TypeOK, AnsweredInOrder
<1>2. CASE Reject
  <2>1. PICK e \in FailureCodes :
            responses' = Append(responses, [task |-> received + 1, err |-> e,
                                            res |-> NoResult])
    BY <1>2 DEF Reject
  <2>2. [task |-> received + 1, err |-> e, res |-> NoResult] \in Response
    BY DEF TypeOK, Response
  <2>. QED
    BY <1>2, <2>1, <2>2, AppendProperties DEF Reject, TypeOK, AnsweredInOrder
<1>3. CASE Answer
  <2>1. PICK e \in Codes, r \in Results \cup {NoResult} :
            responses' = Append(responses, [task |-> received, err |-> e,
                                            res |-> r])
    BY <1>3 DEF Answer
  <2>2. received \in Nat \ {0}
    BY <1>3 DEF Answer, TypeOK, AnsweredInOrder
  <2>3. [task |-> received, err |-> e, res |-> r] \in Response
    BY <2>2 DEF TypeOK, Response
  <2>. QED
    BY <1>3, <2>1, <2>2, <2>3, AppendProperties DEF Answer, TypeOK, AnsweredInOrder
<1>4. CASE Abort
  BY <1>4 DEF Abort, TypeOK, AnsweredInOrder
<1>5. CASE UNCHANGED vars
  BY <1>5 DEF vars, TypeOK, AnsweredInOrder
<1>. QED
  BY <1>1, <1>2, <1>3, <1>4, <1>5 DEF Next

(* Whatever the number of requests and the codes, every behaviour of the *)
(* contract answers the requests in order, one response each.            *)
THEOREM AnsweredInOrderHolds == Spec => []AnsweredInOrder
<1>1. Spec => [](TypeOK /\ AnsweredInOrder)
  BY InitAnsweredInOrder, NextAnsweredInOrder, PTL DEF Spec
<1>. QED
  BY <1>1, PTL

=============================================================================
