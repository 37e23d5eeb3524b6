------------------------- MODULE CronManagerProofs -------------------------
(***************************************************************************)
(* Proofs about CronManager, for every value of the constants that        *)
(* satisfies CronAssumption.                                               *)
(***************************************************************************)
EXTENDS CronManager, SequenceTheorems, TLAPS

USE CronAssumption DEF TopNames

-----------------------------------------------------------------------------
(* Growing the handler sequence by one keeps every set of its indices a   *)
(* set of indices, and adds the index of the new last element.            *)
LEMMA IndicesGrow ==
    ASSUME NEW L \in Nat, NEW S \in SUBSET (1 .. L)
    PROVE  S \cup {L + 1} \subseteq 1 .. L + 1
OBVIOUS

(* What AddHandler, the creation of a handler shared by every Push* path  *)
(* and by the re-arm of a fired handler, does to the types: the handler   *)
(* sequence grows by one well-typed record, and the deadline map and the  *)
(* name map point into the grown sequence.                                *)
LEMMA AddHandlerTypeOK ==
    ASSUME TypeOK,
           NEW n \in TopNames, NEW d \in Nat, NEW isMeta \in BOOLEAN,
           NEW cn \in SUBSET ChildNames,
           AddHandler(n, d, isMeta, cn)
    PROVE  /\ hs' \in Seq(Handler)
           /\ HandlerIds \subseteq HandlerIds'
           /\ jobs' \subseteq HandlerIds'
           /\ names' \in [TopNames -> HandlerIds' \cup {NoHandler}]
<1>1. [name |-> n, deadline |-> d, meta |-> isMeta, jobNames |-> cn] \in Handler
  BY DEF Handler
<1>2. Len(hs) \in Nat
  BY LenProperties DEF TypeOK
<1>3. hs' \in Seq(Handler) /\ Len(hs') = Len(hs) + 1
  BY <1>1, AppendProperties DEF AddHandler, TypeOK
<1>4. HandlerIds' = 1 .. Len(hs) + 1
  BY <1>3 DEF HandlerIds
<1>5. HandlerIds \subseteq HandlerIds'
  BY <1>2, <1>4 DEF HandlerIds
<1>8. jobs' = jobs \cup {Len(hs) + 1}
  BY DEF AddHandler
<1>9. jobs \subseteq 1 .. Len(hs)
  BY DEF TypeOK, HandlerIds
<1>6. jobs' \subseteq HandlerIds'
  BY <1>2, <1>4, <1>8, <1>9, IndicesGrow
<1>7. names' \in [TopNames -> HandlerIds' \cup {NoHandler}]
  BY <1>2, <1>4 DEF AddHandler, TypeOK, HandlerIds
<1>. QED
  BY <1>3, <1>5, <1>6, <1>7

-----------------------------------------------------------------------------
(* Type correctness of the cron manager's state. *)
LEMMA InitTypeOK == Init => TypeOK
<1> SUFFICES ASSUME Init PROVE TypeOK
  OBVIOUS
<1>1. hs \in Seq(Handler) /\ Len(hs) = 0
  BY EmptySeq DEF Init
<1>2. HandlerIds = {}
  BY <1>1 DEF HandlerIds
<1>3. now \in 0 .. MaxClock
  BY DEF Init
<1>4. names \in [TopNames -> HandlerIds \cup {NoHandler}]
  BY DEF Init
<1>. QED
  BY <1>1, <1>2, <1>3, <1>4 DEF Init, TypeOK

LEMMA NextTypeOK == TypeOK /\ [Next]_vars => TypeOK'
<1> SUFFICES ASSUME TypeOK, [Next]_vars PROVE TypeOK'
  OBVIOUS
<1>1. ASSUME NEW n \in JobNames, PushJob(n) PROVE TypeOK'
  <2>1. PICK d \in CronNext(now) : AddHandler(n, d, FALSE, {})
    BY <1>1 DEF PushJob
  <2>2. d \in Nat
    BY DEF CronNext, TypeOK
  <2>. QED
    BY <1>1, <2>1, <2>2, AddHandlerTypeOK DEF PushJob, TypeOK
<1>2. ASSUME NEW m \in MetaNames, PushMetaJobList(m) PROVE TypeOK'
  <2>1. PICK d \in CronNext(now) : AddHandler(m, d, TRUE, ChildrenOf[m])
    BY <1>2 DEF PushMetaJobList
  <2>2. d \in Nat
    BY DEF CronNext, TypeOK
  <2>. QED
    BY <1>2, <2>1, <2>2, AddHandlerTypeOK DEF PushMetaJobList, TypeOK
<1>3. ASSUME NEW n \in TopNames, StopJob(n) PROVE TypeOK'
  <2>1. CASE names[n] # NoHandler
    <3>1. names[n] \in HandlerIds
      BY <2>1 DEF TypeOK
    <3>2. registered' \subseteq registered
      BY <1>3, <2>1 DEF StopJob, ReleaseJob
    <3>. QED
      BY <1>3, <2>1, <3>1, <3>2 DEF StopJob, ReleaseJob, TypeOK, HandlerIds
  <2>4. CASE names[n] = NoHandler
    BY <1>3, <2>4 DEF StopJob, TypeOK, HandlerIds
  <2>. QED
    BY <2>1, <2>4
<1>4. CASE StopAllJobs
  BY <1>4 DEF StopAllJobs, ReleaseJob, TypeOK, HandlerIds
<1>5. CASE Stop
  BY <1>5 DEF Stop, TypeOK, HandlerIds
<1>6. CASE Tick
  BY <1>6 DEF Tick, TypeOK, HandlerIds
<1>7. CASE Collect
  BY <1>7 DEF Collect, TypeOK, HandlerIds
<1>8. ASSUME NEW h \in ready, Fire(h) PROVE TypeOK'
  <2>1. h \in HandlerIds
    BY DEF TypeOK
  <2>2. hs[h] \in Handler
    BY <2>1, ElementOfSeq DEF TypeOK, HandlerIds
  <2>5. /\ hs[h].name \in TopNames
        /\ hs[h].meta \in BOOLEAN
    BY <2>2 DEF Handler
  <2>3. PICK d \in CronNext(now) :
            AddHandler(hs[h].name, AfterExecutionDeadline(d), hs[h].meta, {})
    BY <1>8, <2>5 DEF Fire, JobTimeoutHandler, MetaJobTimeoutHandler
  <2>4. AfterExecutionDeadline(d) \in Nat
    BY DEF CronNext, AfterExecutionDeadline, TypeOK
  <2>7. PICK nm \in TopNames, mt \in BOOLEAN, e \in Nat : AddHandler(nm, e, mt, {})
    BY <2>3, <2>4, <2>5
  <2>6. /\ hs' \in Seq(Handler)
        /\ HandlerIds \subseteq HandlerIds'
        /\ jobs' \subseteq HandlerIds'
        /\ names' \in [TopNames -> HandlerIds' \cup {NoHandler}]
    <3>1. {} \in SUBSET ChildNames
      OBVIOUS
    <3>. QED
      BY <2>7, <3>1, AddHandlerTypeOK, Zenon
  <2>. QED
    BY <1>8, <2>6 DEF Fire, TypeOK
<1>9. CASE Exit
  BY <1>9 DEF Exit, TypeOK, HandlerIds
<1>10. CASE UNCHANGED vars
  BY <1>10 DEF vars, TypeOK, HandlerIds
<1>. QED
  BY <1>1, <1>2, <1>3, <1>4, <1>5, <1>6, <1>7, <1>8, <1>9, <1>10 DEF Next

(* The state of the cron manager always has the types TypeOK states. *)
THEOREM TypeCorrect == Spec => []TypeOK
BY InitTypeOK, NextTypeOK, PTL DEF Spec

-----------------------------------------------------------------------------
(* names_ only points at live handlers carrying the name.  The invariant  *)
(* is inductive together with TypeOK: the one non-obvious step is Collect, *)
(* which must erase the name of every due live handler, because a bound   *)
(* handler that stays bound after the sweep has to stay in jobs_.          *)

(* A handler added by AddHandler, with removed_ untouched, keeps every    *)
(* existing binding live and binds its own name to itself.                *)
LEMMA AddHandlerNameBinding ==
    ASSUME TypeOK, NameBindingIsLive,
           NEW n \in TopNames, NEW d \in Nat, NEW isMeta \in BOOLEAN,
           NEW cn \in SUBSET ChildNames,
           AddHandler(n, d, isMeta, cn),
           removed' = removed
    PROVE  NameBindingIsLive'
<1> SUFFICES ASSUME NEW m \in TopNames, names'[m] # NoHandler
             PROVE  /\ names'[m] \in jobs'
                    /\ names'[m] \notin removed'
                    /\ hs'[names'[m]].name = m
  BY DEF NameBindingIsLive
<1>1. Len(hs) \in Nat
  BY LenProperties DEF TypeOK
<1>2. [name |-> n, deadline |-> d, meta |-> isMeta, jobNames |-> cn] \in Handler
  BY DEF Handler
<1>3. /\ \A i \in 1 .. Len(hs) : hs'[i] = hs[i]
      /\ hs'[Len(hs) + 1].name = n
  BY <1>2, AppendProperties DEF AddHandler, TypeOK
<1>4. /\ jobs' = jobs \cup {Len(hs) + 1}
      /\ names' = [names EXCEPT ![n] = Len(hs) + 1]
  BY DEF AddHandler
<1>5. removed \subseteq 1 .. Len(hs) /\ jobs \subseteq 1 .. Len(hs)
  BY DEF TypeOK, HandlerIds
<1>6. CASE m = n
  BY <1>1, <1>3, <1>4, <1>5, <1>6 DEF TypeOK
<1>7. CASE m # n
  <2>1. names'[m] = names[m] /\ names[m] # NoHandler
    BY <1>4, <1>7 DEF TypeOK
  <2>2. /\ names[m] \in jobs
        /\ names[m] \notin removed
        /\ hs[names[m]].name = m
    BY <2>1 DEF NameBindingIsLive
  <2>3. hs'[names[m]] = hs[names[m]]
    BY <1>3, <1>5, <2>2
  <2>4. names[m] \in jobs'
    BY <1>4, <2>2
  <2>. QED
    BY <2>1, <2>2, <2>3, <2>4
<1>. QED
  BY <1>6, <1>7

LEMMA InitNameBinding == Init => NameBindingIsLive
BY DEF Init, NameBindingIsLive

LEMMA NextNameBinding ==
    TypeOK /\ NameBindingIsLive /\ [Next]_vars => NameBindingIsLive'
<1> SUFFICES ASSUME TypeOK, NameBindingIsLive, [Next]_vars
             PROVE  NameBindingIsLive'
  OBVIOUS
<1>1. ASSUME NEW n \in JobNames, PushJob(n) PROVE NameBindingIsLive'
  <2>1. PICK d \in CronNext(now) : AddHandler(n, d, FALSE, {})
    BY <1>1 DEF PushJob
  <2>2. d \in Nat /\ {} \in SUBSET ChildNames /\ removed' = removed
    BY <1>1 DEF CronNext, TypeOK, PushJob
  <2>. QED
    BY <2>1, <2>2, AddHandlerNameBinding, Zenon
<1>2. ASSUME NEW m \in MetaNames, PushMetaJobList(m) PROVE NameBindingIsLive'
  <2>1. PICK d \in CronNext(now) : AddHandler(m, d, TRUE, ChildrenOf[m])
    BY <1>2 DEF PushMetaJobList
  <2>2. d \in Nat /\ ChildrenOf[m] \in SUBSET ChildNames /\ removed' = removed
    BY <1>2 DEF CronNext, TypeOK, PushMetaJobList
  <2>. QED
    BY <2>1, <2>2, AddHandlerNameBinding, Zenon
<1>3. ASSUME NEW n \in TopNames, StopJob(n) PROVE NameBindingIsLive'
  <2> SUFFICES ASSUME NEW m \in TopNames, names'[m] # NoHandler
               PROVE  /\ names'[m] \in jobs'
                      /\ names'[m] \notin removed'
                      /\ hs'[names'[m]].name = m
    BY DEF NameBindingIsLive
  <2>1. CASE names[n] # NoHandler
    <3>1. m # n /\ names'[m] = names[m]
      BY <1>3, <2>1 DEF StopJob, TypeOK
    <3>2. /\ names[m] \in jobs
          /\ names[m] \notin removed
          /\ hs[names[m]].name = m
          /\ hs[names[n]].name = n
      BY <2>1, <3>1 DEF NameBindingIsLive
    <3>3. removed' = removed \cup {names[n]}
      BY <1>3, <2>1 DEF StopJob, ReleaseJob
    <3>. QED
      BY <1>3, <3>1, <3>2, <3>3 DEF StopJob
  <2>2. CASE names[n] = NoHandler
    BY <1>3, <2>2 DEF StopJob, NameBindingIsLive
  <2>. QED
    BY <2>1, <2>2
<1>4. CASE StopAllJobs
  BY <1>4 DEF StopAllJobs, NameBindingIsLive
<1>5. CASE Stop
  BY <1>5 DEF Stop, NameBindingIsLive
<1>6. CASE Tick
  BY <1>6 DEF Tick, NameBindingIsLive
<1>7. CASE Collect
  <2> DEFINE due  == {h \in jobs : hs[h].deadline <= now}
             fire == {h \in due : h \notin removed}
  <2> SUFFICES ASSUME NEW m \in TopNames, names'[m] # NoHandler
               PROVE  /\ names'[m] \in jobs'
                      /\ names'[m] \notin removed'
                      /\ hs'[names'[m]].name = m
    BY DEF NameBindingIsLive
  <2>1. /\ jobs' = jobs \ due
        /\ names' = [k \in TopNames |->
                       IF \E h \in fire : hs[h].name = k
                         THEN NoHandler ELSE names[k]]
        /\ UNCHANGED <<hs, removed>>
    BY <1>7 DEF Collect
  <2>2. ~(\E h \in fire : hs[h].name = m) /\ names'[m] = names[m]
    BY <2>1
  <2>3. /\ names[m] \in jobs
        /\ names[m] \notin removed
        /\ hs[names[m]].name = m
    BY <2>2 DEF NameBindingIsLive
  <2>4. names[m] \notin due
    BY <2>2, <2>3
  <2>. QED
    BY <2>1, <2>2, <2>3, <2>4
<1>8. ASSUME NEW h \in ready, Fire(h) PROVE NameBindingIsLive'
  <2>1. hs[h] \in Handler
    BY ElementOfSeq DEF TypeOK, HandlerIds
  <2>2. /\ hs[h].name \in TopNames
        /\ hs[h].meta \in BOOLEAN
    BY <2>1 DEF Handler
  <2>3. PICK d \in CronNext(now) :
            AddHandler(hs[h].name, AfterExecutionDeadline(d), hs[h].meta, {})
    BY <1>8, <2>2 DEF Fire, JobTimeoutHandler, MetaJobTimeoutHandler
  <2>4. AfterExecutionDeadline(d) \in Nat
    BY DEF CronNext, AfterExecutionDeadline, TypeOK
  <2>5. PICK nm \in TopNames, mt \in BOOLEAN, e \in Nat : AddHandler(nm, e, mt, {})
    BY <2>2, <2>3, <2>4
  <2>6. {} \in SUBSET ChildNames /\ removed' = removed
    BY <1>8 DEF Fire
  <2>. QED
    BY <2>5, <2>6, AddHandlerNameBinding, Zenon
<1>9. CASE Exit
  BY <1>9 DEF Exit, NameBindingIsLive
<1>10. CASE UNCHANGED vars
  BY <1>10 DEF vars, NameBindingIsLive
<1>. QED
  BY <1>1, <1>2, <1>3, <1>4, <1>5, <1>6, <1>7, <1>8, <1>9, <1>10 DEF Next

(* The sweep thread's erasure of names_ in CheckTimeouts, StopJob's and   *)
(* StopAllJobs' releases and the re-arm of a fired handler keep every     *)
(* binding of names_ on a handler that is armed, not tombstoned and       *)
(* carries the name.                                                       *)
THEOREM NameBindingInvariant == Spec => []NameBindingIsLive
BY InitTypeOK, NextTypeOK, InitNameBinding, NextNameBinding, PTL DEF Spec

-----------------------------------------------------------------------------
(* A handler collected into `ready` is neither tombstoned nor still in    *)
(* jobs_: CheckTimeouts moves only live entries, and moves them out of the *)
(* deadline map, so a StopJob or StopAllJobs that runs before the call to *)
(* HandleTimeout cannot reach it through names_ or jobs_.                  *)
ReadyInv ==
    /\ TypeOK
    /\ NameBindingIsLive
    /\ ready \cap removed = {}
    /\ ready \cap jobs = {}

LEMMA InitReadyInv == Init => ReadyInv
BY InitTypeOK, InitNameBinding DEF Init, ReadyInv

LEMMA NextReadyInv == ReadyInv /\ [Next]_vars => ReadyInv'
<1> SUFFICES ASSUME ReadyInv, [Next]_vars
             PROVE  ReadyInv'
  OBVIOUS
<1>1. TypeOK' /\ NameBindingIsLive'
  BY NextTypeOK, NextNameBinding DEF ReadyInv
<1>2. ready \subseteq 1 .. Len(hs) /\ Len(hs) \in Nat
  BY LenProperties DEF ReadyInv, TypeOK, HandlerIds
<1> SUFFICES ready' \cap removed' = {} /\ ready' \cap jobs' = {}
  BY <1>1 DEF ReadyInv
<1>3. ASSUME NEW n \in JobNames, PushJob(n) PROVE ready' \cap removed' = {} /\ ready' \cap jobs' = {}
  BY <1>2, <1>3 DEF PushJob, AddHandler, ReadyInv
<1>4. ASSUME NEW m \in MetaNames, PushMetaJobList(m) PROVE ready' \cap removed' = {} /\ ready' \cap jobs' = {}
  BY <1>2, <1>4 DEF PushMetaJobList, AddHandler, ReadyInv
<1>5. ASSUME NEW n \in TopNames, StopJob(n) PROVE ready' \cap removed' = {} /\ ready' \cap jobs' = {}
  <2>1. CASE names[n] # NoHandler
    <3>1. names[n] \in jobs
      BY <2>1 DEF ReadyInv, NameBindingIsLive
    <3>. QED
      BY <1>5, <2>1, <3>1 DEF StopJob, ReleaseJob, ReadyInv
  <2>3. CASE names[n] = NoHandler
    BY <1>5, <2>3 DEF StopJob, ReadyInv
  <2>. QED
    BY <2>1, <2>3
<1>6. CASE StopAllJobs
  BY <1>6 DEF StopAllJobs, ReleaseJob, ReadyInv
<1>7. CASE Collect
  BY <1>7 DEF Collect, ReadyInv
<1>8. ASSUME NEW h \in ready, Fire(h) PROVE ready' \cap removed' = {} /\ ready' \cap jobs' = {}
  <2>2. jobs' = jobs \cup {Len(hs) + 1}
    BY <1>8 DEF Fire, JobTimeoutHandler, MetaJobTimeoutHandler, AddHandler
  <2>3. ready' \subseteq ready /\ removed' = removed
    BY <1>8 DEF Fire
  <2>4. Len(hs) + 1 \notin ready
    BY <1>2
  <2>. QED
    BY <2>2, <2>3, <2>4 DEF ReadyInv
<1>9. CASE Stop \/ Tick \/ Exit \/ UNCHANGED vars
  BY <1>9 DEF Stop, Tick, Exit, vars, ReadyInv
<1>. QED
  BY <1>3, <1>4, <1>5, <1>6, <1>7, <1>8, <1>9 DEF Next

(* The loop over `ready` in CheckTimeouts never calls HandleTimeout on a  *)
(* handler whose removed_ flag is set, whatever StopJob and StopAllJobs    *)
(* do between the collection under the lock and the calls outside it.    *)
THEOREM NoFireAfterTombstoneHolds == Spec => NoFireAfterTombstone
<1>1. ReadyInv => \A h \in HandlerIds : Fire(h) => h \notin removed
  BY DEF ReadyInv, Fire
<1>2. Spec => []ReadyInv
  BY InitReadyInv, NextReadyInv, PTL DEF Spec
<1>. QED
  BY <1>1, <1>2, PTL DEF NoFireAfterTombstone

-----------------------------------------------------------------------------
(* A recurring job stays armed.  The invariant is not inductive alone:    *)
(* Collect overwrites `ready`, which is sound only because the sweep is   *)
(* at the top of its loop exactly when the previous batch is used up, and *)
(* StopJob tombstones the handler names_ binds, which carries the stopped *)
(* name (NameBindingIsLive) and so is no other job's witness.             *)

(* Some handler carrying name n has been created. *)
Pushed(n) == \E h \in HandlerIds : hs[h].name = n

(* An armed entry or a collected, not tombstoned handler carries n. *)
Armed(n) == \E h \in jobs \cup ready : h \notin removed /\ hs[h].name = n

(* The sweep reaches the top of Run's loop only with `ready` used up. *)
SweepInv == pc = "top" => ready = {}

ArmedInv ==
    /\ ReadyInv
    /\ SweepInv
    /\ RecurringJobsStayArmed

(* AddHandler appends one handler, with the given name, after the existing *)
(* ones, which it leaves as they are, and arms it; the new identity is    *)
(* fresh: neither armed, collected nor tombstoned before.                  *)
LEMMA AddHandlerAppends ==
    ASSUME TypeOK,
           NEW nm \in TopNames, NEW d \in Nat, NEW isMeta \in BOOLEAN,
           NEW cn \in SUBSET ChildNames,
           AddHandler(nm, d, isMeta, cn)
    PROVE  /\ HandlerIds' = HandlerIds \cup {Len(hs) + 1}
           /\ \A i \in HandlerIds : hs'[i] = hs[i]
           /\ hs'[Len(hs) + 1].name = nm
           /\ jobs' = jobs \cup {Len(hs) + 1}
           /\ Len(hs) + 1 \notin removed \cup ready \cup jobs
<1>1. Len(hs) \in Nat
  BY LenProperties DEF TypeOK
<1>2. [name |-> nm, deadline |-> d, meta |-> isMeta, jobNames |-> cn] \in Handler
  BY DEF Handler
<1>3. /\ Len(hs') = Len(hs) + 1
      /\ \A i \in 1 .. Len(hs) : hs'[i] = hs[i]
      /\ hs'[Len(hs) + 1].name = nm
  BY <1>2, AppendProperties DEF AddHandler, TypeOK
<1>. QED
  BY <1>1, <1>3 DEF AddHandler, TypeOK, HandlerIds

LEMMA InitArmedInv == Init => ArmedInv
BY InitReadyInv DEF Init, ArmedInv, SweepInv, RecurringJobsStayArmed, HandlerIds

LEMMA NextArmedInv == ArmedInv /\ [Next]_vars => ArmedInv'
<1> SUFFICES ASSUME ArmedInv, [Next]_vars
             PROVE  ArmedInv'
  OBVIOUS
<1>1. ReadyInv'
  BY NextReadyInv DEF ArmedInv
<1>2. SweepInv'
  <2>1. CASE Collect
    BY <2>1 DEF Collect, SweepInv
  <2>2. ASSUME NEW h \in ready, Fire(h) PROVE SweepInv'
    BY <2>2 DEF Fire, SweepInv
  <2>3. CASE Exit
    BY <2>3 DEF Exit, SweepInv
  <2>4. CASE \/ \E k \in JobNames : PushJob(k)
             \/ \E m \in MetaNames : PushMetaJobList(m)
             \/ \E k \in TopNames : StopJob(k)
             \/ StopAllJobs \/ Stop \/ Tick \/ UNCHANGED vars
    BY <2>4 DEF ArmedInv, SweepInv, PushJob, PushMetaJobList, StopJob,
                StopAllJobs, Stop, Tick, vars
  <2>. QED
    BY <2>1, <2>2, <2>3, <2>4 DEF Next
<1>3. RecurringJobsStayArmed'
  <2> USE DEF ArmedInv
  <2>0. RecurringJobsStayArmed = \A n \in TopNames \ stopRequested : Pushed(n) => Armed(n)
    BY DEF RecurringJobsStayArmed, Pushed, Armed
  <2> SUFFICES ASSUME NEW n \in TopNames \ stopRequested', Pushed(n)'
               PROVE  Armed(n)'
    BY DEF RecurringJobsStayArmed, Pushed, Armed
  <2>1. TypeOK /\ NameBindingIsLive
    BY DEF ReadyInv
  <2>2. ASSUME NEW k \in JobNames \cup MetaNames,
               NEW d \in Nat, NEW isMeta \in BOOLEAN, NEW cn \in SUBSET ChildNames,
               AddHandler(k, d, isMeta, cn),
               UNCHANGED << removed, ready >>,
               stopRequested' = stopRequested \ {k}
        PROVE  Armed(n)'
    <3>1. /\ HandlerIds' = HandlerIds \cup {Len(hs) + 1}
          /\ \A i \in HandlerIds : hs'[i] = hs[i]
          /\ hs'[Len(hs) + 1].name = k
          /\ jobs' = jobs \cup {Len(hs) + 1}
          /\ Len(hs) + 1 \notin removed \cup ready \cup jobs
      BY <2>1, <2>2, AddHandlerAppends
    <3>2. CASE n = k
      BY <2>2, <3>1, <3>2 DEF Armed
    <3>3. CASE n # k
      <4>1. Pushed(n)
        BY <3>1, <3>3 DEF Pushed
      <4>2. n \notin stopRequested
        BY <2>2, <3>3
      <4>3. PICK w \in jobs \cup ready : w \notin removed /\ hs[w].name = n
        BY <2>0, <4>1, <4>2 DEF Armed
      <4>4. w \in HandlerIds
        BY <2>1 DEF TypeOK
      <4>. QED
        BY <2>2, <3>1, <4>3, <4>4 DEF Armed
    <3>. QED
      BY <3>2, <3>3
  <2>3. ASSUME NEW k \in JobNames, PushJob(k) PROVE Armed(n)'
    <3>1. PICK d \in CronNext(now) : AddHandler(k, d, FALSE, {})
      BY <2>3 DEF PushJob
    <3>2. d \in Nat
      BY <2>1 DEF CronNext, TypeOK
    <3>. QED
      BY <2>2, <2>3, <3>1, <3>2 DEF PushJob
  <2>4. ASSUME NEW m \in MetaNames, PushMetaJobList(m) PROVE Armed(n)'
    <3>1. PICK d \in CronNext(now) : AddHandler(m, d, TRUE, ChildrenOf[m])
      BY <2>4 DEF PushMetaJobList
    <3>2. d \in Nat /\ ChildrenOf[m] \in SUBSET ChildNames
      BY <2>1, CronAssumption DEF CronNext, TypeOK
    <3>. QED
      BY <2>2, <2>4, <3>1, <3>2 DEF PushMetaJobList
  <2>5. ASSUME NEW k \in TopNames, StopJob(k) PROVE Armed(n)'
    <3>1. n # k /\ n \notin stopRequested /\ UNCHANGED << hs, jobs, ready >>
      BY <2>5 DEF StopJob
    <3>2. Pushed(n)
      BY <3>1 DEF Pushed, HandlerIds
    <3>3. PICK w \in jobs \cup ready : w \notin removed /\ hs[w].name = n
      BY <2>0, <3>1, <3>2 DEF Armed
    <3>4. CASE names[k] # NoHandler
      <4>1. hs[names[k]].name = k
        BY <2>1, <3>4 DEF NameBindingIsLive
      <4>2. removed' = removed \cup {names[k]}
        BY <2>5, <3>4 DEF StopJob, ReleaseJob
      <4>. QED
        BY <3>1, <3>3, <4>1, <4>2 DEF Armed
    <3>5. CASE names[k] = NoHandler
      BY <2>5, <3>1, <3>3, <3>5 DEF StopJob, Armed
    <3>. QED
      BY <3>4, <3>5
  <2>6. CASE StopAllJobs
    BY <2>6 DEF StopAllJobs
  <2>7. CASE Collect
    <3> DEFINE due  == {h \in jobs : hs[h].deadline <= now}
               fire == {h \in due : h \notin removed}
    <3>1. /\ ready' = fire
          /\ jobs' = jobs \ due
          /\ UNCHANGED << hs, removed, stopRequested >>
          /\ ready = {}
      BY <2>7 DEF Collect, SweepInv
    <3>2. Pushed(n)
      BY <3>1 DEF Pushed, HandlerIds
    <3>3. PICK w \in jobs : w \notin removed /\ hs[w].name = n
      BY <2>0, <3>1, <3>2 DEF Armed
    <3>. QED
      BY <3>1, <3>3 DEF Armed
  <2>8. ASSUME NEW h \in ready, Fire(h) PROVE Armed(n)'
    <3>1. hs[h] \in Handler
      BY <2>1, ElementOfSeq DEF TypeOK, HandlerIds
    <3>2. /\ hs[h].name \in TopNames
          /\ hs[h].meta \in BOOLEAN
      BY <3>1 DEF Handler
    <3>3. PICK d \in CronNext(now) :
              AddHandler(hs[h].name, AfterExecutionDeadline(d), hs[h].meta, {})
      BY <2>8, <3>2 DEF Fire, JobTimeoutHandler, MetaJobTimeoutHandler
    <3>4. AfterExecutionDeadline(d) \in Nat
      BY <2>1 DEF CronNext, AfterExecutionDeadline, TypeOK
    <3>5. /\ HandlerIds' = HandlerIds \cup {Len(hs) + 1}
          /\ \A i \in HandlerIds : hs'[i] = hs[i]
          /\ hs'[Len(hs) + 1].name = hs[h].name
          /\ jobs' = jobs \cup {Len(hs) + 1}
          /\ Len(hs) + 1 \notin removed \cup ready \cup jobs
      BY <2>1, <3>2, <3>3, <3>4, AddHandlerAppends
    <3>6. /\ ready' = ready \ {h}
          /\ UNCHANGED << removed, stopRequested >>
      BY <2>8 DEF Fire
    <3>7. CASE n = hs[h].name
      BY <3>5, <3>6, <3>7 DEF Armed
    <3>8. CASE n # hs[h].name
      <4>1. Pushed(n)
        BY <3>5, <3>8 DEF Pushed
      <4>2. PICK w \in jobs \cup ready : w \notin removed /\ hs[w].name = n
        BY <2>0, <3>6, <4>1 DEF Armed
      <4>3. w # h /\ w \in HandlerIds
        BY <2>1, <3>8, <4>2 DEF TypeOK
      <4>. QED
        BY <3>5, <3>6, <4>2, <4>3 DEF Armed
    <3>. QED
      BY <3>7, <3>8
  <2>9. CASE Stop \/ Tick \/ Exit \/ UNCHANGED vars
    <3>1. UNCHANGED << hs, jobs, ready, removed, stopRequested >>
      BY <2>9 DEF Stop, Tick, Exit, vars
    <3>2. Pushed(n)
      BY <3>1 DEF Pushed, HandlerIds
    <3>. QED
      BY <2>0, <3>1, <3>2 DEF Armed
  <2>. QED
    BY <2>3, <2>4, <2>5, <2>6, <2>7, <2>8, <2>9 DEF Next
<1>. QED
  BY <1>1, <1>2, <1>3 DEF ArmedInv

(* From a job's first push until a user stops it, the job always has an   *)
(* armed entry in jobs_ or a collected handler that HandleTimeout will    *)
(* re-arm: CheckTimeouts taking due entries out of jobs_, the re-arm done *)
(* outside the lock, and StopJob and StopAllJobs on other names never     *)
(* leave a live recurring job without one.                                 *)
THEOREM RecurringJobsStayArmedHolds == Spec => []RecurringJobsStayArmed
<1>1. Spec => []ArmedInv
  BY InitArmedInv, NextArmedInv, PTL DEF Spec
<1>. QED
  BY <1>1, PTL DEF ArmedInv

=============================================================================
