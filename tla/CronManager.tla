---------------------------- MODULE CronManager ----------------------------
(***************************************************************************)
(* The master's cron manager (src/src/master/cron_manager.cpp).           *)
(*                                                                         *)
(* The manager keeps a deadline-ordered multimap jobs_ from deadline to    *)
(* timeout handler and a map names_ from job name to handler, both under   *)
(* jobsMut_.  A dedicated sweep thread (Run) wakes every second and calls  *)
(* CheckTimeouts, which collects the due, non-tombstoned handlers under    *)
(* the lock and calls their HandleTimeout outside it.  HandleTimeout gives *)
(* the job description back to the job manager, which re-arms the cron    *)
(* entry through PushJob(job, true) or PushMetaJob(group).  Users arm     *)
(* entries with PushJob(job, false) / PushMetaJob(list) and cancel them    *)
(* with StopJob(name); shutdown calls StopAllJobs.                         *)
(*                                                                         *)
(* Every shared_ptr handler ever created is an element of the sequence hs; *)
(* its index is its identity.  Time is counted in whole minutes.  The job  *)
(* manager's job-name registry (RegisterJobName / ReleaseJobName) is the   *)
(* set registered.                                                         *)
(***************************************************************************)
EXTENDS Naturals, Sequences, FiniteSets

CONSTANTS
    JobNames,    \* names of plain cron jobs
    MetaNames,   \* names of cron meta-jobs (job groups)
    ChildNames,  \* non-empty names of the jobs inside the groups
    ChildrenOf,  \* ChildrenOf[m]: the named jobs of group m
    MaxClock,    \* last minute the model clock reaches
    MaxHandlers, \* bound on the handlers users create (re-arming is unbounded)
    NoHandler    \* "no entry" in names_

TopNames == JobNames \cup MetaNames

ASSUME CronAssumption ==
    /\ JobNames \cap MetaNames = {}
    /\ ChildNames \cap TopNames = {}
    /\ ChildrenOf \in [MetaNames -> SUBSET ChildNames]
    /\ MaxClock \in Nat
    /\ MaxHandlers \in Nat
    /\ NoHandler \notin Nat

VARIABLES
    now,           \* std::chrono::system_clock::now(), in minutes
    hs,            \* every handler object created so far
    removed,       \* the handlers whose removed_ flag is set
    jobs,          \* jobs_: the handlers in the deadline map
    names,         \* names_: name -> handler
    registered,    \* the job manager's set of registered job names
    pc,            \* sweep thread: "top" of the Run loop, "fire", "done"
    ready,         \* the local vector `ready` of CheckTimeouts
    stopped,       \* stopped_
    stopRequested  \* history: top-level names a user has stopped since their last push

vars == <<now, hs, removed, jobs, names, registered, pc, ready, stopped, stopRequested>>

Handler == [name : TopNames, deadline : Nat, meta : BOOLEAN,
            jobNames : SUBSET ChildNames]

HandlerIds == 1 .. Len(hs)

-----------------------------------------------------------------------------
(* Helpers *)

(* job->GetCron().Next(now): the next minute the cron expression matches.  *)
(* The code allows it to be `now` itself (hence the `deadline <= now`      *)
(* checks), so it is either this minute or the next one.                   *)
CronNext(t) == {t, t + 1}

(* `if ( deadline <= now ) deadline += std::chrono::minutes( 1 )` *)
AfterExecutionDeadline(d) == IF d <= now THEN d + 1 ELSE d

(* Mutant: names_ bound to the index of the previous handler (off by one). *)
AddHandlerOffByOne(n, d, isMeta, childNames) ==
    /\ hs' = Append(hs, [name |-> n, deadline |-> d, meta |-> isMeta,
                         jobNames |-> childNames])
    /\ jobs' = jobs \cup {Len(hs) + 1}
    /\ names' = [names EXCEPT ![n] = Len(hs)]

(* make_shared<...TimeoutHandler>(), jobs_.emplace( deadline, handler ) and *)
(* names_[ name ] = handler, all three done by every Push* function.        *)
AddHandler(n, d, isMeta, childNames) ==
    /\ hs' = Append(hs, [name |-> n, deadline |-> d, meta |-> isMeta,
                         jobNames |-> childNames])
    /\ jobs' = jobs \cup {Len(hs) + 1}
    /\ names' = [names EXCEPT ![n] = Len(hs) + 1]

(* ReleaseJob applied to each handler of H: set removed_ and release the   *)
(* handler's own name and, for a meta handler, the names in its jobNames.  *)
ReleaseJob(H) ==
    /\ removed' = removed \cup H
    /\ registered' = registered \
                       UNION {hs[h].jobNames \cup {hs[h].name} : h \in H}

(* The order of the multimap: by deadline, equal deadlines in insertion    *)
(* order (a later handler has a larger index).                             *)
Precedes(h, o) ==
    \/ hs[h].deadline < hs[o].deadline
    \/ hs[h].deadline = hs[o].deadline /\ h <= o

-----------------------------------------------------------------------------
(* Operations of the users and of the job manager *)

(* PushJob( job, false ): a plain cron job submitted by a user.  The job   *)
(* manager only submits a name it has not registered.                      *)
PushJob(n) ==
    /\ n \notin registered
    /\ Len(hs) < MaxHandlers
    /\ \E d \in CronNext(now) : AddHandler(n, d, FALSE, {})
    /\ registered' = registered \cup {n}
    /\ stopRequested' = stopRequested \ {n}
    /\ UNCHANGED <<now, removed, pc, ready, stopped>>

(* PushMetaJob( list<JobPtr> ): a cron meta-job submitted by a user; the  *)
(* group name and every child name are registered and kept in jobNames.    *)
PushMetaJobList(m) ==
    /\ m \notin registered
    /\ Len(hs) < MaxHandlers
    /\ \E d \in CronNext(now) : AddHandler(m, d, TRUE, ChildrenOf[m])
    /\ registered' = registered \cup {m} \cup ChildrenOf[m]
    /\ stopRequested' = stopRequested \ {m}
    /\ UNCHANGED <<now, removed, pc, ready, stopped>>

(* StopJob( name ) *)
StopJob(n) ==
    /\ IF names[n] # NoHandler
         THEN /\ ReleaseJob({names[n]})
              /\ names' = [names EXCEPT ![n] = NoHandler]
         ELSE UNCHANGED <<removed, registered, names>>
    /\ stopRequested' = stopRequested \cup {n}
    /\ UNCHANGED <<now, hs, jobs, pc, ready, stopped>>

(* StopAllJobs(), also reached through Shutdown() *)
StopAllJobs ==
    /\ ReleaseJob(jobs)
    /\ jobs' = {}
    /\ names' = [n \in TopNames |-> NoHandler]
    /\ stopRequested' = TopNames
    /\ UNCHANGED <<now, hs, pc, ready, stopped>>

(* Stop(): stopped_ = true and wake the sweep thread. *)
Stop ==
    /\ ~stopped
    /\ stopped' = TRUE
    /\ UNCHANGED <<now, hs, removed, jobs, names, registered, pc, ready, stopRequested>>

(* The wall clock advances by a minute. *)
Tick ==
    /\ now < MaxClock
    /\ now' = now + 1
    /\ UNCHANGED <<hs, removed, jobs, names, registered, pc, ready, stopped, stopRequested>>

-----------------------------------------------------------------------------
(* The sweep thread: Run() and CheckTimeouts() *)

(* Mutant: the due handlers are not erased from names_. *)
CollectKeepNames ==
    /\ pc = "top"
    /\ ~stopped
    /\ LET due  == {h \in jobs : hs[h].deadline <= now}
           fire == {h \in due : h \notin removed}
       IN  /\ ready' = fire
           /\ jobs' = jobs \ due
           /\ UNCHANGED names
           /\ pc' = IF fire = {} THEN "top" ELSE "fire"
    /\ UNCHANGED <<now, hs, removed, registered, stopped, stopRequested>>

(* Mutant: the `if ( !handler->removed_ )` test is dropped. *)
CollectTombstones ==
    /\ pc = "top"
    /\ ~stopped
    /\ LET due  == {h \in jobs : hs[h].deadline <= now}
       IN  /\ ready' = due
           /\ jobs' = jobs \ due
           /\ names' = [n \in TopNames |->
                          IF \E h \in due : hs[h].name = n
                            THEN NoHandler ELSE names[n]]
           /\ pc' = IF due = {} THEN "top" ELSE "fire"
    /\ UNCHANGED <<now, hs, removed, registered, stopped, stopRequested>>

(* Mutant: `if ( now <= jobPlannedTime ) break;`, an entry due this very  *)
(* minute waits for the next one.                                          *)
CollectStrict ==
    /\ pc = "top"
    /\ ~stopped
    /\ LET due  == {h \in jobs : hs[h].deadline < now}
           fire == {h \in due : h \notin removed}
       IN  /\ ready' = fire
           /\ jobs' = jobs \ due
           /\ names' = [n \in TopNames |->
                          IF \E h \in fire : hs[h].name = n
                            THEN NoHandler ELSE names[n]]
           /\ pc' = IF fire = {} THEN "top" ELSE "fire"
    /\ UNCHANGED <<now, hs, removed, registered, stopped, stopRequested>>

(* while( !stopped_ ) { timer_.Wait( 1000 ); CheckTimeouts(); }, the      *)
(* locked block of CheckTimeouts: every entry with deadline <= now leaves  *)
(* jobs_; the ones not tombstoned go to `ready` and lose their name.       *)
Collect ==
    /\ pc = "top"
    /\ ~stopped
    /\ LET due  == {h \in jobs : hs[h].deadline <= now}
           fire == {h \in due : h \notin removed}
       IN  /\ ready' = fire
           /\ jobs' = jobs \ due
           /\ names' = [n \in TopNames |->
                          IF \E h \in fire : hs[h].name = n
                            THEN NoHandler ELSE names[n]]
           /\ pc' = IF fire = {} THEN "top" ELSE "fire"
    /\ UNCHANGED <<now, hs, removed, registered, stopped, stopRequested>>

(* Mutant: a deadline <= now is not moved on; the job is simply not      *)
(* re-armed (an early return instead of the one-minute shift).             *)
JobTimeoutHandlerSkipPast(h) ==
    /\ ~hs[h].meta
    /\ \E d \in CronNext(now) :
          IF d <= now THEN UNCHANGED <<hs, jobs, names>>
                      ELSE AddHandler(hs[h].name, d, FALSE, {})

(* JobTimeoutHandler::HandleTimeout: BuildAndPushJob( -1, desc, true )     *)
(* hands the job to the queue and re-arms it through PushJob( job, true ): *)
(* no name registration, and a deadline <= now is moved a minute on.       *)
JobTimeoutHandler(h) ==
    /\ ~hs[h].meta
    /\ \E d \in CronNext(now) :
          AddHandler(hs[h].name, AfterExecutionDeadline(d), FALSE, {})

(* MetaJobTimeoutHandler::HandleTimeout: BuildAndPushJob( -1, desc, true ) *)
(* re-arms the group through PushMetaJob( group ), which creates a fresh   *)
(* MetaJobTimeoutHandler whose jobNames stays empty.                       *)
MetaJobTimeoutHandler(h) ==
    /\ hs[h].meta
    /\ \E d \in CronNext(now) :
          AddHandler(hs[h].name, AfterExecutionDeadline(d), TRUE, {})

(* The loop over `ready` outside the lock: handler->HandleTimeout(), in   *)
(* the order the handlers were collected.                                  *)
Fire(h) ==
    /\ pc = "fire"
    /\ h \in ready
    /\ \A o \in ready : Precedes(h, o)
    /\ ready' = ready \ {h}
    /\ pc' = IF ready' = {} THEN "top" ELSE "fire"
    /\ JobTimeoutHandler(h) \/ MetaJobTimeoutHandler(h)
    /\ UNCHANGED <<now, removed, registered, stopped, stopRequested>>

(* The Run loop sees stopped_ and returns. *)
Exit ==
    /\ pc = "top"
    /\ stopped
    /\ pc' = "done"
    /\ UNCHANGED <<now, hs, removed, jobs, names, registered, ready, stopped, stopRequested>>

-----------------------------------------------------------------------------
Init ==
    /\ now = 0
    /\ hs = << >>
    /\ removed = {}
    /\ jobs = {}
    /\ names = [n \in TopNames |-> NoHandler]
    /\ registered = {}
    /\ pc = "top"
    /\ ready = {}
    /\ stopped = FALSE
    /\ stopRequested = {}

Next ==
    \/ \E n \in JobNames : PushJob(n)
    \/ \E m \in MetaNames : PushMetaJobList(m)
    \/ \E n \in TopNames : StopJob(n)
    \/ StopAllJobs
    \/ Stop
    \/ Tick
    \/ Collect
    \/ \E h \in ready : Fire(h)
    \/ Exit

(* The sweep thread is a dedicated thread that wakes at least once a      *)
(* second, so it is weakly fair; users and the clock get no fairness.      *)
Fairness ==
    /\ WF_vars(Collect)
    /\ WF_vars(\E h \in ready : Fire(h))

Spec == Init /\ [][Next]_vars

FairSpec == Spec /\ Fairness

-----------------------------------------------------------------------------
(* Properties *)

TypeOK ==
    /\ now \in 0 .. MaxClock
    /\ hs \in Seq(Handler)
    /\ removed \subseteq HandlerIds
    /\ jobs \subseteq HandlerIds
    /\ names \in [TopNames -> HandlerIds \cup {NoHandler}]
    /\ registered \subseteq TopNames \cup ChildNames
    /\ pc \in {"top", "fire", "done"}
    /\ ready \subseteq HandlerIds
    /\ stopped \in BOOLEAN
    /\ stopRequested \subseteq TopNames

(* names_ only points at armed entries (spec 8.2): a name bound in names_ *)
(* is bound to a handler that is still in the deadline map, is not        *)
(* tombstoned and carries that name.  Collect erasing names, the re-arm   *)
(* from Fire, StopJob and StopAllJobs all have to keep it.                 *)
NameBindingIsLive ==
    \A n \in TopNames :
        names[n] # NoHandler =>
            /\ names[n] \in jobs
            /\ names[n] \notin removed
            /\ hs[names[n]].name = n

(* A handler is never fired after being tombstoned (spec 4.5, 8.3): when  *)
(* the loop over `ready` calls HandleTimeout, the handler's removed_ flag  *)
(* is still false, although StopJob and StopAllJobs may run between the    *)
(* collection and the call.                                                *)
NoFireAfterTombstone ==
    [][\A h \in HandlerIds : Fire(h) => h \notin removed]_vars

(* Every due, armed entry is eventually collected and fired, unless it is *)
(* tombstoned or the sweep thread is stopped (the sweep collects every     *)
(* entry whose deadline is <= now, not only the earlier ones).  A user     *)
(* push begets at most MaxClock + 1 re-armed handlers, which bounds ids.   *)
DueEntriesFire ==
    \A i \in 1 .. (MaxHandlers * (MaxClock + 2)) :
        (i \in HandlerIds /\ i \in jobs /\ i \notin removed /\ hs[i].deadline <= now)
          ~> (i \notin jobs \cup ready \/ i \in removed \/ stopped)

(* A recurring job is never lost: from its push until a user stops it, a *)
(* job name always has an armed entry in jobs_ or a handler in `ready`     *)
(* that will re-arm it.  The sweep removes the due entries from jobs_ and  *)
(* the firing puts a new one back, in two separate steps.                  *)
RecurringJobsStayArmed ==
    \A n \in TopNames \ stopRequested :
        (\E h \in HandlerIds : hs[h].name = n) =>
            \E h \in jobs \cup ready : h \notin removed /\ hs[h].name = n

(* Once a user has stopped a cron job, it is never run again until it is  *)
(* pushed anew (spec 8, scenario S6: a StopJob between the sweep's        *)
(* collection and the HandleTimeout call must make the sweep skip it).     *)
StoppedJobNeverFires ==
    [][\A h \in HandlerIds : Fire(h) => hs[h].name \notin stopRequested]_vars

(* Stopping a meta-job releases the names of its member jobs with its own *)
(* (spec 4.5: StopJob marks the handler removed_ and releases names).      *)
ChildNamesReleasedWithGroup ==
    \A m \in MetaNames : m \notin registered => ChildrenOf[m] \cap registered = {}

=============================================================================
