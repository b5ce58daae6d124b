------------------------------- MODULE Engine -------------------------------
(***************************************************************************)
(* One investigation of the sentinel-osint engine                          *)
(* (crates/collectors/src/engine/mod.rs): Engine::register,                *)
(* Engine::investigate and the Run that executes it.                       *)
(*                                                                         *)
(* Two kinds of process run concurrently.  The engine's own future walks   *)
(* through the program counter `pc`; between two of its awaits it is       *)
(* sequential code, written here one loop iteration per step, because the  *)
(* collector tasks it has already spawned run on other worker threads      *)
(* meanwhile.  Every collector task is a record of `tasks`, whose index is *)
(* its tokio TaskId.  A task the engine has joined stays in `tasks`, so    *)
(* that the properties can relate the report to what the task did.         *)
(*                                                                         *)
(* An operator marked "Bug:" is a wrong version of the definition after    *)
(* it, used only to show that a property notices the mistake.              *)
(***************************************************************************)
EXTENDS Integers, Sequences, FiniteSets

CONSTANTS
  Sources,       \* source IDs
  Indicators,    \* indicators a target or a pivot candidate can be
  Observations,  \* observation IDs
  Edges,         \* relationships up to Relationship::is_same_edge
  Findings,      \* findings up to their evidence
  Submissions,   \* the collector lists build_engine may register, in order
  Targets,       \* the indicators an investigation may be asked for
  Supports,      \* Supports[s]: the indicators source s can handle
  OnPivots,      \* the sources whose scope is TargetAndPivots
  Ready,         \* the sources whose availability is Ready
  Investigable,  \* the indicators that pass ensure_investigable
  Collections,   \* Collections[<<s, i>>]: what s may return for i
  RequestsOf,    \* RequestsOf[s]: the most requests one run of s attempts
  MaxConcurrent, \* EngineConfig.max_concurrent_sources
  MaxRequests,   \* EngineConfig.max_requests
  MaxDepth,      \* PivotLimits.max_depth
  MaxEntities,   \* PivotLimits.max_entities
  MaxCandidates, \* MAX_PIVOT_CANDIDATES
  DepthCap       \* u8::MAX, where the pivot depth saturates

Runs == Sources \X Indicators

(* A relationship or a finding with the observations it cites. *)
Relationship == [edge : Edges, evidence : SUBSET Observations]
Finding == [finding : Findings, evidence : SUBSET Observations]

Collection ==
  [observations : SUBSET Observations,
   relationships : SUBSET Relationship,
   findings : SUBSET Finding,
   pivots : Seq(Indicators),
   failures : Nat]

ASSUME ConstantsAssumption ==
  /\ Submissions \subseteq Seq(Sources)
  /\ Targets \subseteq Indicators
  /\ Supports \in [Sources -> SUBSET Indicators]
  /\ OnPivots \subseteq Sources
  /\ Ready \subseteq Sources
  /\ Investigable \subseteq Indicators
  /\ Collections \in [Runs -> SUBSET Collection]
  /\ RequestsOf \in [Sources -> Nat]

ASSUME LimitsAssumption ==
  /\ MaxConcurrent \in Nat
  /\ MaxRequests \in Nat
  /\ MaxEntities \in Nat
  /\ MaxCandidates \in Nat
  /\ DepthCap \in Nat
  /\ MaxDepth \in 0..DepthCap

VARIABLES
  pc,            \* where the engine's future is
  submitted,     \* the collectors the caller registers
  registry,      \* Engine.collectors
  target,        \* Investigation.target
  tasks,         \* the spawned tasks, in TaskId order
  pending,       \* Run.pending: IDs of the tasks without a status
  permits,       \* available permits of Run.semaphore
  used,          \* RequestBudget.used
  visited,       \* Run.visited
  dropped,       \* Run.dropped
  considered,    \* Run.considered
  overflow,      \* Run.overflow
  cursor,        \* the loop of `schedule`: indicator, depth, next collector
  current,       \* the completion being handled: task, outcome, candidates left
  statuses,      \* Investigation.sources, by source and indicator
  observations,  \* Investigation.observations
  relationships, \* Investigation.relationships: the evidence of each edge
  findings,      \* Investigation.findings
  stats,         \* RunStats
  deadline       \* has the investigation's deadline passed?

setup == <<submitted, registry, target>>
book == <<visited, dropped, considered, overflow>>
knowledge == <<observations, relationships, findings>>
vars == <<pc, setup, tasks, pending, permits, used, book, cursor, current,
          statuses, knowledge, stats, deadline>>

-----------------------------------------------------------------------------
(* Values *)

Outcomes == {"succeeded", "partial", "unavailable", "budget_exhausted",
             "unsupported", "failed", "timed_out_source",
             "timed_out_investigation"}
Answers == {"succeeded", "partial"}

Capacity == IF MaxConcurrent = 0 THEN 1 ELSE MaxConcurrent

NoCollection == [observations |-> {}, relationships |-> {}, findings |-> {},
                 pivots |-> <<>>, failures |-> 0]

NewTask(s, i, d) == [source |-> s, indicator |-> i, depth |-> d,
                     state |-> "queued", result |-> "none",
                     collection |-> NoCollection,
                     requests |-> 0, denied |-> FALSE]

(* No completion is being handled: `complete` is not on the stack. *)
Idle == [task |-> 0, outcome |-> "none", candidates |-> <<>>]

NoCursor(i) == [indicator |-> i, depth |-> 0, next |-> 1]

RunOf(t) == <<tasks[t].source, tasks[t].indicator>>
Unjoined == {t \in DOMAIN tasks : tasks[t].state # "joined"}
Ended == {t \in DOMAIN tasks : tasks[t].state \in {"finished", "crashed"}}
Holders == {t \in DOMAIN tasks : tasks[t].state = "running"}

Registered == {registry[k] : k \in DOMAIN registry}

(* Investigation::record_source *)
Record(r, o) == [statuses EXCEPT ![r] = Append(@, o)]

-----------------------------------------------------------------------------
(* Registration and start *)

Init ==
  /\ pc = "register"
  /\ submitted \in Submissions
  /\ target \in Targets
  /\ registry = <<>>
  /\ tasks = <<>>
  /\ pending = {}
  /\ permits = Capacity
  /\ used = 0
  /\ visited = {}
  /\ dropped = {}
  /\ considered = {}
  /\ overflow = 0
  /\ cursor = NoCursor(target)
  /\ current = Idle
  /\ statuses = [r \in Runs |-> <<>>]
  /\ observations = {}
  /\ relationships = [e \in Edges |-> {}]
  /\ findings = {}
  /\ stats = [source_runs |-> 0, pivots_followed |-> 0, pivots_dropped |-> 0,
              requests_used |-> 0, deadline_exceeded |-> FALSE]
  /\ deadline = FALSE

NewID == submitted[Len(registry) + 1]

Taken == NewID \in Registered

(* Engine::register: an ID that is not taken yet. *)
Register ==
  /\ pc = "register"
  /\ Len(registry) < Len(submitted)
  /\ ~Taken
  /\ registry' = Append(registry, NewID)
  /\ UNCHANGED <<pc, submitted, target, tasks, pending, permits, used, book,
                 cursor, current, statuses, knowledge, stats, deadline>>

(* Engine::register: DuplicateSource, which build_engine returns. *)
RefuseDuplicate ==
  /\ pc = "register"
  /\ Len(registry) < Len(submitted)
  /\ Taken
  /\ pc' = "rejected"
  /\ UNCHANGED <<setup, tasks, pending, permits, used, book, cursor, current,
                 statuses, knowledge, stats, deadline>>

(* Engine::investigate: Investigation::new, Run::new and the head of       *)
(* Run::execute, up to the loop of schedule(target, 0).                    *)
Investigate ==
  /\ pc = "register"
  /\ Len(registry) = Len(submitted)
  /\ target \in Investigable
  /\ visited' = {target}
  /\ cursor' = NoCursor(target)
  /\ pc' = "schedule"
  /\ UNCHANGED <<setup, tasks, pending, permits, used, dropped, considered,
                 overflow, current, statuses, knowledge, stats, deadline>>

(* Investigation::new returns the IndicatorError of the target. *)
RefuseTarget ==
  /\ pc = "register"
  /\ Len(registry) = Len(submitted)
  /\ target \notin Investigable
  /\ pc' = "rejected"
  /\ UNCHANGED <<setup, tasks, pending, permits, used, book, cursor, current,
                 statuses, knowledge, stats, deadline>>

-----------------------------------------------------------------------------
(* Run::schedule, one registered collector per step *)

(* Bug: pivots at the last level that is allowed are not enriched. *)
AppliesBelowLimit(s, i, d) ==
  /\ i \in Supports[s]
  /\ d > 0 => s \in OnPivots /\ d < MaxDepth

Applies(s, i, d) ==
  /\ i \in Supports[s]
  /\ d > 0 => s \in OnPivots

Scheduling ==
  /\ pc = "schedule"
  /\ cursor.next <= Len(registry)

Source == registry[cursor.next]
NextCollector == cursor' = [cursor EXCEPT !.next = @ + 1]

Consider == considered' = considered \cup {Source}

SkipCollector ==
  /\ Scheduling
  /\ ~Applies(Source, cursor.indicator, cursor.depth)
  /\ NextCollector
  /\ UNCHANGED <<pc, setup, tasks, pending, permits, used, book, current,
                 statuses, knowledge, stats, deadline>>

(* One "unavailable" status per source, not one per indicator. *)
MarkUnavailable ==
  /\ Scheduling
  /\ Applies(Source, cursor.indicator, cursor.depth)
  /\ Source \notin Ready
  /\ Consider
  /\ statuses' = IF Source \in considered THEN statuses
                 ELSE Record(<<Source, cursor.indicator>>, "unavailable")
  /\ NextCollector
  /\ UNCHANGED <<pc, setup, tasks, pending, permits, used, visited, dropped,
                 overflow, current, knowledge, stats, deadline>>

(* Run::spawn *)
Spawn ==
  /\ Scheduling
  /\ Applies(Source, cursor.indicator, cursor.depth)
  /\ Source \in Ready
  /\ Consider
  /\ tasks' = Append(tasks, NewTask(Source, cursor.indicator, cursor.depth))
  /\ stats' = [stats EXCEPT !.source_runs = @ + 1]
  /\ pending' = pending \cup {Len(tasks) + 1}
  /\ NextCollector
  /\ UNCHANGED <<pc, setup, permits, used, visited, dropped, overflow,
                 current, statuses, knowledge, deadline>>

(* schedule returns: to `execute` for the target, to consider_pivots else. *)
EndSchedule ==
  /\ pc = "schedule"
  /\ cursor.next > Len(registry)
  /\ pc' = IF current = Idle THEN "join" ELSE "pivot"
  /\ UNCHANGED <<setup, tasks, pending, permits, used, book, cursor, current,
                 statuses, knowledge, stats, deadline>>

-----------------------------------------------------------------------------
(* A collector task (the future Run::spawn hands to the JoinSet) *)

engineOnly == <<pc, setup, pending, book, cursor, current, statuses,
                knowledge, stats, deadline>>

(* acquire_owned: the permit is held until the task's future is dropped. *)
Acquire(t) ==
  /\ tasks[t].state = "queued"
  /\ permits > 0
  /\ permits' = permits - 1
  /\ tasks' = [tasks EXCEPT ![t].state = "running"]
  /\ UNCHANGED <<engineOnly, used>>

(* CollectContext::acquire_request with RequestBudget::try_acquire, for a  *)
(* collector that has requests left to make and was not refused before.    *)
MayRequest(t) ==
  /\ tasks[t].state = "running"
  /\ ~tasks[t].denied
  /\ tasks[t].requests < RequestsOf[tasks[t].source]

(* Bug: the budget allows one request more. *)
BudgetNotExceeded == used <= MaxRequests

(* RequestBudget::try_acquire *)
BudgetLeft == used < MaxRequests

OneMoreRequest(task) == [task EXCEPT !.requests = @ + 1]

Request(t) ==
  /\ MayRequest(t)
  /\ BudgetLeft
  /\ used' = used + 1
  /\ tasks' = [tasks EXCEPT ![t] = OneMoreRequest(@)]
  /\ UNCHANGED <<engineOnly, permits>>

RequestDenied(t) ==
  /\ MayRequest(t)
  /\ ~BudgetLeft
  /\ tasks' = [tasks EXCEPT ![t].denied = TRUE]
  /\ UNCHANGED <<engineOnly, permits, used>>

(* The future ends: its output waits in the JoinSet, its permit is freed. *)
End(t, state, result, collection) ==
  /\ tasks[t].state = "running"
  /\ tasks' = [tasks EXCEPT ![t] = [@ EXCEPT !.state = state,
                                            !.result = result,
                                            !.collection = collection]]
  /\ permits' = permits + 1
  /\ UNCHANGED <<engineOnly, used>>

(* collect returns a collection; a refused request may have become one of  *)
(* its noted failures.                                                     *)
Return(t) == \E c \in Collections[RunOf(t)] : End(t, "finished", "ok", c)

(* collect returns an error other than RequestBudgetExhausted. *)
Fail(t) == End(t, "finished", "error", NoCollection)

(* collect passes on the RequestBudgetExhausted it was given. *)
FailOnBudget(t) ==
  /\ tasks[t].denied
  /\ End(t, "finished", "budget", NoCollection)

(* tokio::time::timeout(source_timeout, collect(..)) elapses. *)
SourceTimeout(t) == End(t, "finished", "timeout", NoCollection)

(* Bug: a panic leaks the permit. *)
PanicWithPermit(t) ==
  /\ tasks[t].state = "running"
  /\ tasks' = [tasks EXCEPT ![t].state = "crashed"]
  /\ UNCHANGED <<engineOnly, used, permits>>

Panic(t) == End(t, "crashed", "none", NoCollection)

Task(t) ==
  \/ Acquire(t)
  \/ Request(t)
  \/ RequestDenied(t)
  \/ Return(t)
  \/ Fail(t)
  \/ FailOnBudget(t)
  \/ SourceTimeout(t)
  \/ Panic(t)

-----------------------------------------------------------------------------
(* The loop of Run::execute: join_next raced against the deadline *)

Joinable(t) ==
  /\ pc = "join"
  /\ t \in pending
  /\ tasks' = [tasks EXCEPT ![t].state = "joined"]
  /\ pending' = pending \ {t}

(* merge: every observation, then each claim whose evidence is known. *)
Known(c) == observations \cup c.observations

(* Bug: relationships are merged without looking at their evidence. *)
CitedUnchecked(c, e) ==
  UNION {r.evidence : r \in {q \in c.relationships : q.edge = e}}

(* Bug: relationships are merged before the run's observations. *)
CitedBefore(c, e) ==
  UNION {r.evidence : r \in {q \in c.relationships :
                               q.edge = e /\ q.evidence \subseteq observations}}

Cited(c, e) ==
  UNION {r.evidence : r \in {q \in c.relationships :
                               q.edge = e /\ q.evidence \subseteq Known(c)}}

(* Bug: what a run with a failed query found is not merged. *)
MergeIfComplete(c) ==
  /\ observations' = IF c.failures = 0 THEN Known(c) ELSE observations
  /\ UNCHANGED <<relationships, findings>>

Merge(c) ==
  /\ observations' = Known(c)
  /\ relationships' = [e \in Edges |-> relationships[e] \cup Cited(c, e)]
  /\ findings' =
       findings \cup {f \in c.findings : f.evidence \subseteq Known(c)}

Excess(pivots) ==
  IF Len(pivots) > MaxCandidates THEN Len(pivots) - MaxCandidates ELSE 0
Examined(pivots) ==
  IF Len(pivots) > MaxCandidates THEN SubSeq(pivots, 1, MaxCandidates)
  ELSE pivots

(* complete, Finished(Ok): merge, and enter consider_pivots. *)
CompleteOk(t) ==
  /\ tasks[t].state = "finished"
  /\ tasks[t].result = "ok"
  /\ Joinable(t)
  /\ LET c == tasks[t].collection IN
       /\ Merge(c)
       /\ overflow' = overflow + Excess(c.pivots)
       /\ current' = [task |-> t,
                      outcome |-> IF c.failures = 0 THEN "succeeded"
                                  ELSE "partial",
                      candidates |-> Examined(c.pivots)]
  /\ pc' = "pivot"
  /\ UNCHANGED <<setup, permits, used, visited, dropped, considered, cursor,
                 statuses, stats, deadline>>

(* complete, every other output. *)
ErrorOutcome(result) ==
  CASE result = "budget" -> "budget_exhausted"
    [] result = "timeout" -> "timed_out_source"
    [] OTHER -> "failed"

CompleteError(t) ==
  /\ tasks[t].state = "finished"
  /\ tasks[t].result # "ok"
  /\ Joinable(t)
  /\ statuses' = Record(RunOf(t), ErrorOutcome(tasks[t].result))
  /\ UNCHANGED <<pc, setup, permits, used, book, cursor, current, knowledge,
                 stats, deadline>>

(* Bug: nothing is reported of a run that panicked. *)
CrashedSilently(t) ==
  /\ tasks[t].state = "crashed"
  /\ Joinable(t)
  /\ UNCHANGED <<pc, setup, permits, used, book, cursor, current, statuses,
                 knowledge, stats, deadline>>

(* crashed: the JoinError of a panic. *)
Crashed(t) ==
  /\ tasks[t].state = "crashed"
  /\ Joinable(t)
  /\ statuses' = Record(RunOf(t), "failed")
  /\ UNCHANGED <<pc, setup, permits, used, book, cursor, current, knowledge,
                 stats, deadline>>

-----------------------------------------------------------------------------
(* Run::consider_pivots, one candidate per step *)

(* u8::saturating_add *)
ChildDepth(d) == IF d < DepthCap THEN d + 1 ELSE d

(* Bug: a pivot gets the depth of the run that reported it. *)
SameDepth == tasks[current.task].depth

PivotDepth == ChildDepth(tasks[current.task].depth)
Pivot == Head(current.candidates)

Considering ==
  /\ pc = "pivot"
  /\ current.candidates # <<>>
  /\ current' = [current EXCEPT !.candidates = Tail(@)]

(* Bug: of the indicators followed, only the target is remembered. *)
SeenAsTarget(i) == i = target \/ i \in dropped

Seen(i) == i \in visited \/ i \in dropped

(* Bug: one entity more than max_entities. *)
RejectedLate(i) ==
  \/ PivotDepth > MaxDepth
  \/ Cardinality(visited) - 1 > MaxEntities
  \/ i \notin Investigable

Rejected(i) ==
  \/ PivotDepth > MaxDepth
  \/ Cardinality(visited) - 1 >= MaxEntities
  \/ i \notin Investigable

SkipPivot ==
  /\ Considering
  /\ Seen(Pivot)
  /\ UNCHANGED <<pc, setup, tasks, pending, permits, used, book, cursor,
                 statuses, knowledge, stats, deadline>>

DropPivot ==
  /\ Considering
  /\ ~Seen(Pivot)
  /\ Rejected(Pivot)
  /\ dropped' = dropped \cup {Pivot}
  /\ UNCHANGED <<pc, setup, tasks, pending, permits, used, visited,
                 considered, overflow, cursor, statuses, knowledge, stats,
                 deadline>>

FollowPivot ==
  /\ Considering
  /\ ~Seen(Pivot)
  /\ ~Rejected(Pivot)
  /\ visited' = visited \cup {Pivot}
  /\ stats' = [stats EXCEPT !.pivots_followed = @ + 1]
  /\ cursor' = [indicator |-> Pivot, depth |-> PivotDepth, next |-> 1]
  /\ pc' = "schedule"
  /\ UNCHANGED <<setup, tasks, pending, permits, used, dropped, considered,
                 overflow, statuses, knowledge, deadline>>

(* The rest of complete: the status comes after the pivots. *)
RecordAnswer ==
  /\ pc = "pivot"
  /\ current.candidates = <<>>
  /\ statuses' = Record(RunOf(current.task), current.outcome)
  /\ current' = Idle
  /\ pc' = "join"
  /\ UNCHANGED <<setup, tasks, pending, permits, used, book, cursor,
                 knowledge, stats, deadline>>

-----------------------------------------------------------------------------
(* The deadline, cancellation and the end of Run::execute *)

(* Time reaches `deadline`; when the engine notices is another step. *)
DeadlinePasses ==
  /\ pc \notin {"register", "rejected", "done"}
  /\ ~deadline
  /\ deadline' = TRUE
  /\ UNCHANGED <<pc, setup, tasks, pending, permits, used, book, cursor,
                 current, statuses, knowledge, stats>>

(* timeout_at polls join_next before the timer: it elapses only if no task *)
(* can be joined.  cancel_remaining begins.                                *)
Elapse ==
  /\ pc = "join"
  /\ deadline
  /\ Unjoined # {}
  /\ Ended = {}
  /\ stats' = [stats EXCEPT !.deadline_exceeded = TRUE]
  /\ pc' = "cancel"
  /\ UNCHANGED <<setup, tasks, pending, permits, used, book, cursor, current,
                 statuses, knowledge, deadline>>

(* Bug: the tasks are awaited without being aborted. *)
ReapEnded(t) ==
  /\ pc = "cancel"
  /\ t \in Ended
  /\ tasks' = [tasks EXCEPT ![t].state = "joined"]
  /\ UNCHANGED <<engineOnly, used, permits>>

(* abort_all, then join_next until the set is empty.  A task stops at its  *)
(* next await, so until it is reaped it may still make a request, take a   *)
(* permit or finish: what it returned is discarded with it.                *)
Reap(t) ==
  /\ pc = "cancel"
  /\ tasks[t].state # "joined"
  /\ permits' = IF tasks[t].state = "running" THEN permits + 1 ELSE permits
  /\ tasks' = [tasks EXCEPT ![t].state = "joined"]
  /\ UNCHANGED <<engineOnly, used>>

(* Bug: every run is reported as cut off, not only the pending ones. *)
CutOffAll ==
  [r \in Runs |-> IF \E t \in DOMAIN tasks : RunOf(t) = r
                  THEN Append(statuses[r], "timed_out_investigation")
                  ELSE statuses[r]]

CutOff ==
  [r \in Runs |-> IF \E t \in pending : RunOf(t) = r
                  THEN Append(statuses[r], "timed_out_investigation")
                  ELSE statuses[r]]

(* The JoinSet is empty: pending.drain(). *)
DrainPending ==
  /\ pc = "cancel"
  /\ Unjoined = {}
  /\ statuses' = CutOff
  /\ pending' = {}
  /\ pc' = "report"
  /\ UNCHANGED <<setup, tasks, permits, used, book, cursor, current,
                 knowledge, stats, deadline>>

(* join_next returns None. *)
AllJoined ==
  /\ pc = "join"
  /\ Unjoined = {}
  /\ pc' = "report"
  /\ UNCHANGED <<setup, tasks, pending, permits, used, book, cursor, current,
                 statuses, knowledge, stats, deadline>>

(* Bug: a source without a status on the target counts as unsupported. *)
SilentOnTarget == {s \in Registered : statuses[<<s, target>>] = <<>>}

Unconsidered == Registered \ considered

(* Bug: the flag says that time is up, not that a run was cut off. *)
StatsAtDeadline ==
  [stats EXCEPT !.requests_used = used,
                !.pivots_dropped = Cardinality(dropped) + overflow,
                !.deadline_exceeded = deadline]

FinalStats ==
  [stats EXCEPT !.requests_used = used,
                !.pivots_dropped = Cardinality(dropped) + overflow]

(* record_unsupported, the last counters and Investigation::finish. *)
Report ==
  /\ pc = "report"
  /\ statuses' =
       [r \in Runs |-> IF r[1] \in Unconsidered /\ r[2] = target
                       THEN Append(statuses[r], "unsupported")
                       ELSE statuses[r]]
  /\ stats' = FinalStats
  /\ pc' = "done"
  /\ UNCHANGED <<setup, tasks, pending, permits, used, book, cursor, current,
                 knowledge, deadline>>

(* The investigation is over: investigate has returned. *)
Over ==
  /\ pc \in {"done", "rejected"}
  /\ UNCHANGED vars

-----------------------------------------------------------------------------
(* The specification *)

Join(t) == CompleteOk(t) \/ CompleteError(t) \/ Crashed(t)

Sequential ==
  \/ Register
  \/ RefuseDuplicate
  \/ Investigate
  \/ RefuseTarget
  \/ SkipCollector
  \/ MarkUnavailable
  \/ Spawn
  \/ EndSchedule
  \/ SkipPivot
  \/ DropPivot
  \/ FollowPivot
  \/ RecordAnswer
  \/ Elapse
  \/ DrainPending
  \/ AllJoined
  \/ Report

Next ==
  \/ Sequential
  \/ \E t \in DOMAIN tasks : Join(t) \/ Reap(t) \/ Task(t)
  \/ DeadlinePasses
  \/ Over

Spec == Init /\ [][Next]_vars

(* The engine's future is polled whenever it can advance, and the runtime  *)
(* lets every task take its first poll.                                    *)
EngineFairness ==
  /\ WF_vars(Sequential)
  /\ WF_vars(\E t \in DOMAIN tasks : Join(t))
  /\ WF_vars(\E t \in DOMAIN tasks : Reap(t))

(* No collector need return.  Termination says which timer is relied on.   *)
FairSpec == Spec /\ EngineFairness

-----------------------------------------------------------------------------
(* Properties *)

TaskRecord ==
  [source : Sources, indicator : Indicators, depth : 0..DepthCap,
   state : {"queued", "running", "finished", "crashed", "joined"},
   result : {"none", "ok", "error", "budget", "timeout"},
   collection : Collection, requests : Nat, denied : BOOLEAN]

(* The type invariant: every variable of Run, and the tasks it spawned.    *)
TypeOK ==
  /\ pc \in {"register", "rejected", "schedule", "join", "pivot", "cancel",
             "report", "done"}
  /\ submitted \in Seq(Sources)
  /\ registry \in Seq(Sources)
  /\ target \in Indicators
  /\ tasks \in Seq(TaskRecord)
  /\ pending \subseteq DOMAIN tasks
  /\ permits \in Nat
  /\ used \in 0..MaxRequests
  /\ visited \subseteq Indicators /\ IsFiniteSet(visited)
  /\ dropped \subseteq Indicators /\ IsFiniteSet(dropped)
  /\ considered \subseteq Sources
  /\ overflow \in Nat
  /\ cursor \in [indicator : Indicators, depth : 0..DepthCap,
                 next : Nat \ {0}]
  /\ current \in [task : Nat, outcome : Answers \cup {"none"},
                  candidates : Seq(Indicators)]
  /\ statuses \in [Runs -> Seq(Outcomes)]
  /\ observations \subseteq Observations
  /\ relationships \in [Edges -> SUBSET Observations]
  /\ findings \subseteq Finding
  /\ stats \in [source_runs : Nat, pivots_followed : Nat,
                pivots_dropped : Nat, requests_used : Nat,
                deadline_exceeded : BOOLEAN]
  /\ deadline \in BOOLEAN

(* A completion is in hand exactly while consider_pivots and the schedule  *)
(* it calls are on the stack; its task left `pending` when it was taken.   *)
ControlOK ==
  /\ pc = "register" => tasks = <<>>
  /\ pc = "pivot" => current # Idle
  /\ pc \notin {"pivot", "schedule"} => current = Idle
  /\ current # Idle => /\ current.task \in DOMAIN tasks \ pending
                       /\ current.outcome \in Answers

Unsettled(t) == t \in pending \/ t = current.task

(* "Every run produces exactly one SourceStatus with the indicator it ran  *)
(* on" (docs/ARCHITECTURE.md): a run that is tracked, or whose completion  *)
(* is being handled, has none yet; every other one has exactly one.        *)
OneStatusPerRun ==
  \A t \in DOMAIN tasks : Len(statuses[RunOf(t)]) = IF Unsettled(t) THEN 0 ELSE 1

(* "No cycles, no repeats": no source is run twice on one indicator,       *)
(* however often completions name it and in whatever order they arrive.    *)
NoRepeatedRun ==
  \A t, u \in DOMAIN tasks : RunOf(t) = RunOf(u) => t = u

(* The JoinSet and `pending` track the same tasks whenever the engine      *)
(* awaits, so complete and crashed always find the task they are given.    *)
TrackedIffUnjoined == pc \in {"schedule", "pivot", "join"} => pending = Unjoined

(* The parts of the inductive invariant the two properties above rest on.  *)
RegistryDistinct ==
  \A j, k \in DOMAIN registry : registry[j] = registry[k] => j = k

(* A task exists only because a ready, registered source was considered    *)
(* for an indicator that was accepted for enrichment.                      *)
TasksAreJustified ==
  \A t \in DOMAIN tasks :
    /\ tasks[t].indicator \in visited
    /\ tasks[t].source \in Registered \cap Ready \cap considered

(* While an indicator is being scheduled, only the collectors before the   *)
(* cursor can have been spawned for it.                                    *)
CursorAhead ==
  pc = "schedule" =>
    /\ cursor.indicator \in visited
    /\ \A t \in DOMAIN tasks : tasks[t].indicator = cursor.indicator =>
         \E k \in DOMAIN registry :
           k < cursor.next /\ registry[k] = tasks[t].source

(* A status without a run is an "unavailable" or, at the end, an           *)
(* "unsupported" one.                                                      *)
StatusesAreJustified ==
  \A r \in Runs : statuses[r] # <<>> =>
    \/ pc = "done"
    \/ r[1] \notin Ready
    \/ \E t \in DOMAIN tasks : RunOf(t) = r

(* Only a source that was considered has a status before the end, and at   *)
(* the end no run is open: what the refinement of SourceLedger rests on.   *)
StatusesAreConsidered ==
  pc # "done" => \A r \in Runs : statuses[r] # <<>> => r[1] \in considered

NothingOpenAtReport == pc \in {"report", "done"} => pending = {}

RunInvariant ==
  /\ TypeOK
  /\ ControlOK
  /\ RegistryDistinct
  /\ TasksAreJustified
  /\ CursorAhead
  /\ NoRepeatedRun
  /\ StatusesAreJustified
  /\ OneStatusPerRun

(* The concurrency limit survives every way a task can end: the permits    *)
(* available and the permits held always add up to the semaphore's size.   *)
PermitsConserved == permits + Cardinality(Holders) = Capacity

LedgerInvariant ==
  /\ RunInvariant
  /\ TrackedIffUnjoined
  /\ NothingOpenAtReport
  /\ StatusesAreConsidered

(* A followed pivot is investigable and within max_entities, and every run *)
(* is within max_depth, whichever source reported the pivot first.         *)
PivotLimits ==
  /\ visited \subseteq Investigable
  /\ Cardinality(visited) <= MaxEntities + 1
  /\ visited # {} => stats.pivots_followed = Cardinality(visited) - 1
  /\ \A t \in DOMAIN tasks : tasks[t].depth <= MaxDepth

Answered(t) ==
  \/ t = current.task
  \/ \E k \in DOMAIN statuses[RunOf(t)] : statuses[RunOf(t)][k] \in Answers

(* Every indicator enriched beyond the target was reported by a run that   *)
(* answered and was one level closer to the target.                        *)
PivotsAreReported ==
  \A t \in DOMAIN tasks :
    tasks[t].indicator # target =>
      \E u \in DOMAIN tasks :
        /\ Answered(u)
        /\ tasks[t].depth = ChildDepth(tasks[u].depth)
        /\ \E k \in DOMAIN tasks[u].collection.pivots :
             tasks[u].collection.pivots[k] = tasks[t].indicator

Scheduled(i) == i \in visited /\ ~(pc = "schedule" /\ cursor.indicator = i)

(* No enrichment is lost: once an indicator is followed, each registered,  *)
(* ready collector that applies to it has been spawned, even when the      *)
(* deadline passes in the middle.                                          *)
EveryApplicableRuns ==
  \A i \in visited, s \in Registered \cap Ready :
    /\ Scheduled(i)
    /\ i \in Supports[s]
    /\ i = target \/ s \in OnPivots
    => \E t \in DOMAIN tasks : RunOf(t) = <<s, i>>

StatusesOf(s) == {i \in Indicators : statuses[<<s, i>>] # <<>>}
Reported(s, o) ==
  \E i \in Indicators : statuses[<<s, i>>] = <<o>>

(* "Every registered source is accounted for": in the report a source has  *)
(* the statuses of its runs, or one "unavailable", or one "unsupported".   *)
EverySourceAccounted ==
  pc = "done" =>
    \A s \in Registered :
      \/ /\ StatusesOf(s) # {}
         /\ \A i \in StatusesOf(s) :
              \E t \in DOMAIN tasks : RunOf(t) = <<s, i>>
      \/ /\ Cardinality(StatusesOf(s)) = 1
         /\ \E o \in {"unavailable", "unsupported"} : Reported(s, o)
         /\ \A t \in DOMAIN tasks : tasks[t].source # s

(* The evidence in the report is that of the runs reported as answering:   *)
(* nothing of a run that failed, timed out or was cut off is merged, and   *)
(* nothing of a run reported as succeeded or partial is missing.           *)
EvidenceMatchesStatuses ==
  observations =
    UNION {tasks[t].collection.observations :
             t \in {u \in DOMAIN tasks : Answered(u)}}

(* "Every relationship and finding cites only observations that belong to  *)
(* this investigation" (core/src/investigation.rs).                        *)
ClaimsAreBacked ==
  /\ \A e \in Edges : relationships[e] \subseteq observations
  /\ \A f \in findings : f.evidence \subseteq observations

(* A claim of an answering run that cites the run's own observations is    *)
(* never discarded, and its evidence survives merges into the same edge.   *)
OwnClaimsAreKept ==
  \A t \in {u \in DOMAIN tasks : Answered(u)} :
    LET c == tasks[t].collection IN
      /\ \A r \in c.relationships :
           r.evidence \subseteq c.observations =>
             r.evidence \subseteq relationships[r.edge]
      /\ \A f \in c.findings :
           f.evidence \subseteq c.observations => f \in findings

(* deadline_exceeded says what the statuses say: it is set exactly when    *)
(* some run was cut off by the investigation's deadline.                   *)
DeadlineVerdict ==
  pc = "done" =>
    (stats.deadline_exceeded <=>
       \E s \in Sources : Reported(s, "timed_out_investigation"))

(* The engine implements the ledger of source statuses: see SourceLedger.  *)
OpenRuns == {RunOf(t) : t \in {u \in DOMAIN tasks : Unsettled(u)}}

Ledger ==
  INSTANCE SourceLedger WITH
    Run <- Runs,
    Verdict <- Answers \cup {"budget_exhausted", "failed", "timed_out_source"},
    Refusal <- "unavailable",
    Unused <- "unsupported",
    CutShort <- "timed_out_investigation",
    open <- OpenRuns,
    verdicts <- statuses,
    closed <- pc = "done"

ImplementsLedger == Ledger!Spec

(* Every task that asks for a permit gets one when it can, and the timer   *)
(* of a collector that runs fires.                                         *)
SourceTimers ==
  /\ WF_vars(\E t \in DOMAIN tasks : Acquire(t))
  /\ WF_vars(\E t \in DOMAIN tasks : SourceTimeout(t))

(* The investigation always ends, however collectors behave, by either of  *)
(* its timers alone: the per-source timeout, even if the deadline never    *)
(* comes, and the deadline, even if no collector is ever timed out.        *)
Termination ==
  SourceTimers \/ WF_vars(DeadlinePasses) => <>(pc \in {"done", "rejected"})

-----------------------------------------------------------------------------
(* What the documentation says and the code does not do *)

(* "budget_exhausted: Not run" (docs/ARCHITECTURE.md, SourceOutcome).      *)
BudgetExhaustedDidNotRun ==
  \A t \in DOMAIN tasks :
    statuses[RunOf(t)] = <<"budget_exhausted">> => tasks[t].requests = 0
=============================================================================
